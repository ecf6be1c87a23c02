----------------------------- MODULE PromptProofs -----------------------------
(***************************************************************************)
(* What the model is asked: the block of retrieved memory (MemoryContext)  *)
(* and the history it is put beside (ChatPrompt); and how the documents    *)
(* of the memory are cut into chunks (MemoryChunks).                       *)
(***************************************************************************)
EXTENDS MemoryContext, ChatPrompt, MemoryChunks, TLAPS, WellFoundedInduction, FiniteSetTheorems, SequenceTheorems

-------------------------------------------------------------------------------
(* The block of memory exceeds its budget by no more than three tokens for      *)
(* every two lines, for every budget, every list of facts and every list of     *)
(* results. What was paid for a line is at least a quarter of its plain runes   *)
(* and half of its wide ones, less five quarters lost in rounding; the line     *)
(* breaks were never paid for. Its results are in the order of their rank, and  *)
(* those kept are what the rules for duplicates and for one source allow.       *)

\* What the lines weigh is covered by what was paid, but for the rounding.
Covered == size.plain + 2 * size.wide + 16 <= 4 * (MaxTokens - budget) + 5 * lines
Paid ==
  /\ budget <= MaxTokens
  /\ stage = "open" => size = Plain(0) /\ lines = 0
  /\ stage # "open" /\ (stage # "built" \/ lines > 0) => Covered
  /\ usedFacts > 0 \/ usedResults # <<>> => lines > 0
  /\ stage \in {"fact", "result"} => lines > 0

ContextInv == ContextTypeOK /\ Paid

LEMMA ElementType ==
  ASSUME NEW S, NEW list \in Seq(S), NEW i \in DOMAIN list
  PROVE  list[i] \in S /\ i \in Nat /\ DOMAIN list = 1 .. Len(list) /\ Len(list) \in Nat
<1>1. Len(list) \in Nat /\ DOMAIN list = 1 .. Len(list)
  OBVIOUS
<1>2. i \in 1 .. Len(list)
  BY <1>1
<1>. QED  BY <1>1, <1>2

\* A number of words that fits has a largest.
LEMMA BoundedHasLargest ==
  ASSUME NEW w \in Nat, NEW S \in SUBSET (0 .. w), S # {}
  PROVE  \E n \in S : \A m \in S : m <= n
<1>. DEFINE T == {w - n : n \in S}
<1>1. T \in SUBSET Nat /\ T # {}
  <2>1. \A n \in S : n \in 0 .. w /\ w - n \in Nat
    OBVIOUS
  <2>. QED  BY <2>1
<1>2. PICK x \in T : \A y \in T : ~(<<y, x>> \in OpToRel(<, Nat))
  BY <1>1, WFMin, NatLessThanWellFounded, Zenon
<1>3. \A y \in T : ~(y < x)
  BY <1>1, <1>2, Zenon DEF OpToRel
<1>4. PICK n \in S : x = w - n
  BY <1>2
<1>5. ASSUME NEW m \in S
      PROVE  m <= n
  <2>1. ~(w - m < w - n)
    BY <1>3, <1>4
  <2>2. m \in 0 .. w /\ n \in 0 .. w
    OBVIOUS
  <2>. QED  BY <2>1, <2>2
<1>. QED  BY <1>5

Bodies == [words : Nat, each : Nat, wide : BOOLEAN]

LEMMA PrefixType ==
  ASSUME NEW body \in Bodies, NEW n \in Nat
  PROVE  Prefix(body, n) \in Size
<1>1. n * body.each \in Nat
  BY DEF Bodies
<1>. QED  BY <1>1 DEF Prefix, Size, Plain, Bodies

LEMMA LongestFits ==
  ASSUME NEW body \in Bodies, NEW limit \in Nat
  PROVE  Longest(body, limit) \in Fitting(body, limit)
<1>1. 0 \in Fitting(body, limit)
  BY DEF Fitting, Prefix, Plain, Count, Bodies
<1>2. \E n \in Fitting(body, limit) : \A m \in Fitting(body, limit) : m <= n
  <2>1. body.words \in Nat /\ Fitting(body, limit) \in SUBSET (0 .. body.words)
    BY DEF Fitting, Bodies
  <2>. QED  BY <1>1, <2>1, BoundedHasLargest
<1>. QED  BY <1>2 DEF Longest

LEMMA CountType ==
  ASSUME NEW text \in Size
  PROVE  /\ Count(text) \in Nat /\ EstimateTokens(text) \in Nat
         /\ Count(text) <= EstimateTokens(text)
         /\ text.plain + 2 * text.wide <= 4 * EstimateTokens(text) + 5
BY DEF Count, EstimateTokens, Size

LEMMA TrimEffect ==
  ASSUME NEW body \in Bodies, NEW limit \in Nat \ {0}
  PROVE  Trim(body, limit) \in Size /\ Count(Trim(body, limit)) <= limit
<1>1. CASE EstimateTokens(Whole(body)) <= limit
  <2>1. Whole(body) \in Size
    BY PrefixType DEF Whole, Bodies
  <2>. QED  BY <1>1, <2>1, CountType DEF Trim
<1>2. CASE ~(EstimateTokens(Whole(body)) <= limit)
  <2>. DEFINE n == Longest(body, limit - 1)
  <2>1. n \in Nat /\ Count(Prefix(body, n)) <= limit - 1
    BY LongestFits DEF Fitting, Bodies
  <2>2. Prefix(body, n) \in Size
    BY <2>1, PrefixType
  <2>3. Trim(body, limit) = Cut(body, n)
    BY <1>2 DEF Trim
  <2>4. CASE n = 0
    BY <2>3, <2>4 DEF Cut, Plain, Size, Count
  <2>5. CASE n # 0
    <3>1. Cut(body, n) = Plus(Prefix(body, n), Plain(2))
      BY <2>5 DEF Cut
    <3>. HIDE DEF n
    <3>. QED  BY <3>1, <2>1, <2>2, <2>3 DEF Plus, Plain, Size, Count
  <2>. QED  BY <2>4, <2>5
<1>. QED  BY <1>1, <1>2

LEMMA FactType ==
  ASSUME ContextTypeOK, NEW i \in DOMAIN facts
  PROVE  facts[i].size \in Size
<1>1. facts \in Seq([key : STRING, size : Size])
  BY ContextAssumption DEF ContextTypeOK
<1>2. facts[i] \in [key : STRING, size : Size]
  BY <1>1, ElementType
<1>. QED  BY <1>2

LEMMA ResultType ==
  ASSUME ContextTypeOK, NEW i \in DOMAIN results
  PROVE  results[i].body \in Bodies /\ results[i].label \in Size /\ i \in Nat
<1>. DEFINE Candidate == [chunk : Nat, source : Nat, print : Nat, score : Nat, age : Nat, label : Size, body : Bodies]
<1>1. results \in Seq(Candidate)
  BY ContextAssumption DEF ContextTypeOK, Bodies
<1>2. results[i] \in Candidate /\ i \in Nat
  BY <1>1, ElementType
<1>. QED  BY <1>2

LEMMA EntryType ==
  ASSUME ContextTypeOK, NEW i \in DOMAIN results, Renders(results[i], budget)
  PROVE  Entry(results[i], budget) \in Size
<1>1. budget - Reserved \in Nat \ {0}
  BY DEF Renders, Reserved, ContextTypeOK
<1>2. Trim(results[i].body, budget - Reserved) \in Size
  BY <1>1, ResultType, TrimEffect
<1>. QED  BY <1>2, ResultType DEF Entry, Plus, Plain, Size

LEMMA SpendEffect ==
  ASSUME ContextTypeOK, NEW text \in Size, Spend(text)
  PROVE  /\ budget' \in Nat /\ budget' <= budget
         /\ text.plain + 2 * text.wide <= 4 * (budget - budget') + 5
<1>. DEFINE cost == EstimateTokens(text)
<1>1. cost \in Nat /\ text.plain + 2 * text.wide <= 4 * cost + 5
  BY CountType
<1>2. budget \in Nat /\ cost <= budget /\ budget' = budget - cost
  BY DEF Spend, ContextTypeOK
<1>. HIDE DEF cost
<1>3. budget' \in Nat /\ budget' <= budget /\ budget - budget' = cost
  BY <1>1, <1>2
<1>. QED  BY <1>1, <1>3

LEMMA AddEffect ==
  ASSUME ContextTypeOK, NEW text \in Size, Add(text)
  PROVE  /\ size' \in Size /\ lines' \in Nat /\ lines' > 0
         /\ size'.plain = size.plain + text.plain /\ size'.wide = size.wide + text.wide
         /\ lines' = lines + 1
BY DEF Add, Plus, Size, ContextTypeOK

\* A line that is paid for keeps the block covered.
LEMMA LineKeepsCovered ==
  ASSUME ContextInv, Covered, NEW text \in Size, Spend(text), Add(text)
  PROVE  Covered' /\ budget' <= MaxTokens
<1>1. ContextTypeOK /\ budget \in Nat /\ lines \in Nat /\ size.plain \in Nat /\ size.wide \in Nat
      /\ text.plain \in Nat /\ text.wide \in Nat
  BY DEF ContextInv, ContextTypeOK, Size
<1>2. /\ budget' \in Nat /\ budget' <= budget
      /\ text.plain + 2 * text.wide <= 4 * (budget - budget') + 5
  BY <1>1, SpendEffect
<1>3. size'.plain = size.plain + text.plain /\ size'.wide = size.wide + text.wide /\ lines' = lines + 1
  BY <1>1, AddEffect
<1>4. budget <= MaxTokens /\ MaxTokens \in Nat
  BY ContextAssumption DEF ContextInv, Paid
<1>. QED  BY <1>1, <1>2, <1>3, <1>4 DEF Covered

LEMMA InitPaid == ContextInit => ContextInv
BY ContextAssumption DEF ContextInit, ContextInv, ContextTypeOK, Paid, Covered, Plain, Size

LEMMA ConstantSizes == Tags \in Size /\ FactHeader \in Size /\ ResultHeader \in Size
BY DEF Tags, FactHeader, ResultHeader, Plain, Size

LEMMA OpenKeeps == ContextInv /\ Open => ContextInv'
<1>. SUFFICES ASSUME ContextInv, Open PROVE ContextInv'
  OBVIOUS
<1>. USE DEF ContextInv
<1>1. CASE Spend(Tags) /\ stage' = "facts"
  <2>1. EstimateTokens(Tags) = 4
    BY DEF EstimateTokens, Count, Tags, Plain
  <2>2. budget' \in Nat /\ budget' = budget - 4
    BY <1>1, <2>1 DEF Spend, ContextTypeOK
  <2>3. size' = Plain(0) /\ lines' = 0
    BY DEF Open, Paid
  <2>4. Covered'
    BY <2>2, <2>3, ContextAssumption DEF Covered, Plain, Paid, ContextTypeOK
  <2>. QED  BY <1>1, <2>2, <2>3, <2>4, ContextAssumption DEF Open, ContextTypeOK, Paid, Plain, Size
<1>2. CASE Refused(Tags) /\ stage' = "built"
  BY <1>2 DEF Open, Refused, ContextTypeOK, Paid
<1>. QED  BY <1>1, <1>2 DEF Open

LEMMA OpenFactsKeeps == ContextInv /\ OpenFacts => ContextInv'
<1>. SUFFICES ASSUME ContextInv, OpenFacts PROVE ContextInv'
  OBVIOUS
<1>. USE DEF ContextInv
<1>1. Covered
  BY DEF Paid, OpenFacts
<1>2. CASE facts # <<>> /\ Spend(FactHeader) /\ Add(FactHeader) /\ stage' = "fact"
  BY <1>1, <1>2, ConstantSizes, LineKeepsCovered, SpendEffect, AddEffect DEF OpenFacts, ContextTypeOK, Paid
<1>3. CASE UNCHANGED <<budget, size, lines>> /\ stage' = "results"
  BY <1>1, <1>3 DEF OpenFacts, ContextTypeOK, Paid, Covered
<1>. QED  BY <1>2, <1>3 DEF OpenFacts, Refused

LEMMA AddFactKeeps == ContextInv /\ AddFact => ContextInv'
<1>. SUFFICES ASSUME ContextInv, AddFact PROVE ContextInv'
  OBVIOUS
<1>. USE DEF ContextInv
<1>1. Covered /\ stage = "fact" /\ stage' = "fact"
  BY DEF Paid, AddFact
<1>2. PICK i \in DOMAIN facts :
        \/ Spend(facts[i].size) /\ Add(facts[i].size) /\ usedFacts' = usedFacts + 1 /\ UNCHANGED dropped
        \/ Refused(facts[i].size) /\ dropped' = dropped + 1 /\ UNCHANGED <<size, lines, usedFacts>>
  BY DEF AddFact, Firsts
<1>3. facts[i].size \in Size
  BY FactType
<1>4. CASE Spend(facts[i].size) /\ Add(facts[i].size) /\ usedFacts' = usedFacts + 1 /\ UNCHANGED dropped
  BY <1>1, <1>3, <1>4, LineKeepsCovered, SpendEffect, AddEffect DEF AddFact, ContextTypeOK, Paid
<1>5. CASE Refused(facts[i].size) /\ dropped' = dropped + 1 /\ UNCHANGED <<size, lines, usedFacts>>
  BY <1>1, <1>5 DEF AddFact, Refused, ContextTypeOK, Paid, Covered
<1>. QED  BY <1>2, <1>4, <1>5

\* ---- The ranking of the results, and those that are kept. ----

Found == Seq([chunk : Nat, source : Nat, print : Nat, score : Nat, age : Nat, label : Size, body : Bodies])

LEMMA FoundType == ContextTypeOK => results \in Found
BY ContextAssumption DEF ContextTypeOK, Found, Bodies

LEMMA TiltedType ==
  ASSUME NEW r, r.score \in Nat
  PROVE  Tilted(r) \in Int
<1>. DEFINE tilt == IF r.age < 7 THEN 5 ELSE IF r.age < 30 THEN 2 ELSE IF r.age \in 366 .. 9999 THEN -3 ELSE 0
<1>1. tilt \in Int
  <2>1. tilt \in {5, 2, -3, 0}
    <3>1. CASE r.age < 7
      BY <3>1
    <3>2. CASE ~(r.age < 7) /\ r.age < 30
      BY <3>2
    <3>3. CASE ~(r.age < 7) /\ ~(r.age < 30)
      BY <3>3
    <3>. HIDE DEF tilt
    <3>. QED  BY <3>1, <3>2, <3>3
  <2>. HIDE DEF tilt
  <2>. QED  BY <2>1
<1>2. Tilted(r) = r.score + tilt
  BY DEF Tilted
<1>. HIDE DEF tilt
<1>. QED  BY <1>1, <1>2

\* The ranking is a strict total order of the positions.
LEMMA AheadOrders ==
  ASSUME NEW list \in Found, NEW i \in DOMAIN list, NEW j \in DOMAIN list, NEW k \in DOMAIN list
  PROVE  /\ ~Ahead(list, i, i)
         /\ Ahead(list, i, j) /\ Ahead(list, j, k) => Ahead(list, i, k)
         /\ i # j => Ahead(list, i, j) \/ Ahead(list, j, i)
         /\ Ahead(list, i, j) => Tilted(list[i]) >= Tilted(list[j])
         /\ IsFiniteSet(DOMAIN list)
<1>1. ASSUME NEW p \in DOMAIN list
      PROVE  p \in Int /\ Tilted(list[p]) \in Int
  <2>1. list[p] \in [chunk : Nat, source : Nat, print : Nat, score : Nat, age : Nat, label : Size, body : Bodies]
    BY ElementType DEF Found
  <2>2. p \in Nat
    BY ElementType DEF Found
  <2>3. list[p].score \in Nat
    BY <2>1
  <2>. QED  BY <2>2, <2>3, TiltedType
<1>2. i \in Int /\ j \in Int /\ k \in Int
      /\ Tilted(list[i]) \in Int /\ Tilted(list[j]) \in Int /\ Tilted(list[k]) \in Int
  BY <1>1
<1>3. DOMAIN list = 1 .. Len(list) /\ Len(list) \in Nat
  BY ElementType DEF Found
<1>4. IsFiniteSet(DOMAIN list)
  BY <1>3, FS_Interval
<1>. QED  BY <1>2, <1>4 DEF Ahead

\* What is ahead has the smaller rank, and the other way round.
LEMMA RankOrders ==
  ASSUME NEW list \in Found, NEW S \in SUBSET DOMAIN list, NEW i \in S, NEW j \in S
  PROVE  /\ Rank(list, S, i) \in Nat /\ Rank(list, S, i) <= Cardinality(S)
         /\ Ahead(list, j, i) <=> Rank(list, S, j) < Rank(list, S, i)
<1>1. ASSUME NEW p \in S
      PROVE  /\ IsFiniteSet({x \in S : Ahead(list, x, p)})
             /\ Rank(list, S, p) \in Nat /\ Rank(list, S, p) <= Cardinality(S)
  <2>1. IsFiniteSet(S)
    BY AheadOrders, FS_Subset
  <2>2. {x \in S : Ahead(list, x, p)} \in SUBSET S
    OBVIOUS
  <2>. QED  BY <2>1, <2>2, FS_Subset, FS_CardinalityType DEF Rank
<1>2. ASSUME NEW p \in S, NEW q \in S, Ahead(list, p, q)
      PROVE  Rank(list, S, p) < Rank(list, S, q)
  <2>. DEFINE P == {x \in S : Ahead(list, x, p)}
              Q == {x \in S : Ahead(list, x, q)}
  <2>1. P \in SUBSET Q
    BY <1>2, AheadOrders
  <2>2. p \in Q /\ p \notin P
    BY <1>2, AheadOrders
  <2>3. IsFiniteSet(Q) /\ Cardinality(P) \in Nat /\ Cardinality(Q) \in Nat
    BY <1>1 DEF Rank
  <2>4. Cardinality(P) <= Cardinality(Q) /\ (Cardinality(P) = Cardinality(Q) => P = Q)
    BY <2>1, <2>3, FS_Subset
  <2>5. Cardinality(P) # Cardinality(Q)
    BY <2>2, <2>4
  <2>6. Cardinality(P) < Cardinality(Q)
    <3>. HIDE DEF P, Q
    <3>. QED  BY <2>3, <2>4, <2>5
  <2>. QED  BY <2>6 DEF Rank
<1>3. Ahead(list, j, i) => Rank(list, S, j) < Rank(list, S, i)
  BY <1>2
<1>4. Rank(list, S, j) < Rank(list, S, i) => Ahead(list, j, i)
  <2>. SUFFICES ASSUME Rank(list, S, j) < Rank(list, S, i), ~Ahead(list, j, i)
                PROVE  FALSE
    OBVIOUS
  <2>1. Rank(list, S, i) \in Nat /\ Rank(list, S, j) \in Nat
    BY <1>1
  <2>2. i # j
    BY <2>1
  <2>3. Ahead(list, i, j)
    BY <2>2, AheadOrders
  <2>. QED  BY <1>2, <2>1, <2>3
<1>. QED  BY <1>1, <1>3, <1>4

\* Kept answers for the results ranked below n.
KeptBelow(list, kept, n) ==
  /\ kept \in SUBSET DOMAIN list
  /\ \A i \in kept : Rank(list, DOMAIN list, i) < n
  /\ \A i \in DOMAIN list : Rank(list, DOMAIN list, i) < n =>
       (i \in kept <=> Keeps(list, KeptAhead(list, kept, i), i))

LEMMA KeptOneMore ==
  ASSUME NEW list \in Found, NEW kept, NEW n \in Nat, KeptBelow(list, kept, n)
  PROVE  \E more : KeptBelow(list, more, n + 1)
<1>. DEFINE rank(i) == Rank(list, DOMAIN list, i)
            more == kept \cup {i \in DOMAIN list : rank(i) = n /\ Keeps(list, KeptAhead(list, kept, i), i)}
<1>1. kept \in SUBSET DOMAIN list /\ more \in SUBSET DOMAIN list
  BY DEF KeptBelow
<1>2. \A i \in DOMAIN list : rank(i) \in Nat
  BY RankOrders
<1>3. \A i \in more : rank(i) < n + 1
  BY <1>1, <1>2 DEF KeptBelow
<1>4. ASSUME NEW i \in DOMAIN list, rank(i) < n + 1
      PROVE  KeptAhead(list, more, i) = KeptAhead(list, kept, i)
  <2>1. ASSUME NEW j \in more, Ahead(list, j, i)
        PROVE  j \in kept
    <3>1. j \in DOMAIN list /\ rank(j) < rank(i)
      BY <1>1, <2>1, RankOrders
    <3>2. rank(j) # n
      BY <1>2, <1>4, <3>1
    <3>. QED  BY <3>2
  <2>. QED  BY <2>1 DEF KeptAhead
<1>5. ASSUME NEW i \in DOMAIN list, rank(i) < n + 1
      PROVE  i \in more <=> Keeps(list, KeptAhead(list, more, i), i)
  <2>1. KeptAhead(list, more, i) = KeptAhead(list, kept, i)
    BY <1>4, <1>5
  <2>2. CASE rank(i) < n
    <3>1. rank(i) # n
      BY <1>2, <2>2
    <3>2. i \in kept <=> Keeps(list, KeptAhead(list, kept, i), i)
      BY <2>2 DEF KeptBelow
    <3>. QED  BY <2>1, <3>1, <3>2
  <2>3. CASE ~(rank(i) < n)
    <3>1. rank(i) = n
      BY <1>2, <1>5, <2>3
    <3>2. i \notin kept
      BY <2>3 DEF KeptBelow
    <3>. QED  BY <2>1, <3>1, <3>2
  <2>. QED  BY <2>2, <2>3
<1>6. KeptBelow(list, more, n + 1)
  BY <1>1, <1>3, <1>5 DEF KeptBelow
<1>. QED  BY <1>6

\* There are results to keep: the answer is determined rank by rank.
LEMMA DistinctExists ==
  ASSUME NEW list \in Found
  PROVE  /\ Distinct(list) \in SUBSET DOMAIN list
         /\ \A i \in Distinct(list) : Keeps(list, KeptAhead(list, Distinct(list), i), i)
<1>. DEFINE w == Cardinality(DOMAIN list) + 1
            S == {n \in 0 .. w : \E kept : KeptBelow(list, kept, n)}
<1>1. IsFiniteSet(DOMAIN list) /\ w \in Nat
  <2>1. IsFiniteSet(DOMAIN list)
    <3>1. DOMAIN list = 1 .. Len(list) /\ Len(list) \in Nat
      BY DEF Found
    <3>. QED  BY <3>1, FS_Interval
  <2>. QED  BY <2>1, FS_CardinalityType
<1>2. \A i \in DOMAIN list : Rank(list, DOMAIN list, i) \in Nat /\ Rank(list, DOMAIN list, i) < w
  <2>1. Cardinality(DOMAIN list) \in Nat
    BY <1>1, FS_CardinalityType
  <2>. QED  BY <2>1, RankOrders
<1>3. 0 \in S
  <2>1. KeptBelow(list, {}, 0)
    BY <1>2 DEF KeptBelow
  <2>. QED  BY <1>1, <2>1
<1>4. PICK n \in S : \A m \in S : m <= n
  <2>1. S \in SUBSET (0 .. w) /\ S # {}
    BY <1>3
  <2>. HIDE DEF S, w
  <2>. QED  BY <1>1, <2>1, BoundedHasLargest
<1>5. n = w
  <2>. SUFFICES ASSUME n # w PROVE FALSE
    OBVIOUS
  <2>1. n \in Nat /\ n + 1 \in 0 .. w /\ ~(n + 1 <= n)
    BY <1>1
  <2>2. \E more : KeptBelow(list, more, n + 1)
    BY <2>1, KeptOneMore
  <2>. QED  BY <1>4, <2>1, <2>2
<1>6. PICK kept : KeptBelow(list, kept, w)
  BY <1>5
<1>7. kept \in SUBSET DOMAIN list
      /\ \A i \in DOMAIN list : i \in kept <=> Keeps(list, KeptAhead(list, kept, i), i)
  BY <1>2, <1>6 DEF KeptBelow
<1>8. /\ Distinct(list) \in SUBSET DOMAIN list
      /\ \A i \in DOMAIN list : i \in Distinct(list) <=> Keeps(list, KeptAhead(list, Distinct(list), i), i)
  BY <1>7, Zenon DEF Distinct
<1>. QED  BY <1>8

\* Among the results that are kept no opening occurs twice and no source three
\* times.
LEMMA DistinctShares ==
  ASSUME NEW list \in Found, NEW i \in Distinct(list), NEW j \in Distinct(list), NEW k \in Distinct(list),
         Ahead(list, i, j)
  PROVE  /\ list[i].print # list[j].print
         /\ Ahead(list, j, k) => ~(list[i].source = list[j].source /\ list[j].source = list[k].source)
<1>. DEFINE K(p) == KeptAhead(list, Distinct(list), p)
<1>1. Distinct(list) \in SUBSET DOMAIN list /\ Keeps(list, K(j), j) /\ Keeps(list, K(k), k)
  BY DistinctExists
<1>2. i \in K(j)
  BY DEF KeptAhead
<1>3. list[i].print # list[j].print
  BY <1>1, <1>2 DEF Keeps
<1>4. ASSUME Ahead(list, j, k), list[i].source = list[j].source, list[j].source = list[k].source
      PROVE  FALSE
  <2>. DEFINE T == {x \in K(k) : list[x].source = list[k].source}
  <2>1. i \in DOMAIN list /\ j \in DOMAIN list /\ k \in DOMAIN list
    BY <1>1
  <2>2. Ahead(list, i, k) /\ i # j
    BY <1>4, <2>1, AheadOrders
  <2>3. {i, j} \in SUBSET T
    BY <1>4, <2>2 DEF KeptAhead
  <2>4. IsFiniteSet(T)
    <3>1. T \in SUBSET DOMAIN list
      BY <1>1 DEF KeptAhead
    <3>. QED  BY <3>1, <2>1, AheadOrders, FS_Subset
  <2>5. Cardinality({i, j}) = 2
    <3>1. IsFiniteSet({i}) /\ Cardinality({i}) = 1
      BY FS_Singleton
    <3>2. {i, j} = {i} \cup {j} /\ j \notin {i}
      BY <2>2
    <3>. QED  BY <3>1, <3>2, FS_AddElement
  <2>6. Cardinality({i, j}) <= Cardinality(T) /\ Cardinality(T) \in Nat
    BY <2>3, <2>4, FS_Subset, FS_CardinalityType
  <2>7. Cardinality(T) < 2
    BY <1>1 DEF Keeps
  <2>. HIDE DEF T
  <2>. QED  BY <2>5, <2>6, <2>7
<1>. QED  BY <1>3, <1>4

LEMMA BeyondType ==
  ASSUME ContextTypeOK
  PROVE  Beyond \in Nat
<1>1. results \in Seq([chunk : Nat, source : Nat, print : Nat, score : Nat, age : Nat, label : Size, body : Bodies])
  BY ContextAssumption DEF ContextTypeOK, Bodies
<1>2. IsFiniteSet(1 .. Len(results)) /\ Distinct(results) \in SUBSET (1 .. Len(results))
  <2>1. Len(results) \in Nat /\ DOMAIN results = 1 .. Len(results)
    BY <1>1
  <2>2. Distinct(results) \in SUBSET DOMAIN results
    BY FoundType, DistinctExists
  <2>. QED  BY <2>1, <2>2, FS_Interval
<1>3. IsFiniteSet(Distinct(results)) /\ Shown \in SUBSET Distinct(results)
  BY <1>2, FS_Subset DEF Shown
<1>4. /\ Cardinality(Shown) \in Nat /\ Cardinality(Distinct(results)) \in Nat
      /\ Cardinality(Shown) <= Cardinality(Distinct(results))
  BY <1>3, FS_Subset, FS_CardinalityType
<1>. QED  BY <1>4 DEF Beyond

LEMMA OpenResultsKeeps == ContextInv /\ OpenResults => ContextInv'
<1>. SUFFICES ASSUME ContextInv, OpenResults PROVE ContextInv'
  OBVIOUS
<1>. USE DEF ContextInv
<1>1. Covered
  BY DEF Paid, OpenResults
<1>2. CASE /\ Spend(ResultHeader) /\ stage' = "result"
           /\ size' = Plus(size, ResultHeader)
           /\ lines' = IF lines > 0 THEN lines + 2 ELSE lines + 1
  <2>1. /\ budget' \in Nat /\ budget' <= budget
        /\ ResultHeader.plain + 2 * ResultHeader.wide <= 4 * (budget - budget') + 5
    BY <1>2, ConstantSizes, SpendEffect
  <2>2. /\ size' \in Size /\ size'.plain = size.plain + ResultHeader.plain
        /\ size'.wide = size.wide + ResultHeader.wide
    BY <1>2, ConstantSizes DEF Plus, Size, ContextTypeOK
  <2>3. lines' \in Nat /\ lines' > 0 /\ lines' >= lines + 1
    BY <1>2 DEF ContextTypeOK
  <2>4. Covered' /\ budget' <= MaxTokens
    <3>1. budget \in Nat /\ lines \in Nat /\ size.plain \in Nat /\ size.wide \in Nat
          /\ ResultHeader.plain \in Nat /\ ResultHeader.wide \in Nat
      BY ConstantSizes DEF ContextTypeOK, Size
    <3>2. budget <= MaxTokens /\ MaxTokens \in Nat
      BY ContextAssumption DEF Paid
    <3>. QED  BY <1>1, <2>1, <2>2, <2>3, <3>1, <3>2 DEF Covered
  <2>. QED  BY <1>2, <2>1, <2>2, <2>3, <2>4 DEF OpenResults, ContextTypeOK, Paid
<1>3. CASE UNCHANGED <<budget, size, lines>> /\ stage' = "built" /\ dropped' = dropped + Beyond
  BY <1>1, <1>3, BeyondType DEF OpenResults, ContextTypeOK, Paid, Covered
<1>. QED  BY <1>2, <1>3 DEF OpenResults

LEMMA AddResultKeeps == ContextInv /\ AddResult => ContextInv'
<1>. SUFFICES ASSUME ContextInv, AddResult PROVE ContextInv'
  OBVIOUS
<1>. USE DEF ContextInv
<1>1. Covered /\ stage = "result" /\ stage' = "result"
  BY DEF Paid, AddResult
<1>2. PICK i \in DOMAIN results :
        \/ /\ Renders(results[i], budget)
           /\ Spend(Entry(results[i], budget)) /\ Add(Entry(results[i], budget))
           /\ usedResults' = Append(usedResults, i) /\ UNCHANGED dropped
        \/ dropped' = dropped + 1 /\ UNCHANGED <<budget, size, lines, usedResults>>
  BY DEF AddResult
<1>3. CASE /\ Renders(results[i], budget)
           /\ Spend(Entry(results[i], budget)) /\ Add(Entry(results[i], budget))
           /\ usedResults' = Append(usedResults, i) /\ UNCHANGED dropped
  <2>1. Entry(results[i], budget) \in Size
    BY <1>3, EntryType
  <2>2. i \in Nat
    BY ResultType
  <2>3. Append(usedResults, i) \in Seq(Nat)
    BY <2>2 DEF ContextTypeOK
  <2>. QED  BY <1>1, <1>3, <2>1, <2>3, LineKeepsCovered, SpendEffect, AddEffect DEF AddResult, ContextTypeOK, Paid
<1>4. CASE dropped' = dropped + 1 /\ UNCHANGED <<budget, size, lines, usedResults>>
  BY <1>1, <1>4 DEF AddResult, ContextTypeOK, Paid, Covered
<1>. QED  BY <1>2, <1>3, <1>4

LEMMA OthersKeep == ContextInv /\ (FactsDone \/ ResultsDone \/ UNCHANGED contextVars) => ContextInv'
<1>1. ContextInv /\ FactsDone => ContextInv'
  BY DEF ContextInv, FactsDone, ContextTypeOK, Paid, Covered
<1>2. ContextInv /\ ResultsDone => ContextInv'
  BY BeyondType DEF ContextInv, ResultsDone, ContextTypeOK, Paid, Covered
<1>3. ContextInv /\ UNCHANGED contextVars => ContextInv'
  BY DEF ContextInv, contextVars, ContextTypeOK, Paid, Covered
<1>. QED  BY <1>1, <1>2, <1>3

\* ContextInv is inductive.
LEMMA ContextStep == ContextInv /\ [ContextNext]_contextVars => ContextInv'
BY OpenKeeps, OpenFactsKeeps, AddFactKeeps, OpenResultsKeeps, AddResultKeeps, OthersKeep DEF ContextNext

LEMMA InvImplies == ContextInv => SmallOverrun
<1>. SUFFICES ASSUME ContextInv, HasBlock
              PROVE  EstimateTokens(Block) <= MaxTokens + lines + (lines + 1) \div 2
  BY DEF SmallOverrun
<1>1. Covered /\ lines > 0
  BY DEF ContextInv, Paid, HasBlock
<1>2. lines \in Nat /\ size.plain \in Nat /\ size.wide \in Nat /\ budget \in Nat /\ MaxTokens \in Nat
  BY ContextAssumption DEF ContextInv, ContextTypeOK, Size
<1>3. Block.plain = 18 + size.plain + lines /\ Block.wide = size.wide
  BY <1>2 DEF Block, Plus, Plain, Tags
<1>4. EstimateTokens(Block) = Block.plain \div 4 + Block.wide \div 2
  BY <1>2, <1>3 DEF EstimateTokens, Count
<1>. QED  BY <1>1, <1>2, <1>3, <1>4 DEF Covered

\* What is shown was given a place, in the order of the ranking.
InOrder ==
  /\ stage \notin {"result", "built"} => usedResults = <<>>
  /\ \A k \in DOMAIN usedResults : usedResults[k] \in Shown /\ Rank(results, Shown, usedResults[k]) < at
  /\ \A j, k \in DOMAIN usedResults : j < k => Ahead(results, usedResults[j], usedResults[k])

LEMMA ShownType ==
  ASSUME ContextTypeOK
  PROVE  Shown \in SUBSET Distinct(results) /\ Shown \in SUBSET DOMAIN results
BY FoundType, DistinctExists DEF Shown

LEMMA AddResultInOrder == ContextInv /\ InOrder /\ AddResult => InOrder'
<1>. SUFFICES ASSUME ContextInv, InOrder, AddResult PROVE InOrder'
  OBVIOUS
<1>1. ContextTypeOK /\ results \in Found /\ at \in Nat /\ usedResults \in Seq(Nat)
  BY FoundType DEF ContextInv, ContextTypeOK
<1>2. stage = "result" /\ stage' = "result" /\ results' = results /\ at' = at + 1
  BY DEF AddResult
<1>3. Shown' = Shown
  BY <1>2 DEF Shown
<1>4. ASSUME NEW p \in Shown
      PROVE  Rank(results, Shown, p) \in Nat
  BY <1>1, ShownType, RankOrders
<1>5. PICK i \in DOMAIN results :
        IsNext(i) /\ (usedResults' = Append(usedResults, i) \/ usedResults' = usedResults)
  BY DEF AddResult
<1>6. i \in Shown /\ Rank(results, Shown, i) = at
  BY <1>5 DEF IsNext
<1>7. CASE usedResults' = usedResults
  <2>1. \A k \in DOMAIN usedResults : usedResults[k] \in Shown /\ Rank(results, Shown, usedResults[k]) < at + 1
    BY <1>1, <1>4 DEF InOrder
  <2>. QED  BY <1>2, <1>3, <1>7, <2>1 DEF InOrder
<1>8. CASE usedResults' = Append(usedResults, i)
  <2>. DEFINE n == Len(usedResults)
  <2>1. /\ n \in Nat /\ DOMAIN usedResults = 1 .. n /\ DOMAIN usedResults' = 1 .. n + 1
        /\ \A k \in 1 .. n : usedResults'[k] = usedResults[k]
        /\ usedResults'[n + 1] = i
    <3>1. i \in Nat
      BY <1>1, ResultType
    <3>. QED  BY <1>1, <1>8, <3>1
  <2>2. \A k \in 1 .. n : usedResults[k] \in Shown /\ Rank(results, Shown, usedResults[k]) < at
    BY <2>1 DEF InOrder
  <2>3. \A k \in 1 .. n : Ahead(results, usedResults[k], i)
    BY <1>1, <1>6, <2>2, ShownType, RankOrders
  <2>4. \A k \in 1 .. n + 1 : k \in 1 .. n \/ k = n + 1
    BY <2>1
  <2>5. \A k \in 1 .. n + 1 : usedResults'[k] \in Shown /\ Rank(results, Shown, usedResults'[k]) < at + 1
    BY <1>1, <1>4, <1>6, <2>1, <2>2, <2>4
  <2>6. \A j, k \in 1 .. n + 1 : j < k => Ahead(results, usedResults'[j], usedResults'[k])
    <3>. TAKE j, k \in 1 .. n + 1
    <3>. HAVE j < k
    <3>1. j \in 1 .. n
      BY <2>1
    <3>2. CASE k \in 1 .. n
      BY <2>1, <3>1, <3>2 DEF InOrder
    <3>3. CASE k = n + 1
      BY <2>1, <2>3, <3>1, <3>3
    <3>. QED  BY <2>4, <3>2, <3>3
  <2>. QED  BY <1>2, <1>3, <2>1, <2>5, <2>6 DEF InOrder
<1>. QED  BY <1>5, <1>7, <1>8

LEMMA InOrderStep == ContextInv /\ InOrder /\ [ContextNext]_contextVars => InOrder'
<1>. SUFFICES ASSUME ContextInv, InOrder, [ContextNext]_contextVars PROVE InOrder'
  OBVIOUS
<1>1. CASE AddResult
  BY <1>1, AddResultInOrder
<1>2. CASE Open \/ OpenFacts \/ AddFact \/ FactsDone \/ OpenResults
  <2>1. usedResults = <<>> /\ usedResults' = <<>>
    BY <1>2 DEF InOrder, Open, OpenFacts, AddFact, FactsDone, OpenResults
  <2>. QED  BY <2>1 DEF InOrder
<1>3. CASE ResultsDone \/ UNCHANGED contextVars
  <2>1. UNCHANGED <<results, at, usedResults>> /\ (stage' = stage \/ stage' = "built")
    BY <1>3 DEF ResultsDone, contextVars
  <2>2. Shown' = Shown
    BY <2>1 DEF Shown
  <2>. QED  BY <1>3, <2>1, <2>2 DEF InOrder, ResultsDone, contextVars
<1>. QED  BY <1>1, <1>2, <1>3 DEF ContextNext

LEMMA InOrderShares == ContextInv /\ InOrder => FairShare
<1>. SUFFICES ASSUME ContextInv, InOrder PROVE FairShare
  OBVIOUS
<1>1. ContextTypeOK /\ results \in Found
  BY FoundType DEF ContextInv
<1>2. \A k \in DOMAIN usedResults : usedResults[k] \in Distinct(results) /\ usedResults[k] \in DOMAIN results
  BY <1>1, ShownType DEF InOrder
<1>3. ASSUME NEW i \in DOMAIN usedResults, NEW j \in DOMAIN usedResults, NEW k \in DOMAIN usedResults, i < j, j < k
      PROVE  ~(results[usedResults[i]].source = results[usedResults[j]].source
               /\ results[usedResults[j]].source = results[usedResults[k]].source)
  <2>1. Ahead(results, usedResults[i], usedResults[j]) /\ Ahead(results, usedResults[j], usedResults[k])
    BY <1>3 DEF InOrder
  <2>. QED  BY <1>1, <1>2, <2>1, DistinctShares
<1>4. ASSUME NEW i \in DOMAIN usedResults, NEW j \in DOMAIN usedResults, i < j
      PROVE  /\ results[usedResults[i]].print # results[usedResults[j]].print
             /\ Tilted(results[usedResults[i]]) >= Tilted(results[usedResults[j]])
  <2>1. Ahead(results, usedResults[i], usedResults[j])
    BY <1>4 DEF InOrder
  <2>. QED  BY <1>1, <1>2, <2>1, DistinctShares, AheadOrders
<1>. QED  BY <1>3, <1>4 DEF FairShare

\* The state of BuildContext keeps its type: no budget below zero, whatever is
\* found and however long (context.go:103-193).
THEOREM ContextTypeCorrect == ContextSpec => []ContextTypeOK
<1>1. ContextInv => ContextTypeOK
  BY DEF ContextInv
<1>. QED  BY InitPaid, ContextStep, <1>1, PTL DEF ContextSpec

\* The block that reaches the prompt is over its budget by three tokens for
\* every two lines at most (context.go:103-193, ContextOptions.MaxTokens).
THEOREM ContextBudget == ContextSpec => []SmallOverrun
BY InitPaid, ContextStep, InvImplies, PTL DEF ContextSpec

LEMMA InvTrims == ContextInv => TrimFits
<1>. SUFFICES ASSUME ContextInv, NEW i \in DOMAIN results, Renders(results[i], budget)
              PROVE  Count(Trim(results[i].body, budget - Reserved)) <= budget - Reserved
  BY DEF TrimFits
<1>1. budget - Reserved \in Nat \ {0}
  BY DEF Renders, Reserved, ContextInv, ContextTypeOK
<1>2. results[i].body \in Bodies
  BY ResultType DEF ContextInv
<1>. QED  BY <1>1, <1>2, TrimEffect

\* The block keeps to its budget but for rounding, a chunk that is cut to fit
\* does fit, no opening is shown twice, no source more than twice, and the
\* results are in the order of their rank, whatever the search found
\* (context.go:103-193, 216-311 and 367-401).
THEOREM ContextKept == ContextSpec => []ContextHolds
<1>1. ContextInit => ContextInv /\ InOrder
  <2>1. ContextInit => InOrder
    BY DEF ContextInit, InOrder
  <2>. QED  BY <2>1, InitPaid
<1>2. ContextInv /\ InOrder /\ [ContextNext]_contextVars => (ContextInv /\ InOrder)'
  BY ContextStep, InOrderStep
<1>3. ContextInv /\ InOrder => ContextHolds
  BY InvImplies, InvTrims, InOrderShares DEF ContextHolds
<1>. QED  BY <1>1, <1>2, <1>3, PTL DEF ContextSpec

-------------------------------------------------------------------------------
(* The history of a question (ChatPrompt): what is chosen of the log is         *)
(* defined by going through it once, so that first a run over the numbers is    *)
(* shown to exist and to keep what each step keeps.                             *)

\* Where a set of numbers up to n begins at 0 and lacks none, it lacks none.
LEMMA Reaches ==
  ASSUME NEW n \in Nat, NEW S \in SUBSET (0 .. n), 0 \in S, \A k \in 1 .. n : k - 1 \in S => k \in S
  PROVE  S = 0 .. n
<1>. DEFINE T == (0 .. n) \ S
<1>1. SUFFICES ASSUME T # {} PROVE FALSE
  OBVIOUS
<1>2. T \in SUBSET Nat
  OBVIOUS
<1>3. PICK m \in T : \A x \in T : ~(<<x, m>> \in OpToRel(<, Nat))
  BY <1>1, <1>2, WFMin, NatLessThanWellFounded, Zenon
<1>4. \A x \in T : ~(x < m)
  BY <1>2, <1>3, Zenon DEF OpToRel
<1>5. m \in 1 .. n
  OBVIOUS
<1>6. m - 1 \in 0 .. n /\ ~(m - 1 \in T)
  BY <1>4, <1>5
<1>. QED  BY <1>5, <1>6

RunsFrom(n, A, a, step) == \E f \in [0 .. n -> A] : f[0] = a /\ \A k \in 1 .. n : f[k] = step[k][f[k - 1]]

\* What is defined by going from one number to the next exists.
LEMMA RunExists ==
  ASSUME NEW n \in Nat, NEW A, NEW a \in A, NEW step \in [1 .. n -> [A -> A]]
  PROVE  RunsFrom(n, A, a, step)
<1>. DEFINE Follows(f, m) == f[0] = a /\ \A k \in 1 .. m : f[k] = step[k][f[k - 1]]
            S == {m \in 0 .. n : \E f \in [0 .. n -> A] : Follows(f, m)}
<1>1. 0 \in S
  <2>. DEFINE f == [k \in 0 .. n |-> a]
  <2>1. f \in [0 .. n -> A] /\ Follows(f, 0)
    OBVIOUS
  <2>. HIDE DEF f
  <2>. QED  BY <2>1
<1>2. ASSUME NEW k \in 1 .. n, k - 1 \in S
      PROVE  k \in S
  <2>1. PICK f \in [0 .. n -> A] : Follows(f, k - 1)
    BY <1>2
  <2>. DEFINE g == [f EXCEPT ![k] = step[k][f[k - 1]]]
  <2>2. k - 1 \in 0 .. n /\ k \in 0 .. n /\ k # k - 1 /\ k # 0
    OBVIOUS
  <2>3. f[k - 1] \in A
    BY <2>2
  <2>4. step[k][f[k - 1]] \in A
    BY <2>3
  <2>5. g \in [0 .. n -> A]
    BY <2>4
  <2>6. \A j \in 0 .. n : j # k => g[j] = f[j]
    OBVIOUS
  <2>7. g[k] = step[k][f[k - 1]]
    BY <2>2
  <2>8. ASSUME NEW j \in 1 .. k
        PROVE  g[j] = step[j][g[j - 1]]
    <3>1. j - 1 \in 0 .. n /\ j - 1 # k /\ j \in 0 .. n
      OBVIOUS
    <3>2. g[j - 1] = f[j - 1]
      BY <3>1, <2>6
    <3>3. CASE j = k
      BY <3>2, <3>3, <2>7
    <3>4. CASE j # k
      <4>1. j \in 1 .. k - 1
        BY <3>4
      <4>. QED  BY <4>1, <3>1, <3>2, <3>4, <2>1, <2>6
    <3>. QED  BY <3>3, <3>4
  <2>9. g[0] = a
    BY <2>1, <2>2, <2>6
  <2>. HIDE DEF g
  <2>. QED  BY <2>2, <2>5, <2>8, <2>9
<1>3. n \in S
  <2>. HIDE DEF S
  <2>1. S \in SUBSET (0 .. n)
    BY DEF S
  <2>. QED  BY <1>1, <1>2, <2>1, Reaches
<1>. QED  BY <1>3 DEF RunsFrom

ChosenSofar == [chosen : Seq(Messages), chars : Nat]

LEMMA PassRuns ==
  ASSUME NEW text, NEW messages \in Seq(Messages)
  PROVE  LET pass == Pass(text, messages)
         IN  /\ pass \in [0 .. Len(messages) -> ChosenSofar]
             /\ pass[0] = NothingChosen
             /\ \A k \in 1 .. Len(messages) : pass[k] = Consider(text, pass[k - 1], messages[Len(messages) + 1 - k])
<1>. DEFINE n == Len(messages)
            step == [k \in 1 .. n |-> [sofar \in ChosenSofar |-> Consider(text, sofar, messages[n + 1 - k])]]
<1>1. n \in Nat
  OBVIOUS
<1>2. NothingChosen \in ChosenSofar
  BY DEF NothingChosen, ChosenSofar
<1>3. ASSUME NEW k \in 1 .. n, NEW sofar \in ChosenSofar
      PROVE  Consider(text, sofar, messages[n + 1 - k]) \in ChosenSofar
  <2>1. n + 1 - k \in 1 .. n
    BY <1>1
  <2>2. messages[n + 1 - k] \in Messages
    BY <2>1
  <2>. DEFINE entry == messages[n + 1 - k]
  <2>3. entry.chars \in Nat /\ <<entry>> \o sofar.chosen \in Seq(Messages)
    BY <2>2 DEF Messages, ChosenSofar
  <2>4. sofar.chars + entry.chars \in Nat
    BY <2>3 DEF ChosenSofar
  <2>5. [chosen |-> <<entry>> \o sofar.chosen, chars |-> sofar.chars + entry.chars] \in ChosenSofar
    BY <2>3, <2>4 DEF ChosenSofar
  <2>6. Consider(text, sofar, entry) \in ChosenSofar
    BY <2>5, Zenon DEF Consider
  <2>. QED  BY <2>6
<1>4. step \in [1 .. n -> [ChosenSofar -> ChosenSofar]]
  BY <1>3
<1>5. PICK f \in [0 .. n -> ChosenSofar] :
        f[0] = NothingChosen /\ \A k \in 1 .. n : f[k] = step[k][f[k - 1]]
  <2>. HIDE DEF n, step
  <2>1. RunsFrom(n, ChosenSofar, NothingChosen, step)
    BY <1>1, <1>2, <1>4, RunExists
  <2>. QED  BY <2>1, Zenon DEF RunsFrom
<1>6. f = [k \in 0 .. n |-> IF k = 0 THEN NothingChosen ELSE Consider(text, f[k - 1], messages[n + 1 - k])]
  <2>1. ASSUME NEW k \in 0 .. n
        PROVE  f[k] = IF k = 0 THEN NothingChosen ELSE Consider(text, f[k - 1], messages[n + 1 - k])
    <3>1. CASE k = 0
      BY <1>5, <3>1
    <3>2. CASE k # 0
      <4>1. k \in 1 .. n /\ f[k - 1] \in ChosenSofar
        BY <3>2
      <4>2. step[k][f[k - 1]] = Consider(text, f[k - 1], messages[n + 1 - k])
        BY <4>1
      <4>. QED  BY <1>5, <3>2, <4>2
    <3>. QED  BY <3>1, <3>2
  <2>. QED  BY <2>1
<1>7. Pass(text, messages) = [k \in 0 .. n |-> IF k = 0 THEN NothingChosen
                                 ELSE Consider(text, Pass(text, messages)[k - 1], messages[n + 1 - k])]
  BY <1>6, Zenon DEF Pass
<1>. QED  OBVIOUS

LEMMA TotalsRun ==
  ASSUME NEW history \in Seq(Messages)
  PROVE  LET total == Totals(history)
         IN  /\ total \in [0 .. Len(history) -> Nat]
             /\ total[0] = 0
             /\ \A k \in 1 .. Len(history) : total[k] = total[k - 1] + history[Len(history) + 1 - k].chars
<1>. DEFINE n == Len(history)
            step == [k \in 1 .. n |-> [sum \in Nat |-> sum + history[n + 1 - k].chars]]
<1>1. n \in Nat
  OBVIOUS
<1>2. ASSUME NEW k \in 1 .. n
      PROVE  history[n + 1 - k].chars \in Nat
  <2>1. n + 1 - k \in 1 .. n
    BY <1>1
  <2>2. history[n + 1 - k] \in Messages
    BY <2>1
  <2>. QED  BY <2>2 DEF Messages
<1>3. step \in [1 .. n -> [Nat -> Nat]]
  BY <1>2
<1>4. PICK f \in [0 .. n -> Nat] : f[0] = 0 /\ \A k \in 1 .. n : f[k] = step[k][f[k - 1]]
  <2>. HIDE DEF n, step
  <2>1. RunsFrom(n, Nat, 0, step)
    BY <1>1, <1>3, RunExists
  <2>. QED  BY <2>1, Zenon DEF RunsFrom
<1>5. f = [k \in 0 .. n |-> IF k = 0 THEN 0 ELSE f[k - 1] + history[n + 1 - k].chars]
  <2>1. ASSUME NEW k \in 0 .. n
        PROVE  f[k] = IF k = 0 THEN 0 ELSE f[k - 1] + history[n + 1 - k].chars
    <3>1. CASE k = 0
      BY <1>4, <3>1
    <3>2. CASE k # 0
      <4>1. k \in 1 .. n /\ f[k - 1] \in Nat
        BY <3>2
      <4>. QED  BY <1>4, <3>2, <4>1
    <3>. QED  BY <3>1, <3>2
  <2>. QED  BY <2>1
<1>6. Totals(history) = [k \in 0 .. n |-> IF k = 0 THEN 0 ELSE Totals(history)[k - 1] + history[n + 1 - k].chars]
  BY <1>5, Zenon DEF Totals
<1>7. ASSUME NEW k \in 0 .. n
      PROVE  Totals(history)[k] \in Nat
  <2>. DEFINE total == Totals(history)
              S == {j \in 0 .. n : total[j] \in Nat}
  <2>1. \A j \in 0 .. n : total[j] = IF j = 0 THEN 0 ELSE total[j - 1] + history[n + 1 - j].chars
    BY <1>6
  <2>2. 0 \in S
    BY <2>1
  <2>3. ASSUME NEW j \in 1 .. n, j - 1 \in S PROVE j \in S
    <3>1. total[j] = total[j - 1] + history[n + 1 - j].chars /\ total[j - 1] \in Nat
      BY <2>1, <2>3
    <3>. QED  BY <1>2, <3>1
  <2>4. S = 0 .. n
    <3>1. S \in SUBSET (0 .. n)
      OBVIOUS
    <3>. HIDE DEF S
    <3>. QED  BY <1>1, <2>2, <2>3, <3>1, Reaches
  <2>. QED  BY <2>4
<1>8. Totals(history) \in [0 .. n -> Nat]
  <2>1. DOMAIN Totals(history) = 0 .. n /\ Totals(history) = [k \in 0 .. n |-> Totals(history)[k]]
    BY <1>6
  <2>. QED  BY <1>7, <2>1
<1>9. \A k \in 0 .. n : Totals(history)[k] =
        IF k = 0 THEN 0 ELSE Totals(history)[k - 1] + history[n + 1 - k].chars
  BY <1>6
<1>. QED  BY <1>1, <1>8, <1>9

\* What is put before a history adds its own length to it.
LEMMA CharsOf ==
  /\ Chars(<<>>) = 0
  /\ \A history \in Seq(Messages) : Chars(history) \in Nat
  /\ \A history \in Seq(Messages), entry \in Messages :
       Chars(<<entry>> \o history) = Chars(history) + entry.chars
<1>1. Chars(<<>>) = 0
  <2>1. <<>> \in Seq(Messages) /\ Len(<<>>) = 0
    OBVIOUS
  <2>. QED  BY <2>1, TotalsRun DEF Chars
<1>2. ASSUME NEW history \in Seq(Messages) PROVE Chars(history) \in Nat
  <2>1. Len(history) \in 0 .. Len(history)
    OBVIOUS
  <2>. QED  BY <2>1, TotalsRun DEF Chars
<1>3. ASSUME NEW history \in Seq(Messages), NEW entry \in Messages
      PROVE  Chars(<<entry>> \o history) = Chars(history) + entry.chars
  <2>. DEFINE n == Len(history)
              longer == <<entry>> \o history
              S == {k \in 0 .. n : Totals(longer)[k] = Totals(history)[k]}
  <2>1. n \in Nat /\ longer \in Seq(Messages) /\ Len(longer) = n + 1 /\ longer[1] = entry
    OBVIOUS
  <2>2. \A i \in 1 .. n : longer[i + 1] = history[i]
    BY <2>1
  <2>3. \A k \in 1 .. n : longer[n + 2 - k] = history[n + 1 - k]
    <3>1. ASSUME NEW k \in 1 .. n PROVE n + 1 - k \in 1 .. n /\ n + 2 - k = (n + 1 - k) + 1
      BY <2>1
    <3>. HIDE DEF longer
    <3>. QED  BY <2>2, <3>1
  <2>. HIDE DEF longer
  <2>4. 0 \in S
    BY <2>1, TotalsRun
  <2>5. ASSUME NEW k \in 1 .. n, k - 1 \in S PROVE k \in S
    <3>1. Totals(longer)[k] = Totals(longer)[k - 1] + longer[n + 2 - k].chars
      <4>1. k \in 1 .. Len(longer) /\ Len(longer) + 1 - k = n + 2 - k
        BY <2>1
      <4>. QED  BY <2>1, <4>1, TotalsRun
    <3>2. Totals(history)[k] = Totals(history)[k - 1] + history[n + 1 - k].chars
      BY TotalsRun
    <3>. QED  BY <2>3, <2>5, <3>1, <3>2
  <2>6. S = 0 .. n
    <3>1. S \in SUBSET (0 .. n)
      OBVIOUS
    <3>. HIDE DEF S
    <3>. QED  BY <2>1, <2>4, <2>5, <3>1, Reaches
  <2>7. Totals(longer)[n] = Totals(history)[n]
    BY <2>1, <2>6
  <2>8. Totals(longer)[n + 1] = Totals(longer)[n] + longer[1].chars
    <3>1. n + 1 \in 1 .. Len(longer) /\ (n + 1) - 1 = n /\ Len(longer) + 1 - (n + 1) = 1
      BY <2>1
    <3>. QED  BY <2>1, <3>1, TotalsRun
  <2>9. Chars(longer) = Totals(longer)[n + 1] /\ Chars(history) = Totals(history)[n]
    BY <2>1 DEF Chars
  <2>10. Chars(longer) = Chars(history) + entry.chars
    BY <2>1, <2>7, <2>8, <2>9
  <2>. QED  BY <2>10 DEF longer
<1>. QED  BY <1>1, <1>2, <1>3

\* Of the last k messages: what is chosen is within the limits, what may be taken,
\* in the order of the log, and while there is room the rest does not fit.
WithinLimits(sofar) ==
  /\ Len(sofar.chosen) <= HistoryLimit /\ sofar.chars <= HistoryChars
  /\ sofar.chars = Chars(sofar.chosen)
TakesOnly(text, chosen) == \A i \in DOMAIN chosen : Takes(text, chosen[i])
InLogOrder(messages, chosen, k) ==
  /\ chosen # <<>> => \E b \in Len(messages) + 1 - k .. Len(messages) : messages[b] = chosen[1]
  /\ \A i \in 1 .. Len(chosen) - 1 : \E a, b \in 1 .. Len(messages) :
       a < b /\ messages[a] = chosen[i] /\ messages[b] = chosen[i + 1]
NoRoomFor(text, messages, sofar, k) ==
  Len(sofar.chosen) < HistoryLimit =>
    \A b \in Len(messages) + 1 - k .. Len(messages) : Takes(text, messages[b]) =>
      \/ \E i \in DOMAIN sofar.chosen : sofar.chosen[i] = messages[b]
      \/ sofar.chars + messages[b].chars > HistoryChars
WellChosen(text, messages, sofar, k) ==
  /\ WithinLimits(sofar) /\ TakesOnly(text, sofar.chosen)
  /\ InLogOrder(messages, sofar.chosen, k) /\ NoRoomFor(text, messages, sofar, k)

LEMMA ConsiderKeeps ==
  ASSUME NEW text, NEW messages \in Seq(Messages), NEW k \in 1 .. Len(messages),
         NEW sofar \in ChosenSofar, WellChosen(text, messages, sofar, k - 1)
  PROVE  WellChosen(text, messages, Consider(text, sofar, messages[Len(messages) + 1 - k]), k)
<1>. DEFINE n == Len(messages)
            m == n + 1 - k
            entry == messages[m]
            chosen == sofar.chosen
            longer == <<entry>> \o chosen
            taken == [chosen |-> longer, chars |-> sofar.chars + entry.chars]
<1>1. n \in Nat /\ m \in 1 .. n /\ m \in n + 1 - k .. n
  OBVIOUS
<1>2. entry \in Messages /\ entry.chars \in Nat
  <2>1. entry \in Messages
    BY <1>1
  <2>. QED  BY <2>1 DEF Messages
<1>3. chosen \in Seq(Messages) /\ sofar.chars \in Nat /\ Len(chosen) \in Nat
  BY DEF ChosenSofar
<1>4. \A b \in n + 1 - k .. n : b = m \/ b \in n + 1 - (k - 1) .. n
  BY <1>1
<1>5. \A b \in n + 1 - (k - 1) .. n : b \in n + 1 - k .. n /\ m < b /\ b \in 1 .. n
  BY <1>1
<1>6. CASE Len(chosen) < HistoryLimit /\ Takes(text, entry) /\ sofar.chars + entry.chars <= HistoryChars
  <2>1. Consider(text, sofar, entry) = taken
    BY <1>6 DEF Consider
  <2>2. Len(longer) = Len(chosen) + 1 /\ longer[1] = entry /\ longer \in Seq(Messages)
    BY <1>2, <1>3
  <2>3. \A i \in 1 .. Len(chosen) : longer[i + 1] = chosen[i]
    BY <1>2, <1>3
  <2>4. DOMAIN longer = 1 .. Len(chosen) + 1 /\ DOMAIN chosen = 1 .. Len(chosen)
    BY <1>3, <2>2
  <2>5. taken.chosen = longer /\ taken.chars = sofar.chars + entry.chars
    OBVIOUS
  <2>6. \A i \in 1 .. Len(chosen) + 1 : i = 1 \/ (i - 1 \in 1 .. Len(chosen) /\ longer[i] = chosen[i - 1])
    <3>1. ASSUME NEW i \in 1 .. Len(chosen) + 1, i # 1
          PROVE  i - 1 \in 1 .. Len(chosen) /\ (i - 1) + 1 = i
      BY <1>3, <3>1
    <3>. HIDE DEF longer
    <3>. QED  BY <2>3, <3>1
  <2>. HIDE DEF longer, taken, n, m, entry, chosen
  <2>7. WithinLimits(taken)
    <3>1. Chars(longer) = Chars(chosen) + entry.chars
      BY <1>2, <1>3, CharsOf DEF longer
    <3>2. Chars(chosen) = sofar.chars
      BY DEF WellChosen, WithinLimits, chosen
    <3>. QED  BY <1>2, <1>3, <1>6, <2>2, <2>5, <3>1, <3>2, ChatAssumption DEF WithinLimits
  <2>8. TakesOnly(text, longer)
    <3>1. TakesOnly(text, chosen)
      BY DEF WellChosen, chosen
    <3>2. ASSUME NEW i \in 1 .. Len(chosen) + 1 PROVE Takes(text, longer[i])
      BY <1>6, <2>2, <2>4, <2>6, <3>1 DEF TakesOnly
    <3>. QED  BY <2>4, <3>2 DEF TakesOnly
  <2>9. InLogOrder(messages, chosen, k - 1)
    BY DEF WellChosen, chosen
  <2>10. InLogOrder(messages, longer, k)
    <3>1. \E b \in n + 1 - k .. n : messages[b] = longer[1]
      BY <1>1, <2>2 DEF entry
    <3>2. ASSUME NEW i \in 1 .. Len(longer) - 1
          PROVE  \E a, b \in 1 .. n : a < b /\ messages[a] = longer[i] /\ messages[b] = longer[i + 1]
      <4>1. i \in 1 .. Len(chosen) /\ longer[i + 1] = chosen[i]
        BY <1>3, <2>2, <2>3
      <4>2. CASE i = 1
        <5>1. chosen # <<>>
          BY <4>1
        <5>2. PICK b \in n + 1 - (k - 1) .. n : messages[b] = chosen[1]
          BY <2>9, <5>1 DEF InLogOrder, n
        <5>. QED  BY <1>1, <1>5, <2>2, <4>1, <4>2, <5>2 DEF entry
      <4>3. CASE i # 1
        <5>1. i - 1 \in 1 .. Len(chosen) - 1 /\ (i - 1) + 1 = i /\ i \in 1 .. Len(chosen) + 1
          BY <1>3, <4>1, <4>3
        <5>2. longer[i] = chosen[i - 1]
          BY <2>6, <4>3, <5>1
        <5>3. PICK a \in 1 .. n, b \in 1 .. n : a < b /\ messages[a] = chosen[i - 1] /\ messages[b] = chosen[(i - 1) + 1]
          BY <2>9, <5>1 DEF InLogOrder, n
        <5>. QED  BY <4>1, <5>1, <5>2, <5>3
      <4>. QED  BY <4>2, <4>3
    <3>. QED  BY <3>1, <3>2 DEF InLogOrder, n
  <2>11. NoRoomFor(text, messages, taken, k)
    <3>1. SUFFICES ASSUME NEW b \in n + 1 - k .. n, Takes(text, messages[b]), ~(taken.chars + messages[b].chars > HistoryChars)
                   PROVE  \E i \in DOMAIN longer : longer[i] = messages[b]
      BY <2>5 DEF NoRoomFor, n
    <3>2. CASE b = m
      BY <1>3, <2>2, <2>4, <3>2 DEF entry
    <3>3. CASE b # m
      <4>1. b \in n + 1 - (k - 1) .. n /\ b \in 1 .. n
        BY <1>4, <1>5, <3>3
      <4>2. messages[b] \in Messages /\ messages[b].chars \in Nat
        <5>1. messages[b] \in Messages
          BY <4>1 DEF n
        <5>. QED  BY <5>1 DEF Messages
      <4>3. ~(sofar.chars + messages[b].chars > HistoryChars)
        <5>. DEFINE c == messages[b].chars  old == sofar.chars  more == entry.chars
        <5>1. c \in Nat /\ old \in Nat /\ more \in Nat /\ HistoryChars \in Nat /\ ~(old + more + c > HistoryChars)
          BY <1>2, <1>3, <2>5, <3>1, <4>2, ChatAssumption
        <5>. HIDE DEF c, old, more
        <5>2. ~(old + c > HistoryChars)
          BY <5>1
        <5>. QED  BY <5>2 DEF c, old
      <4>4. PICK i \in DOMAIN chosen : chosen[i] = messages[b]
        BY <1>6, <3>1, <4>1, <4>3 DEF WellChosen, NoRoomFor, n, chosen
      <4>5. i + 1 \in DOMAIN longer /\ longer[i + 1] = messages[b]
        BY <1>3, <2>3, <2>4, <4>4
      <4>. QED  BY <4>5
    <3>. QED  BY <3>2, <3>3
  <2>12. WellChosen(text, messages, taken, k)
    BY <2>5, <2>7, <2>8, <2>10, <2>11 DEF WellChosen
  <2>. QED  BY <2>1, <2>12 DEF entry, m, n
<1>7. CASE ~(Len(chosen) < HistoryLimit /\ Takes(text, entry) /\ sofar.chars + entry.chars <= HistoryChars)
  <2>1. Consider(text, sofar, entry) = sofar
    BY <1>7, Zenon DEF Consider
  <2>. HIDE DEF n, m, entry, chosen
  <2>2. InLogOrder(messages, chosen, k)
    <3>1. InLogOrder(messages, chosen, k - 1)
      BY DEF WellChosen, chosen
    <3>. QED  BY <1>5, <3>1 DEF InLogOrder, n
  <2>3. NoRoomFor(text, messages, sofar, k)
    <3>1. SUFFICES ASSUME Len(chosen) < HistoryLimit, NEW b \in n + 1 - k .. n, Takes(text, messages[b])
                   PROVE  \/ \E i \in DOMAIN chosen : chosen[i] = messages[b]
                          \/ sofar.chars + messages[b].chars > HistoryChars
      BY DEF NoRoomFor, n, chosen
    <3>2. CASE b = m
      BY <1>2, <1>3, <1>7, <3>1, <3>2, ChatAssumption DEF entry
    <3>3. CASE b # m
      <4>1. b \in n + 1 - (k - 1) .. n
        BY <1>4, <3>3
      <4>. QED  BY <3>1, <4>1 DEF WellChosen, NoRoomFor, n, chosen
    <3>. QED  BY <3>2, <3>3
  <2>4. WellChosen(text, messages, sofar, k)
    BY <2>2, <2>3 DEF WellChosen, chosen
  <2>. QED  BY <2>1, <2>4 DEF entry, m, n
<1>. QED  BY <1>6, <1>7

LEMMA PassChooses ==
  ASSUME NEW text, NEW messages \in Seq(Messages)
  PROVE  LET last == Pass(text, messages)[Len(messages)]
         IN  last \in ChosenSofar /\ WellChosen(text, messages, last, Len(messages))
<1>. DEFINE n == Len(messages)
            pass == Pass(text, messages)
            S == {k \in 0 .. n : WellChosen(text, messages, pass[k], k)}
<1>1. n \in Nat
  OBVIOUS
<1>2. /\ pass \in [0 .. n -> ChosenSofar]
      /\ pass[0] = NothingChosen
      /\ \A k \in 1 .. n : pass[k] = Consider(text, pass[k - 1], messages[n + 1 - k])
  BY PassRuns
<1>. HIDE DEF pass
<1>3. 0 \in S
  <2>1. NothingChosen.chosen = <<>> /\ NothingChosen.chars = 0 /\ Len(<<>>) = 0 /\ DOMAIN <<>> = {}
    BY DEF NothingChosen
  <2>2. WithinLimits(NothingChosen)
    BY <2>1, CharsOf, ChatAssumption DEF WithinLimits
  <2>3. TakesOnly(text, <<>>) /\ InLogOrder(messages, <<>>, 0)
    BY <2>1 DEF TakesOnly, InLogOrder
  <2>4. NoRoomFor(text, messages, NothingChosen, 0)
    <3>1. n + 1 - 0 .. n = {}
      BY <1>1
    <3>. QED  BY <3>1 DEF NoRoomFor
  <2>. QED  BY <1>1, <1>2, <2>1, <2>2, <2>3, <2>4 DEF WellChosen
<1>4. ASSUME NEW k \in 1 .. n, k - 1 \in S PROVE k \in S
  <2>1. k - 1 \in 0 .. n /\ pass[k - 1] \in ChosenSofar /\ k \in 0 .. n
    BY <1>2
  <2>2. WellChosen(text, messages, pass[k - 1], k - 1)
    BY <1>4
  <2>3. WellChosen(text, messages, Consider(text, pass[k - 1], messages[n + 1 - k]), k)
    BY <2>1, <2>2, ConsiderKeeps
  <2>. QED  BY <1>2, <2>1, <2>3
<1>5. S = 0 .. n
  <2>1. S \in SUBSET (0 .. n)
    OBVIOUS
  <2>. HIDE DEF S
  <2>. QED  BY <1>1, <1>3, <1>4, <2>1, Reaches
<1>6. n \in 0 .. n
  BY <1>1
<1>7. WellChosen(text, messages, pass[n], n) /\ pass[n] \in ChosenSofar
  BY <1>2, <1>5, <1>6
<1>. QED  BY <1>7 DEF pass

LEMMA RecentIs ==
  ASSUME ChatTypeOK
  PROVE  /\ Recent \in Seq(Messages)
         /\ \E first \in Nat : \A i \in 1 .. Len(Recent) :
              first + i \in 1 .. Len(log) /\ Recent[i] = log[first + i]
<1>. DEFINE start == IF Len(log) > Window THEN Len(log) - Window + 1 ELSE 1
<1>1. Len(log) \in Nat /\ log \in Seq(Messages) /\ Window \in Nat
  BY ChatAssumption DEF ChatTypeOK, Window
<1>2. start \in Nat /\ start >= 1 /\ start - 1 \in Nat /\ start <= Len(log) + 1
  BY <1>1
<1>3. Recent = SubSeq(log, start, Len(log))
  BY DEF Recent
<1>. HIDE DEF start
<1>4. \A i \in start .. Len(log) : i \in 1 .. Len(log) /\ log[i] \in Messages
  BY <1>1, <1>2
<1>5. /\ Recent \in Seq(Messages)
      /\ Len(Recent) = IF start <= Len(log) THEN Len(log) - start + 1 ELSE 0
      /\ \A i \in 1 .. Len(log) - start + 1 : Recent[i] = log[start + i - 1]
  <2>. DEFINE n == Len(log)  s == SubSeq(log, start, n)
  <2>1. n \in Nat /\ start \in Int /\ \A i \in start .. n : log[i] \in Messages
    BY <1>1, <1>2, <1>4
  <2>. HIDE DEF n
  <2>2. /\ s \in Seq(Messages) /\ Len(s) = IF start <= n THEN n - start + 1 ELSE 0
        /\ \A i \in 1 .. n - start + 1 : s[i] = log[start + i - 1]
    BY <2>1, SubSeqProperties
  <2>. QED  BY <1>3, <2>2 DEF n
<1>6. ASSUME NEW i \in 1 .. Len(Recent)
      PROVE  (start - 1) + i \in 1 .. Len(log) /\ Recent[i] = log[(start - 1) + i]
  <2>1. i \in 1 .. Len(log) - start + 1 /\ start + i - 1 = (start - 1) + i
    BY <1>1, <1>2, <1>5
  <2>. QED  BY <1>1, <1>2, <1>5, <2>1
<1>. QED  BY <1>2, <1>5, <1>6

\* The history of a prompt, as the log has it.
InOrderOf(history, messages) ==
  /\ \A i \in DOMAIN history : \E a \in DOMAIN messages : messages[a] = history[i]
  /\ \A i \in 1 .. Len(history) - 1 : \E a, b \in DOMAIN messages :
       a < b /\ messages[a] = history[i] /\ messages[b] = history[i + 1]

LEMMA ChosenIs ==
  ASSUME ChatTypeOK, NEW text
  PROVE  /\ Chosen(text) \in Seq(Messages)
         /\ Len(Chosen(text)) <= HistoryLimit /\ Chars(Chosen(text)) <= HistoryChars
         /\ TakesOnly(text, Chosen(text)) /\ InOrderOf(Chosen(text), log)
         /\ Len(Chosen(text)) < HistoryLimit =>
              \A i \in DOMAIN Recent : Takes(text, Recent[i]) =>
                \/ \E k \in DOMAIN Chosen(text) : Chosen(text)[k] = Recent[i]
                \/ Chars(Chosen(text)) + Recent[i].chars > HistoryChars
<1>. DEFINE n == Len(Recent)
            last == Pass(text, Recent)[n]
            history == last.chosen
<1>1. Recent \in Seq(Messages) /\ n \in Nat /\ DOMAIN Recent = 1 .. n /\ n + 1 - n = 1
  BY RecentIs
<1>2. PICK first \in Nat : \A i \in 1 .. n : first + i \in 1 .. Len(log) /\ Recent[i] = log[first + i]
  BY RecentIs
<1>3. last \in ChosenSofar /\ WellChosen(text, Recent, last, n)
  BY <1>1, PassChooses
<1>4. Chosen(text) = history
  BY DEF Chosen
<1>. HIDE DEF n, last
<1>5. history \in Seq(Messages) /\ Len(history) \in Nat /\ DOMAIN history = 1 .. Len(history)
  BY <1>3 DEF ChosenSofar
<1>6. WithinLimits(last) /\ TakesOnly(text, history) /\ InLogOrder(Recent, history, n) /\ NoRoomFor(text, Recent, last, n)
  BY <1>3 DEF WellChosen
<1>7. DOMAIN log = 1 .. Len(log) /\ Len(log) \in Nat
  BY DEF ChatTypeOK
<1>8. ASSUME NEW i \in 1 .. Len(history) - 1
      PROVE  \E a, b \in DOMAIN log : a < b /\ log[a] = history[i] /\ log[b] = history[i + 1]
  <2>1. PICK a \in 1 .. n, b \in 1 .. n : a < b /\ Recent[a] = history[i] /\ Recent[b] = history[i + 1]
    BY <1>6 DEF InLogOrder, n
  <2>2. first + a \in DOMAIN log /\ first + b \in DOMAIN log /\ log[first + a] = history[i] /\ log[first + b] = history[i + 1]
    BY <1>2, <1>7, <2>1
  <2>3. first + a < first + b
    BY <1>1, <2>1
  <2>. QED  BY <2>2, <2>3
<1>9. ASSUME NEW i \in DOMAIN history
      PROVE  \E a \in DOMAIN log : log[a] = history[i]
  <2>1. CASE i = 1
    <3>1. history # <<>>
      BY <1>5
    <3>2. PICK b \in 1 .. n : Recent[b] = history[1]
      BY <1>1, <1>6, <3>1 DEF InLogOrder, n
    <3>. QED  BY <1>2, <1>7, <2>1, <3>2
  <2>2. CASE i # 1
    <3>1. i - 1 \in 1 .. Len(history) - 1 /\ (i - 1) + 1 = i
      BY <1>5, <2>2
    <3>. QED  BY <1>8, <3>1
  <2>. QED  BY <2>1, <2>2
<1>10. Chars(history) <= HistoryChars /\ Len(history) <= HistoryLimit /\ Chars(history) = last.chars
  BY <1>6 DEF WithinLimits
<1>11. InOrderOf(history, log)
  BY <1>8, <1>9 DEF InOrderOf
<1>12. Len(history) < HistoryLimit =>
         \A i \in DOMAIN Recent : Takes(text, Recent[i]) =>
           \/ \E k \in DOMAIN history : history[k] = Recent[i]
           \/ Chars(history) + Recent[i].chars > HistoryChars
  BY <1>1, <1>6, <1>10 DEF NoRoomFor, n
<1>. QED  BY <1>4, <1>5, <1>6, <1>10, <1>11, <1>12

(* ------------------------- the inductive invariant ------------------------- *)

\* Who said what: of a question there are its own text, and what it was told when
\* it was done.
Spoken ==
  \A i \in DOMAIN log : \A q \in ChatQuestions : log[i].by = q =>
    /\ prompt[q].pc # "new"
    /\ log[i].role = "user" => log[i].name = prompt[q].text.stored
    /\ log[i].role = "assistant" => prompt[q].pc = "done"

HistoryFitsIn(history, messages) ==
  /\ Len(history) <= HistoryLimit /\ Chars(history) <= HistoryChars
  /\ \A i \in DOMAIN history : history[i].chat
  /\ InOrderOf(history, messages)

\* What one question's prompt is like at any time, given the log.
PromptFits(p, messages) ==
  /\ p.pc \in Retrieval \cup {"new", "history"} => p.history = <<>>
  /\ p.pc = "model" => HistoryFitsIn(p.history, messages)
  /\ p.pc \in Retrieval \/ p.memory # {} => p.pc # "new" /\ ShouldRetrieve(NormalInput(p.skill, p.text))
  /\ p.pc = "reply" => p.answer # 0
  /\ p.answer <= MaxResponse + 3

\* Every fault costs at most one answer or one thing retrieval could have brought:
\* an answer is as good as lost once the request of the agent is late, and the
\* time that retrieval then lost is the request's.
NoAnswer(p) == p.pc = "failed" \/ (p.pc = "done" /\ p.answer = 0)
LosesAnswer(p) == NoAnswer(p) \/ (p.via = "agent" /\ p.late)
LostTo(p) == {what \in p.missed : ~(what = "time" /\ p.via = "agent")}
Lost == {q \in ChatQuestions : LosesAnswer(prompt[q])}
Spent == {m \in ChatQuestions \X MissedKinds : m[2] \in LostTo(prompt[m[1]])}
Costs == Cardinality(Lost) + Cardinality(Spent) <= faults

ChatIInv ==
  /\ ChatTypeOK /\ FaultsTypeOK /\ Spoken
  /\ \A q \in ChatQuestions : PromptFits(prompt[q], log)
  /\ OwnQuestionOnce /\ Costs

LEMMA ChatInitially == ChatInit /\ FaultsInit => ChatIInv
<1>. SUFFICES ASSUME ChatInit, FaultsInit PROVE ChatIInv
  OBVIOUS
<1>1. ASSUME NEW q \in ChatQuestions PROVE prompt[q] = New
  BY DEF ChatInit
<1>2. \A i \in DOMAIN log : log[i].by = "before"
  BY DEF ChatInit, Message
<1>3. ChatTypeOK
  <2>1. log \in Seq(Messages)
    <3>1. Message("before", "user", "long", HistoryChars, TRUE) \in Messages
          /\ Message("before", "assistant", "pong", 1, FALSE) \in Messages
      BY ChatAssumption DEF Message, Messages, Logged
    <3>2. <<>> \in Seq(Messages) /\ \A a, b \in Messages : <<a, b>> \in Seq(Messages)
      OBVIOUS
    <3>. QED  BY <3>1, <3>2 DEF ChatInit
  <2>2. ASSUME NEW q \in ChatQuestions
        PROVE  prompt[q] \in [pc : ChatStages, skill : ChatSkills \cup {"none"}, via : {"agent", "flow"},
                              text : {prompt[q].text}, late : BOOLEAN, memory : SUBSET {"facts", "results"},
                              missed : SUBSET MissedKinds, history : Seq(Messages), answer : Nat]
    <3>1. New \in [pc : ChatStages, skill : ChatSkills \cup {"none"}, via : {"agent", "flow"}, text : {"none"},
                  late : BOOLEAN, memory : SUBSET {"facts", "results"}, missed : SUBSET MissedKinds,
                  history : Seq(Messages), answer : Nat]
      BY DEF New, ChatStages
    <3>2. New.text = "none"
      BY DEF New
    <3>. QED  BY <1>1, <3>1, <3>2
  <2>. QED  BY <1>1, <2>1, <2>2 DEF ChatTypeOK, ChatInit, New
<1>4. Spoken
  BY <1>2, ChatAssumption DEF Spoken
<1>5. ASSUME NEW q \in ChatQuestions PROVE PromptFits(prompt[q], log)
  BY <1>1, ChatAssumption DEF PromptFits, New, Retrieval
<1>6. OwnQuestionOnce
  BY <1>1 DEF OwnQuestionOnce, New
<1>7. Costs
  <2>1. Lost = {}
    BY <1>1 DEF Lost, LosesAnswer, NoAnswer, New
  <2>2. Spent = {}
    BY <1>1 DEF Spent, LostTo, New
  <2>. QED  BY <2>1, <2>2, FS_EmptySet DEF Costs, FaultsInit
<1>8. FaultsTypeOK
  BY FaultsAssumption DEF FaultsInit, FaultsTypeOK
<1>. QED  BY <1>3, <1>4, <1>5, <1>6, <1>7, <1>8 DEF ChatIInv

(* ---------------------------- one question moves --------------------------- *)

PromptType(p) ==
  p \in [pc : ChatStages, skill : ChatSkills \cup {"none"}, via : {"agent", "flow"}, text : {p.text}, late : BOOLEAN,
         memory : SUBSET {"facts", "results"}, missed : SUBSET MissedKinds, history : Seq(Messages), answer : Nat]
OwnOnce(q, p) ==
  \A i \in DOMAIN p.history : p.history[i].by = q => p.via = "flow" \/ p.text.stored # p.text.name

\* A question's prompt becomes p.
Lawful(q, p) ==
  /\ PromptType(p) /\ p.pc # "new" /\ p.text \in Texts
  /\ prompt[q].pc # "done" /\ (prompt[q].pc = "new" \/ p.text = prompt[q].text)
  /\ PromptFits(p, log) /\ OwnOnce(q, p)
\* What is saved of it meanwhile.
SaysOwn(q, p) ==
  \/ log' = log
  \/ \E m \in Messages :
       /\ log' = Append(log, m) /\ m.by = q
       /\ m.role = "user" => m.name = p.text.stored
       /\ m.role = "assistant" => p.pc = "done"
\* A fault takes away an answer or a part of memory, and nothing else does.
KeepsAnswer(q, p) == LosesAnswer(p) => LosesAnswer(prompt[q])
PaidFor(q, p) ==
  /\ faults' \in {faults, faults + 1} /\ faults' <= MaxEvents
  /\ \/ KeepsAnswer(q, p) /\ LostTo(p) \subseteq LostTo(prompt[q])
     \/ /\ faults' = faults + 1 /\ KeepsAnswer(q, p)
        /\ \E what \in MissedKinds : LostTo(p) \subseteq LostTo(prompt[q]) \cup {what}
     \/ faults' = faults + 1 /\ LostTo(p) \subseteq LostTo(prompt[q])

LEMMA FitsOnward ==
  ASSUME NEW p, NEW messages \in Seq(Messages), NEW m \in Messages, PromptFits(p, messages), PromptType(p)
  PROVE  PromptFits(p, Append(messages, m))
<1>. DEFINE longer == Append(messages, m)
<1>1. \A i \in DOMAIN messages : i \in DOMAIN longer /\ longer[i] = messages[i]
  OBVIOUS
<1>. HIDE DEF longer
<1>2. ASSUME NEW history, InOrderOf(history, messages)
      PROVE  InOrderOf(history, longer)
  <2>1. ASSUME NEW i \in DOMAIN history PROVE \E a \in DOMAIN longer : longer[a] = history[i]
    BY <1>1, <1>2 DEF InOrderOf
  <2>2. ASSUME NEW i \in 1 .. Len(history) - 1
        PROVE  \E a, b \in DOMAIN longer : a < b /\ longer[a] = history[i] /\ longer[b] = history[i + 1]
    <3>1. PICK a \in DOMAIN messages, b \in DOMAIN messages : a < b /\ messages[a] = history[i] /\ messages[b] = history[i + 1]
      BY <1>2 DEF InOrderOf
    <3>. QED  BY <1>1, <3>1
  <2>. QED  BY <2>1, <2>2 DEF InOrderOf
<1>3. HistoryFitsIn(p.history, messages) => HistoryFitsIn(p.history, longer)
  BY <1>2 DEF HistoryFitsIn
<1>. QED  BY <1>3 DEF PromptFits, longer

\* Counting what a set that grows by one has.
LEMMA CountsOne ==
  ASSUME NEW U, IsFiniteSet(U), NEW S \in SUBSET U, NEW T \in SUBSET U, NEW x \in U
  PROVE  /\ Cardinality(S) \in Nat /\ Cardinality(T) \in Nat
         /\ T \subseteq S => Cardinality(T) <= Cardinality(S)
         /\ T \subseteq S \cup {x} => Cardinality(T) <= Cardinality(S) + 1
<1>1. IsFiniteSet(S) /\ IsFiniteSet(T) /\ IsFiniteSet(S \cup {x})
  <2>1. S \cup {x} \in SUBSET U
    OBVIOUS
  <2>. QED  BY <2>1, FS_Subset
<1>2. Cardinality(S) \in Nat /\ Cardinality(T) \in Nat /\ Cardinality(S \cup {x}) \in Nat
  BY <1>1, FS_CardinalityType
<1>3. T \subseteq S => Cardinality(T) <= Cardinality(S)
  BY <1>1, FS_Subset
<1>4. T \subseteq S \cup {x} => Cardinality(T) <= Cardinality(S) + 1
  <2>1. Cardinality(S \cup {x}) <= Cardinality(S) + 1
    BY <1>1, <1>2, FS_AddElement
  <2>2. T \subseteq S \cup {x} => Cardinality(T) <= Cardinality(S \cup {x})
    BY <1>1, FS_Subset
  <2>. QED  BY <1>2, <2>1, <2>2
<1>. QED  BY <1>2, <1>3, <1>4

\* What can be lost is so many answers and so many parts of memory.
LEMMA LossesAre ==
  /\ IsFiniteSet(ChatQuestions) /\ IsFiniteSet(ChatQuestions \X MissedKinds)
  /\ Lost \in SUBSET ChatQuestions /\ Spent \in SUBSET (ChatQuestions \X MissedKinds)
<1>1. IsFiniteSet(ChatQuestions)
  BY ChatAssumption
<1>2. IsFiniteSet(MissedKinds)
  <2>1. IsFiniteSet({"facts"}) /\ IsFiniteSet({"facts"} \cup {"results"})
    BY FS_Singleton, FS_AddElement
  <2>2. IsFiniteSet(({"facts"} \cup {"results"}) \cup {"time"})
    BY <2>1, FS_AddElement
  <2>3. MissedKinds = ({"facts"} \cup {"results"}) \cup {"time"}
    BY DEF MissedKinds
  <2>. QED  BY <2>2, <2>3
<1>3. IsFiniteSet(ChatQuestions \X MissedKinds)
  BY <1>1, <1>2, FS_Product
<1>. QED  BY <1>1, <1>3 DEF Lost, Spent

LEMMA QuestionMoves ==
  ASSUME ChatIInv, NEW q \in ChatQuestions, NEW p, prompt' = [prompt EXCEPT ![q] = p],
         Lawful(q, p), SaysOwn(q, p), PaidFor(q, p)
  PROVE  ChatIInv'
<1>1. /\ DOMAIN prompt' = ChatQuestions /\ prompt'[q] = p
      /\ \A r \in ChatQuestions : r # q => prompt'[r] = prompt[r]
  BY DEF ChatIInv, ChatTypeOK
<1>2. log \in Seq(Messages) /\ faults \in Nat /\ MaxEvents \in Nat
  BY FaultsAssumption DEF ChatIInv, ChatTypeOK, FaultsTypeOK
<1>3. log' \in Seq(Messages)
  BY <1>2 DEF SaysOwn
<1>4. ChatTypeOK'
  <2>1. ASSUME NEW r \in ChatQuestions
        PROVE  PromptType(prompt'[r]) /\ (prompt'[r].pc # "new" => prompt'[r].text \in Texts)
    <3>1. CASE r = q
      BY <1>1, <3>1 DEF Lawful
    <3>2. CASE r # q
      BY <1>1, <3>2 DEF ChatIInv, ChatTypeOK, PromptType
    <3>. QED  BY <3>1, <3>2
  <2>. QED  BY <1>1, <1>3, <2>1 DEF ChatTypeOK, PromptType
<1>5. FaultsTypeOK'
  BY <1>2 DEF PaidFor, FaultsTypeOK
<1>6. Spoken'
  <2>1. SUFFICES ASSUME NEW i \in DOMAIN log', NEW r \in ChatQuestions, log'[i].by = r
                 PROVE  /\ prompt'[r].pc # "new"
                        /\ log'[i].role = "user" => log'[i].name = prompt'[r].text.stored
                        /\ log'[i].role = "assistant" => prompt'[r].pc = "done"
    BY DEF Spoken
  <2>2. CASE i \in DOMAIN log /\ log'[i] = log[i]
    <3>1. /\ prompt[r].pc # "new"
          /\ log[i].role = "user" => log[i].name = prompt[r].text.stored
          /\ log[i].role = "assistant" => prompt[r].pc = "done"
      BY <2>1, <2>2 DEF ChatIInv, Spoken
    <3>2. CASE r = q
      BY <1>1, <2>2, <3>1, <3>2 DEF Lawful
    <3>3. CASE r # q
      BY <1>1, <2>2, <3>1, <3>3
    <3>. QED  BY <3>2, <3>3
  <2>3. CASE ~(i \in DOMAIN log /\ log'[i] = log[i])
    <3>1. PICK m \in Messages :
            /\ log' = Append(log, m) /\ m.by = q
            /\ m.role = "user" => m.name = p.text.stored
            /\ m.role = "assistant" => p.pc = "done"
      BY <2>1, <2>3 DEF SaysOwn
    <3>2. log'[i] = m
      BY <1>2, <2>1, <2>3, <3>1
    <3>. QED  BY <1>1, <2>1, <3>1, <3>2 DEF Lawful
  <2>. QED  BY <2>2, <2>3
<1>7. ASSUME NEW r \in ChatQuestions
      PROVE  PromptFits(prompt[r]', log')
  <2>1. PromptFits(prompt'[r], log) /\ PromptType(prompt'[r])
    <3>1. CASE r = q
      BY <1>1, <3>1 DEF Lawful
    <3>2. CASE r # q
      BY <1>1, <3>2 DEF ChatIInv, ChatTypeOK, PromptType
    <3>. QED  BY <3>1, <3>2
  <2>2. CASE log' = log
    BY <2>1, <2>2
  <2>3. CASE \E m \in Messages : log' = Append(log, m)
    BY <1>2, <2>1, <2>3, FitsOnward
  <2>. QED  BY <2>2, <2>3 DEF SaysOwn
<1>8. OwnQuestionOnce'
  <2>1. ASSUME NEW r \in ChatQuestions PROVE OwnOnce(r, prompt'[r])
    <3>1. CASE r = q
      BY <1>1, <3>1 DEF Lawful
    <3>2. CASE r # q
      BY <1>1, <3>2 DEF ChatIInv, OwnQuestionOnce, OwnOnce
    <3>. QED  BY <3>1, <3>2
  <2>. QED  BY <2>1 DEF OwnQuestionOnce, OwnOnce
<1>9. Costs'
  <2>1. /\ \A r \in ChatQuestions : r \in Lost <=> LosesAnswer(prompt[r])
        /\ \A r \in ChatQuestions : r \in Lost' <=> LosesAnswer(prompt'[r])
        /\ Lost \in SUBSET ChatQuestions /\ Lost' \in SUBSET ChatQuestions
    BY DEF Lost, LosesAnswer, NoAnswer
  <2>2. /\ \A r \in ChatQuestions, what \in MissedKinds : <<r, what>> \in Spent <=> what \in LostTo(prompt[r])
        /\ \A r \in ChatQuestions, what \in MissedKinds : <<r, what>> \in Spent' <=> what \in LostTo(prompt'[r])
        /\ Spent \in SUBSET (ChatQuestions \X MissedKinds) /\ Spent' \in SUBSET (ChatQuestions \X MissedKinds)
    BY DEF Spent, LostTo
  <2>3. Lost' \subseteq Lost \cup {q} /\ (KeepsAnswer(q, p) => Lost' \subseteq Lost)
    BY <1>1, <2>1 DEF KeepsAnswer
  <2>4. LostTo(p) \subseteq LostTo(prompt[q]) => Spent' \subseteq Spent
    BY <1>1, <2>2
  <2>5. ASSUME NEW what \in MissedKinds, LostTo(p) \subseteq LostTo(prompt[q]) \cup {what}
        PROVE  Spent' \subseteq Spent \cup {<<q, what>>}
    BY <1>1, <2>2, <2>5
  <2>6. /\ Cardinality(Lost) \in Nat /\ Cardinality(Lost') \in Nat
        /\ Cardinality(Lost') <= Cardinality(Lost) + 1
        /\ KeepsAnswer(q, p) => Cardinality(Lost') <= Cardinality(Lost)
    BY <2>1, <2>3, LossesAre, CountsOne
  <2>7. /\ Cardinality(Spent) \in Nat /\ Cardinality(Spent') \in Nat
        /\ LostTo(p) \subseteq LostTo(prompt[q]) => Cardinality(Spent') <= Cardinality(Spent)
        /\ \A what \in MissedKinds : LostTo(p) \subseteq LostTo(prompt[q]) \cup {what} =>
             Cardinality(Spent') <= Cardinality(Spent) + 1
    <3>1. ASSUME NEW what \in MissedKinds
          PROVE  /\ Cardinality(Spent) \in Nat /\ Cardinality(Spent') \in Nat
                 /\ Spent' \subseteq Spent => Cardinality(Spent') <= Cardinality(Spent)
                 /\ Spent' \subseteq Spent \cup {<<q, what>>} => Cardinality(Spent') <= Cardinality(Spent) + 1
      <4>. DEFINE U == ChatQuestions \X MissedKinds
      <4>1. <<q, what>> \in U /\ IsFiniteSet(U) /\ Spent \in SUBSET U /\ Spent' \in SUBSET U
        BY <2>2, LossesAre
      <4>. HIDE DEF U
      <4>. QED  BY <4>1, CountsOne
    <3>2. "time" \in MissedKinds
      BY DEF MissedKinds
    <3>. QED  BY <2>4, <2>5, <3>1, <3>2
  <2>8. Cardinality(Lost) + Cardinality(Spent) <= faults
    BY DEF ChatIInv, Costs
  <2>9. Cardinality(Lost') + Cardinality(Spent') <= faults'
    BY <1>2, <2>6, <2>7, <2>8 DEF PaidFor
  <2>. QED  BY <2>9 DEF Costs
<1>. QED  BY <1>4, <1>5, <1>6, <1>7, <1>8, <1>9 DEF ChatIInv

(* ------------------------------- the actions ------------------------------- *)

LEMMA PromptIs ==
  ASSUME ChatIInv, NEW q \in ChatQuestions
  PROVE  /\ PromptType(prompt[q]) /\ PromptFits(prompt[q], log) /\ OwnOnce(q, prompt[q])
         /\ prompt[q].pc # "new" => prompt[q].text \in Texts
         /\ DOMAIN prompt = ChatQuestions /\ faults \in 0 .. MaxEvents /\ MaxEvents \in Nat
BY FaultsAssumption DEF ChatIInv, ChatTypeOK, PromptType, OwnQuestionOnce, OwnOnce, FaultsTypeOK

\* What a step of retrieval makes of a prompt.
Retrieved(q, pc, memory, missed) == [prompt[q] EXCEPT !.pc = pc, !.memory = memory, !.missed = missed]

LEMMA RetrievalLawful ==
  ASSUME ChatIInv, NEW q \in ChatQuestions, prompt[q].pc \in Retrieval,
         NEW pc \in Retrieval \cup {"history"}, NEW memory \in SUBSET {"facts", "results"},
         NEW missed \in SUBSET MissedKinds
  PROVE  Lawful(q, Retrieved(q, pc, memory, missed)) /\ KeepsAnswer(q, Retrieved(q, pc, memory, missed))
<1>. DEFINE p == Retrieved(q, pc, memory, missed)
<1>1. /\ p.pc = pc /\ p.memory = memory /\ p.missed = missed /\ p.skill = prompt[q].skill /\ p.via = prompt[q].via
      /\ p.text = prompt[q].text /\ p.late = prompt[q].late /\ p.history = prompt[q].history
      /\ p.answer = prompt[q].answer
  BY PromptIs DEF PromptType, Retrieved
<1>2. PromptType(p)
  <2>1. PromptType(prompt[q]) /\ pc \in ChatStages
    BY PromptIs DEF Retrieval, ChatStages
  <2>. QED  BY <2>1, ZenonT(40) DEF PromptType, Retrieved
<1>3. prompt[q].pc \notin {"new", "done"} /\ pc \notin {"new", "done", "reply", "model", "failed"}
  BY DEF Retrieval
<1>. HIDE DEF p
<1>4. PromptFits(p, log)
  BY <1>1, <1>3, PromptIs DEF PromptFits
<1>5. OwnOnce(q, p)
  BY <1>1, PromptIs DEF OwnOnce
<1>. QED  BY <1>1, <1>2, <1>3, <1>4, <1>5, PromptIs DEF Lawful, KeepsAnswer, LosesAnswer, NoAnswer, p

\* A step of retrieval that does not fail, or fails for want of time, loses
\* nothing more.
LEMMA RetrievalMoves ==
  ASSUME ChatIInv, NEW q \in ChatQuestions, prompt[q].pc \in Retrieval,
         NEW pc \in Retrieval \cup {"history"}, NEW memory \in SUBSET {"facts", "results"},
         prompt' = [prompt EXCEPT ![q].pc = pc, ![q].memory = memory], UNCHANGED log, NoFault
  PROVE  ChatIInv'
<1>. DEFINE p == Retrieved(q, pc, memory, prompt[q].missed)
<1>1. prompt[q].missed \in SUBSET MissedKinds
  BY PromptIs DEF PromptType
<1>2. Lawful(q, p) /\ KeepsAnswer(q, p)
  BY <1>1, RetrievalLawful
<1>3. prompt' = [prompt EXCEPT ![q] = p]
  <2>1. p = [prompt[q] EXCEPT !.pc = pc, !.memory = memory]
    BY PromptIs DEF Retrieved, PromptType
  <2>. HIDE DEF p
  <2>. QED  BY <2>1, PromptIs
<1>4. p.missed = prompt[q].missed /\ p.via = prompt[q].via
  BY PromptIs DEF Retrieved, PromptType
<1>. HIDE DEF p
<1>5. PaidFor(q, p)
  BY <1>2, <1>4, PromptIs DEF PaidFor, LostTo, NoFault
<1>6. SaysOwn(q, p)
  BY DEF SaysOwn
<1>. QED  BY <1>2, <1>3, <1>5, <1>6, QuestionMoves

LEMMA ProceedMoves ==
  ASSUME ChatIInv, NEW q \in ChatQuestions, prompt[q].pc \in Retrieval,
         NEW pc \in Retrieval \cup {"history"}, Proceed(q, pc), UNCHANGED log, NoFault
  PROVE  ChatIInv'
<1>. DEFINE m == prompt[q].memory
<1>1. m \in SUBSET {"facts", "results"}
  BY PromptIs DEF PromptType
<1>2. prompt' = [prompt EXCEPT ![q].pc = pc, ![q].memory = m]
  BY PromptIs DEF Proceed, PromptType
<1>. HIDE DEF m
<1>. QED  BY <1>1, <1>2, RetrievalMoves

\* One that fails loses the one thing that it was to bring.
LEMMA MissesMoves ==
  ASSUME ChatIInv, NEW q \in ChatQuestions, prompt[q].pc \in Retrieval, NEW kind, NEW what \in MissedKinds,
         NEW pc \in Retrieval \cup {"history"}, Misses(q, kind, what, pc), UNCHANGED log
  PROVE  ChatIInv'
<1>1. CASE NoFault /\ Proceed(q, pc)
  BY <1>1, ProceedMoves
<1>2. CASE CanFail(kind) /\ Fault /\ prompt' = [prompt EXCEPT ![q].pc = pc, ![q].missed = @ \cup {what}]
  <2>. DEFINE p == Retrieved(q, pc, prompt[q].memory, prompt[q].missed \cup {what})
  <2>1. prompt[q].memory \in SUBSET {"facts", "results"} /\ prompt[q].missed \cup {what} \in SUBSET MissedKinds
    BY PromptIs DEF PromptType
  <2>2. Lawful(q, p) /\ KeepsAnswer(q, p)
    BY <2>1, RetrievalLawful
  <2>3. p = [prompt[q] EXCEPT !.pc = pc, !.missed = prompt[q].missed \cup {what}]
    BY PromptIs DEF Retrieved, PromptType
  <2>4. p.missed = prompt[q].missed \cup {what} /\ p.via = prompt[q].via
    BY PromptIs DEF Retrieved, PromptType
  <2>. HIDE DEF p
  <2>5. prompt' = [prompt EXCEPT ![q] = p]
    BY <1>2, <2>3, PromptIs
  <2>6. LostTo(p) \subseteq LostTo(prompt[q]) \cup {what}
    BY <2>4 DEF LostTo
  <2>7. PaidFor(q, p)
    BY <1>2, <2>2, <2>6, PromptIs DEF PaidFor, CanFail, Fault
  <2>8. SaysOwn(q, p)
    BY DEF SaysOwn
  <2>. QED  BY <2>2, <2>5, <2>7, <2>8, QuestionMoves
<1>. QED  BY <1>1, <1>2 DEF Misses

\* The time is up: the agent's answer is as good as lost, and of the flow's
\* retrieval the time.
LEMMA DeadlineSteps ==
  ASSUME ChatIInv, NEW q \in ChatQuestions, RequestEnds(q) \/ RetrievalEnds(q)
  PROVE  ChatIInv'
<1>. DEFINE missed == IF prompt[q].pc \in Retrieval THEN prompt[q].missed \cup {"time"} ELSE prompt[q].missed
            p == [prompt[q] EXCEPT !.late = TRUE, !.missed = missed]
<1>1. /\ PromptType(prompt[q]) /\ PromptFits(prompt[q], log) /\ OwnOnce(q, prompt[q])
      /\ prompt[q].pc \in Retrieval \cup {"history", "model"} /\ prompt[q].pc \notin {"new", "done", "failed"}
      /\ prompt[q].text \in Texts /\ DOMAIN prompt = ChatQuestions /\ UNCHANGED log
  BY PromptIs DEF RequestEnds, RetrievalEnds, Retrieval
<1>2. missed \in SUBSET MissedKinds /\ missed \subseteq prompt[q].missed \cup {"time"}
  BY <1>1 DEF PromptType, MissedKinds
<1>3. prompt' = [prompt EXCEPT ![q].late = TRUE, ![q].missed = missed]
  BY DEF RequestEnds, RetrievalEnds, TimeIsUp
<1>. HIDE DEF missed
<1>4. /\ p.pc = prompt[q].pc /\ p.memory = prompt[q].memory /\ p.missed = missed /\ p.skill = prompt[q].skill
      /\ p.via = prompt[q].via /\ p.text = prompt[q].text /\ p.late = TRUE /\ p.history = prompt[q].history
      /\ p.answer = prompt[q].answer
  BY <1>1 DEF PromptType
<1>5. PromptType(p)
  BY <1>1, <1>2 DEF PromptType
<1>6. prompt' = [prompt EXCEPT ![q] = p]
  BY <1>1, <1>3
<1>. HIDE DEF p
<1>7. PromptFits(p, log) /\ OwnOnce(q, p)
  BY <1>1, <1>4 DEF PromptFits, OwnOnce
<1>8. Lawful(q, p)
  BY <1>1, <1>4, <1>5, <1>7 DEF Lawful
<1>9. faults' = faults + 1 /\ faults' <= MaxEvents
  BY PromptIs DEF RequestEnds, RetrievalEnds, CanFail, Fault
<1>10. CASE RequestEnds(q)
  <2>1. prompt[q].via = "agent"
    BY <1>10 DEF RequestEnds
  <2>2. LostTo(p) \subseteq LostTo(prompt[q])
    BY <1>2, <1>4, <2>1 DEF LostTo
  <2>3. PaidFor(q, p)
    BY <1>9, <2>2 DEF PaidFor
  <2>. QED  BY <1>1, <1>6, <1>8, <2>3, QuestionMoves DEF SaysOwn
<1>11. CASE RetrievalEnds(q)
  <2>1. prompt[q].via = "flow"
    BY <1>11 DEF RetrievalEnds
  <2>2. KeepsAnswer(q, p)
    BY <1>1, <1>4, <2>1 DEF KeepsAnswer, LosesAnswer, NoAnswer
  <2>3. "time" \in MissedKinds /\ LostTo(p) \subseteq LostTo(prompt[q]) \cup {"time"}
    BY <1>2, <1>4 DEF LostTo, MissedKinds
  <2>4. PaidFor(q, p)
    BY <1>9, <2>2, <2>3 DEF PaidFor
  <2>. QED  BY <1>1, <1>6, <1>8, <2>4, QuestionMoves DEF SaysOwn
<1>. QED  BY <1>10, <1>11

LEMMA RetrievalSteps ==
  ASSUME ChatIInv, NEW q \in ChatQuestions,
         LookUpFacts(q) \/ EmbedQuestion(q) \/ SearchVectors(q) \/ JoinChunks(q)
  PROVE  ChatIInv'
<1>1. /\ prompt[q].memory \in SUBSET {"facts", "results"} /\ "facts" \in MissedKinds /\ "results" \in MissedKinds
      /\ {"embed", "search", "join"} \subseteq Retrieval
  BY PromptIs DEF PromptType, MissedKinds, Retrieval
<1>2. prompt[q].pc \in Retrieval /\ UNCHANGED log
  BY DEF LookUpFacts, EmbedQuestion, SearchVectors, JoinChunks, Retrieval
<1>3. CASE LookUpFacts(q)
  <2>1. CASE NoFault /\ Proceed(q, "embed")
    BY <1>1, <1>2, <2>1, ProceedMoves
  <2>2. CASE Misses(q, "facts_failed", "facts", "embed")
    BY <1>1, <1>2, <2>2, MissesMoves
  <2>3. CASE InTime(q) /\ \E found \in SUBSET {"facts"} : prompt' = [prompt EXCEPT ![q].pc = "embed", ![q].memory = found]
    BY <1>1, <1>2, <2>3, RetrievalMoves DEF InTime
  <2>. QED  BY <1>3, <2>1, <2>2, <2>3 DEF LookUpFacts
<1>4. CASE EmbedQuestion(q)
  <2>1. CASE InTime(q) /\ Proceed(q, "search")
    BY <1>1, <1>2, <2>1, ProceedMoves DEF InTime
  <2>2. CASE Misses(q, "brain_offline", "results", "history")
    BY <1>1, <1>2, <2>2, MissesMoves
  <2>. QED  BY <1>4, <2>1, <2>2 DEF EmbedQuestion
<1>5. CASE SearchVectors(q)
  <2>1. CASE InTime(q) /\ \E pc \in {"join", "history"} : Proceed(q, pc)
    BY <1>1, <1>2, <2>1, ProceedMoves DEF InTime
  <2>2. CASE Misses(q, "vectors_offline", "results", "history")
    BY <1>1, <1>2, <2>2, MissesMoves
  <2>. QED  BY <1>5, <2>1, <2>2 DEF SearchVectors
<1>6. CASE JoinChunks(q)
  <2>1. CASE Misses(q, "chunks_failed", "results", "history")
    BY <1>1, <1>2, <2>1, MissesMoves
  <2>2. CASE /\ InTime(q)
             /\ \E known \in SUBSET {"results"} :
                  prompt' = [prompt EXCEPT ![q].pc = "history", ![q].memory = @ \cup known]
    <3>1. PICK known \in SUBSET {"results"} :
            prompt' = [prompt EXCEPT ![q].pc = "history", ![q].memory = @ \cup known]
      BY <2>2
    <3>2. prompt[q].memory \cup known \in SUBSET {"facts", "results"}
      BY <1>1
    <3>3. prompt' = [prompt EXCEPT ![q].pc = "history", ![q].memory = prompt[q].memory \cup known]
      BY <3>1, PromptIs DEF PromptType
    <3>. QED  BY <1>2, <2>2, <3>2, <3>3, RetrievalMoves DEF InTime
  <2>. QED  BY <1>6, <2>1, <2>2 DEF JoinChunks
<1>. QED  BY <1>3, <1>4, <1>5, <1>6

LEMMA AskStep ==
  ASSUME ChatIInv, NEW q \in ChatQuestions, Ask(q)
  PROVE  ChatIInv'
<1>1. PICK skill \in ChatSkills, text \in Texts, via \in {"agent", "flow"} :
        /\ prompt' = [prompt EXCEPT ![q] = [New EXCEPT !.skill = skill, !.text = text, !.via = via,
             !.pc = IF ShouldRetrieve(NormalInput(skill, text)) THEN "retrieve" ELSE "history"]]
        /\ Saves(Message(q, "user", text.stored, text.chars, ~text.slash))
  BY DEF Ask
<1>. DEFINE pc == IF ShouldRetrieve(NormalInput(skill, text)) THEN "retrieve" ELSE "history"
            p == [New EXCEPT !.skill = skill, !.text = text, !.via = via, !.pc = pc]
<1>2. pc \in {"retrieve", "history"} /\ (pc = "retrieve" => ShouldRetrieve(NormalInput(skill, text)))
  OBVIOUS
<1>. HIDE DEF pc
<1>3. /\ p.pc = pc /\ p.skill = skill /\ p.text = text /\ p.late = FALSE /\ p.memory = {} /\ p.missed = {}
      /\ p.history = <<>> /\ p.answer = 0
  BY DEF New
<1>4. PromptType(p)
  <2>. DEFINE Prompts == [pc : ChatStages, skill : ChatSkills \cup {"none"}, via : {"agent", "flow"},
                          text : {"none", text}, late : BOOLEAN, memory : SUBSET {"facts", "results"},
                          missed : SUBSET MissedKinds, history : Seq(Messages), answer : Nat]
  <2>1. New \in Prompts
    BY DEF New, ChatStages
  <2>2. p \in Prompts
    BY <1>2, <2>1 DEF ChatStages
  <2>. HIDE DEF p
  <2>. QED  BY <1>3, <2>2 DEF PromptType
<1>. HIDE DEF p
<1>5. PromptFits(p, log) /\ OwnOnce(q, p)
  BY <1>2, <1>3, ChatAssumption DEF PromptFits, OwnOnce, Retrieval
<1>6. Lawful(q, p)
  BY <1>2, <1>4, <1>5, <1>3 DEF Lawful, Ask
<1>7. PaidFor(q, p)
  <2>1. KeepsAnswer(q, p) /\ LostTo(p) \subseteq LostTo(prompt[q])
    BY <1>2, <1>3 DEF KeepsAnswer, LosesAnswer, NoAnswer, LostTo
  <2>. QED  BY <1>1, <2>1, PromptIs DEF PaidFor, Saves, NoFault, CanFail, Fault
<1>8. SaysOwn(q, p)
  <2>. DEFINE m == Message(q, "user", text.stored, text.chars, ~text.slash)
  <2>1. text.stored \in Logged /\ text.chars \in Nat /\ text.slash \in BOOLEAN
    BY ChatAssumption DEF Logged, ChatText
  <2>2. m \in Messages
    BY <2>1 DEF Message, Messages
  <2>3. m.by = q /\ m.role = "user" /\ m.name = text.stored /\ p.text = text
    BY <1>3 DEF Message
  <2>. HIDE DEF m
  <2>. QED  BY <1>1, <2>2, <2>3 DEF SaysOwn, Saves, m
<1>. QED  BY <1>1, <1>6, <1>7, <1>8, QuestionMoves DEF p, pc

\* A request that fails has paid with its time or pays with a fault.
LEMMA GivesUpPaid ==
  ASSUME ChatIInv, NEW q \in ChatQuestions, NEW kind, GivesUp(q, kind), prompt[q].pc \in {"history", "model"},
         NEW p, p.via = prompt[q].via, p.late = prompt[q].late, p.missed = prompt[q].missed
  PROVE  PaidFor(q, p)
<1>1. LostTo(p) \subseteq LostTo(prompt[q]) /\ prompt[q].pc \notin Retrieval
  BY DEF LostTo, Retrieval
<1>2. CASE OutOfTime(q) /\ NoFault
  <2>1. LosesAnswer(prompt[q])
    BY <1>1, <1>2 DEF OutOfTime, LosesAnswer
  <2>. QED  BY <1>1, <1>2, <2>1, PromptIs DEF PaidFor, KeepsAnswer, NoFault
<1>3. CASE CanFail(kind) /\ Fault
  BY <1>1, <1>3, PromptIs DEF PaidFor, CanFail, Fault
<1>. QED  BY <1>2, <1>3 DEF GivesUp

\* What the history holds of a question is not what was just asked.
LEMMA HistoryStep ==
  ASSUME ChatIInv, NEW q \in ChatQuestions, ReadHistory(q)
  PROVE  ChatIInv'
<1>1. /\ PromptType(prompt[q]) /\ PromptFits(prompt[q], log) /\ prompt[q].pc = "history"
      /\ prompt[q].history = <<>> /\ prompt[q].text \in Texts /\ UNCHANGED log /\ DOMAIN prompt = ChatQuestions
      /\ ChatTypeOK
  BY PromptIs DEF ReadHistory, PromptFits, ChatIInv
<1>2. CASE NoFault /\ Proceed(q, "model")
  <2>. DEFINE p == [prompt[q] EXCEPT !.pc = "model"]
  <2>1. /\ p.pc = "model" /\ p.history = <<>> /\ p.text = prompt[q].text /\ p.memory = prompt[q].memory
        /\ p.skill = prompt[q].skill /\ p.answer = prompt[q].answer /\ p.late = prompt[q].late
        /\ p.via = prompt[q].via /\ p.missed = prompt[q].missed
    BY <1>1 DEF PromptType
  <2>2. PromptType(p)
    BY <1>1 DEF PromptType, ChatStages
  <2>. HIDE DEF p
  <2>3. HistoryFitsIn(<<>>, log)
    BY CharsOf, ChatAssumption DEF HistoryFitsIn, InOrderOf
  <2>4. PromptFits(p, log) /\ OwnOnce(q, p)
    BY <1>1, <2>1, <2>3 DEF PromptFits, OwnOnce, Retrieval
  <2>5. Lawful(q, p)
    BY <1>1, <2>1, <2>2, <2>4 DEF Lawful
  <2>6. PaidFor(q, p)
    BY <1>2, <2>1, PromptIs DEF PaidFor, KeepsAnswer, LosesAnswer, NoAnswer, LostTo, NoFault
  <2>7. prompt' = [prompt EXCEPT ![q] = p]
    BY <1>1, <1>2 DEF Proceed, p
  <2>. QED  BY <1>1, <2>5, <2>6, <2>7, QuestionMoves DEF SaysOwn
<1>3. CASE InTime(q) /\ prompt' = [prompt EXCEPT ![q].pc = "model", ![q].history = Chosen(Raw(q))]
  <2>. DEFINE history == Chosen(Raw(q))
              p == [prompt[q] EXCEPT !.pc = "model", !.history = history]
  <2>1. /\ history \in Seq(Messages) /\ HistoryFitsIn(history, log)
        /\ TakesOnly(Raw(q), history)
    BY <1>1, ChosenIs DEF HistoryFitsIn, TakesOnly, Takes
  <2>. HIDE DEF history
  <2>2. /\ p.pc = "model" /\ p.history = history /\ p.text = prompt[q].text /\ p.memory = prompt[q].memory
        /\ p.skill = prompt[q].skill /\ p.answer = prompt[q].answer /\ p.late = prompt[q].late
        /\ p.via = prompt[q].via /\ p.missed = prompt[q].missed
    BY <1>1 DEF PromptType
  <2>3. PromptType(p)
    BY <1>1, <2>1 DEF PromptType, ChatStages
  <2>4. prompt' = [prompt EXCEPT ![q] = p]
    BY <1>1, <1>3 DEF history
  <2>. HIDE DEF p
  <2>5. PromptFits(p, log)
    BY <1>1, <2>1, <2>2 DEF PromptFits, Retrieval
  <2>6. OwnOnce(q, p)
    <3>1. SUFFICES ASSUME NEW i \in DOMAIN history, history[i].by = q, prompt[q].via = "agent",
                          prompt[q].text.stored = prompt[q].text.name
                   PROVE  FALSE
      BY <1>1, <2>2 DEF OwnOnce, PromptType
    <3>2. PICK a \in DOMAIN log : log[a] = history[i]
      BY <2>1 DEF HistoryFitsIn, InOrderOf
    <3>3. /\ log[a].role = "user" => log[a].name = prompt[q].text.stored
          /\ log[a].role # "assistant"
      BY <1>1, <3>1, <3>2 DEF ChatIInv, Spoken
    <3>4. history[i] \in Messages
      BY <2>1
    <3>5. log[a].role = "user"
      BY <3>2, <3>3, <3>4 DEF Messages
    <3>. QED  BY <2>1, <3>1, <3>2, <3>3, <3>5 DEF TakesOnly, Takes, Raw
  <2>7. Lawful(q, p)
    BY <1>1, <2>2, <2>3, <2>5, <2>6 DEF Lawful
  <2>8. PaidFor(q, p)
    BY <1>3, <2>2, PromptIs DEF PaidFor, KeepsAnswer, LosesAnswer, NoAnswer, LostTo, InTime, NoFault
  <2>. QED  BY <1>1, <2>4, <2>7, <2>8, QuestionMoves DEF SaysOwn
<1>4. CASE GivesUp(q, "history_failed")
  <2>. DEFINE p == [prompt[q] EXCEPT !.pc = "failed"]
  <2>1. /\ p.pc = "failed" /\ p.history = <<>> /\ p.text = prompt[q].text /\ p.memory = prompt[q].memory
        /\ p.skill = prompt[q].skill /\ p.answer = prompt[q].answer /\ p.late = prompt[q].late
        /\ p.via = prompt[q].via /\ p.missed = prompt[q].missed
    BY <1>1 DEF PromptType
  <2>2. PromptType(p)
    BY <1>1 DEF PromptType, ChatStages
  <2>3. prompt' = [prompt EXCEPT ![q] = p]
    BY <1>1, <1>4 DEF GivesUp, Proceed
  <2>. HIDE DEF p
  <2>4. PromptFits(p, log) /\ OwnOnce(q, p)
    BY <1>1, <2>1 DEF PromptFits, OwnOnce, Retrieval
  <2>5. Lawful(q, p)
    BY <1>1, <2>1, <2>2, <2>4 DEF Lawful
  <2>6. PaidFor(q, p)
    BY <1>1, <1>4, <2>1, GivesUpPaid
  <2>. QED  BY <1>1, <2>3, <2>5, <2>6, QuestionMoves DEF SaysOwn
<1>. QED  BY <1>2, <1>3, <1>4 DEF ReadHistory

\* What is sent is something, and no longer than the limit and a mark.
LEMMA SentBounded ==
  ASSUME NEW answer \in Answers
  PROVE  Sent(answer) \in Nat /\ Sent(answer) # 0 /\ Sent(answer) <= MaxResponse + 3
<1>1. /\ answer.chars \in Nat \ {0} /\ answer.before \in -1 .. MaxResponse - 1 /\ MaxResponse \in Nat \ {0}
  BY ChatAssumption DEF ChatAnswer
<1>. DEFINE early == answer.before < 0 \/ answer.before * answer.width < MaxResponse \div 2
<1>2. Sent(answer) = IF answer.chars <= MaxResponse THEN answer.chars
                     ELSE IF early THEN MaxResponse + 3
                     ELSE IF answer.stop THEN answer.before + 1 ELSE answer.before + 3
  BY DEF Sent
<1>3. ~early => answer.before \in Nat
  BY <1>1
<1>. HIDE DEF early
<1>. QED  BY <1>1, <1>2, <1>3

LEMMA ModelStep ==
  ASSUME ChatIInv, NEW q \in ChatQuestions, AskModel(q)
  PROVE  ChatIInv'
<1>1. /\ PromptType(prompt[q]) /\ PromptFits(prompt[q], log) /\ prompt[q].pc = "model"
      /\ prompt[q].text \in Texts /\ UNCHANGED log /\ DOMAIN prompt = ChatQuestions /\ OwnOnce(q, prompt[q])
  BY PromptIs DEF AskModel
<1>2. CASE InTime(q) /\ \E answer \in Answers : prompt' = [prompt EXCEPT ![q].pc = "reply", ![q].answer = Sent(answer)]
  <2>1. PICK sent \in Nat : /\ prompt' = [prompt EXCEPT ![q].pc = "reply", ![q].answer = sent]
                            /\ sent # 0 /\ sent <= MaxResponse + 3
    BY <1>2, SentBounded
  <2>. DEFINE p == [prompt[q] EXCEPT !.pc = "reply", !.answer = sent]
  <2>2. /\ p.pc = "reply" /\ p.history = prompt[q].history /\ p.text = prompt[q].text /\ p.memory = prompt[q].memory
        /\ p.skill = prompt[q].skill /\ p.answer = sent /\ p.late = prompt[q].late
        /\ p.via = prompt[q].via /\ p.missed = prompt[q].missed
    BY <1>1 DEF PromptType
  <2>3. PromptType(p)
    BY <1>1 DEF PromptType, ChatStages
  <2>4. prompt' = [prompt EXCEPT ![q] = p]
    BY <1>1, <2>1
  <2>. HIDE DEF p
  <2>5. PromptFits(p, log) /\ OwnOnce(q, p)
    BY <1>1, <2>1, <2>2 DEF PromptFits, OwnOnce, Retrieval
  <2>6. Lawful(q, p)
    BY <1>1, <2>2, <2>3, <2>5 DEF Lawful
  <2>7. PaidFor(q, p)
    BY <1>2, <2>2, PromptIs DEF PaidFor, KeepsAnswer, LosesAnswer, NoAnswer, LostTo, InTime, NoFault
  <2>. QED  BY <1>1, <2>4, <2>6, <2>7, QuestionMoves DEF SaysOwn
<1>3. CASE GivesUp(q, "model_failed")
  <2>. DEFINE p == [prompt[q] EXCEPT !.pc = "failed"]
  <2>1. /\ p.pc = "failed" /\ p.history = prompt[q].history /\ p.text = prompt[q].text /\ p.memory = prompt[q].memory
        /\ p.skill = prompt[q].skill /\ p.answer = prompt[q].answer /\ p.late = prompt[q].late
        /\ p.via = prompt[q].via /\ p.missed = prompt[q].missed
    BY <1>1 DEF PromptType
  <2>2. PromptType(p)
    BY <1>1 DEF PromptType, ChatStages
  <2>3. prompt' = [prompt EXCEPT ![q] = p]
    BY <1>1, <1>3 DEF GivesUp, Proceed
  <2>. HIDE DEF p
  <2>4. PromptFits(p, log) /\ OwnOnce(q, p)
    BY <1>1, <2>1 DEF PromptFits, OwnOnce, Retrieval
  <2>5. Lawful(q, p)
    BY <1>1, <2>1, <2>2, <2>4 DEF Lawful
  <2>6. PaidFor(q, p)
    BY <1>1, <1>3, <2>1, GivesUpPaid
  <2>. QED  BY <1>1, <2>3, <2>5, <2>6, QuestionMoves DEF SaysOwn
<1>. QED  BY <1>2, <1>3 DEF AskModel

LEMMA AnswerStep ==
  ASSUME ChatIInv, NEW q \in ChatQuestions, SendAnswer(q)
  PROVE  ChatIInv'
<1>1. /\ PromptType(prompt[q]) /\ PromptFits(prompt[q], log) /\ prompt[q].pc \in {"reply", "failed"}
      /\ prompt[q].text \in Texts /\ DOMAIN prompt = ChatQuestions /\ OwnOnce(q, prompt[q])
  BY PromptIs DEF SendAnswer
<1>. DEFINE p == [prompt[q] EXCEPT !.pc = "done"]
<1>2. /\ p.pc = "done" /\ p.history = prompt[q].history /\ p.text = prompt[q].text /\ p.memory = prompt[q].memory
      /\ p.skill = prompt[q].skill /\ p.answer = prompt[q].answer /\ p.late = prompt[q].late
      /\ p.via = prompt[q].via /\ p.missed = prompt[q].missed
  BY <1>1 DEF PromptType
<1>3. PromptType(p)
  BY <1>1 DEF PromptType, ChatStages
<1>4. prompt' = [prompt EXCEPT ![q] = p]
  BY <1>1 DEF SendAnswer, Proceed
<1>. HIDE DEF p
<1>5. \/ UNCHANGED log /\ NoFault
      \/ \E name \in {"answer", "reason"}, chars \in Nat, chat \in BOOLEAN : Saves(Message(q, "assistant", name, chars, chat))
  <2>1. prompt[q].answer \in Nat /\ 1 \in Nat
    BY <1>1 DEF PromptType
  <2>. QED  BY <2>1 DEF SendAnswer
<1>6. SaysOwn(q, p)
  <2>1. ASSUME NEW name \in {"answer", "reason"}, NEW chars \in Nat, NEW chat \in BOOLEAN,
               Saves(Message(q, "assistant", name, chars, chat))
        PROVE  SaysOwn(q, p)
    <3>. DEFINE m == Message(q, "assistant", name, chars, chat)
    <3>1. m \in Messages /\ m.by = q /\ m.role = "assistant"
      BY DEF Message, Messages, Logged
    <3>. HIDE DEF m
    <3>. QED  BY <1>2, <2>1, <3>1 DEF SaysOwn, Saves, m
  <2>. QED  BY <1>5, <2>1 DEF SaysOwn
<1>7. Lawful(q, p)
  BY <1>1, <1>2, <1>3 DEF Lawful, PromptFits, OwnOnce, Retrieval
<1>8. PaidFor(q, p)
  <2>1. KeepsAnswer(q, p) /\ LostTo(p) \subseteq LostTo(prompt[q])
    BY <1>1, <1>2 DEF KeepsAnswer, LosesAnswer, NoAnswer, LostTo, PromptFits
  <2>. QED  BY <1>5, <2>1, PromptIs DEF PaidFor, Saves, NoFault, CanFail, Fault
<1>. QED  BY <1>4, <1>6, <1>7, <1>8, QuestionMoves

LEMMA ChatStep == ChatIInv /\ [ChatNext]_<<chatVars, faults>> => ChatIInv'
<1>. SUFFICES ASSUME ChatIInv, [ChatNext]_<<chatVars, faults>> PROVE ChatIInv'
  OBVIOUS
<1>1. CASE UNCHANGED <<chatVars, faults>>
  BY <1>1 DEF chatVars, ChatIInv, ChatTypeOK, FaultsTypeOK, Spoken, OwnQuestionOnce, Costs, Lost, Spent
<1>2. CASE ChatNext
  BY <1>2, AskStep, DeadlineSteps, RetrievalSteps, HistoryStep, ModelStep, AnswerStep DEF ChatNext
<1>. QED  BY <1>1, <1>2

LEMMA ChatInvHolds == ChatIInv => ChatHolds
<1>. SUFFICES ASSUME ChatIInv PROVE ChatHolds
  OBVIOUS
<1>1. ChatTypeOK
  BY DEF ChatIInv
<1>2. HistoryFits
  <2>1. SUFFICES ASSUME NEW q \in ChatQuestions, prompt[q].pc = "model"
                 PROVE  LET history == prompt[q].history
                        IN  /\ Len(history) <= HistoryLimit /\ Chars(history) <= HistoryChars
                            /\ \A i \in DOMAIN history : history[i].chat
                            /\ \A i \in 1 .. Len(history) - 1 :
                                 \E k \in Places(history)[i], m \in Places(history)[i + 1] : k < m
    BY DEF HistoryFits
  <2>. DEFINE history == prompt[q].history
  <2>2. HistoryFitsIn(history, log) /\ history \in Seq(Messages)
    BY <2>1, PromptIs DEF PromptFits, PromptType
  <2>. HIDE DEF history
  <2>3. ASSUME NEW i \in 1 .. Len(history) - 1
        PROVE  \E k \in Places(history)[i], m \in Places(history)[i + 1] : k < m
    <3>1. PICK k \in DOMAIN log, m \in DOMAIN log : k < m /\ log[k] = history[i] /\ log[m] = history[i + 1]
      BY <2>2 DEF HistoryFitsIn, InOrderOf
    <3>2. i \in DOMAIN history /\ i + 1 \in DOMAIN history
      BY <2>2
    <3>3. k \in Places(history)[i] /\ m \in Places(history)[i + 1]
      BY <3>1, <3>2 DEF Places
    <3>. QED  BY <3>1, <3>3
  <2>. QED  BY <2>2, <2>3 DEF HistoryFitsIn, history
<1>3. LeavesNothingOut
  BY <1>1, ChosenIs DEF LeavesNothingOut
<1>4. MemoryIsAskedFor
  <2>1. SUFFICES ASSUME NEW q \in ChatQuestions, prompt[q].memory # {}
                 PROVE  LET text == NormalInput(prompt[q].skill, prompt[q].text)
                        IN  Mode # "off" /\ ~text.slash /\ (Mode = "heuristic" => text.trigger \/ ~text.command)
    BY DEF MemoryIsAskedFor
  <2>2. ShouldRetrieve(NormalInput(prompt[q].skill, prompt[q].text))
    BY <2>1, PromptIs DEF PromptFits
  <2>. QED  BY <2>2 DEF ShouldRetrieve
<1>5. AnswerKept
  BY PromptIs DEF AnswerKept, PromptFits
<1>6. Cardinality(Lost) + Cardinality(Spent) <= faults /\ faults \in Nat
  BY PromptIs DEF ChatIInv, Costs, FaultsTypeOK
<1>7. MemoryCostsOnlyTime
  <2>. DEFINE spent == {m \in Missed : ~OfRequest(m)}
  <2>1. Unanswered \subseteq Lost
    BY DEF Unanswered, Lost, LosesAnswer, NoAnswer
  <2>2. spent = Spent
    BY DEF Missed, OfRequest, Spent, LostTo
  <2>3. Cardinality(Unanswered) <= Cardinality(Lost)
    BY <2>1, LossesAre, FS_Subset
  <2>4. Cardinality(Unanswered) \in Nat /\ Cardinality(Lost) \in Nat /\ Cardinality(Spent) \in Nat
    BY <2>1, LossesAre, FS_Subset, FS_CardinalityType
  <2>. QED  BY <1>6, <2>2, <2>3, <2>4 DEF MemoryCostsOnlyTime
<1>. QED  BY <1>2, <1>3, <1>4, <1>5, <1>7 DEF ChatHolds, ChatIInv

\* However many questions a chat has at once and whatever fails: what the agent's
\* skill is asked is put to the model once unless the log has it redacted, with a
\* history within its limits and in order from which nothing that fits is left
\* out; memory is asked for and costs an answer only by the time of the agent's
\* request; answers are cut (chat/skill.go, memory/gate.go, core/agent.go).
THEOREM PromptKept == ChatSpec => []ChatHolds
BY ChatInitially, ChatStep, ChatInvHolds, PTL DEF ChatSpec

-------------------------------------------------------------------------------
(* ChunkText: wherever it stands, the words that are in no chunk yet are one    *)
(* passage that begins where the last chunk ends. First, passages, and the      *)
(* lines, paragraphs and blocks that they are the words of.                     *)

LEMMA PassageFacts ==
  ASSUME NEW a \in Nat \ {0}, NEW b \in Nat, a <= b
  PROVE  /\ Passage(a, b) \in Seq(Nat) /\ Len(Passage(a, b)) = b - a + 1
         /\ \A i \in 1 .. b - a + 1 : Passage(a, b)[i] = a + i - 1
         /\ Passage(a, b) # <<>> /\ Passage(a, b)[1] = a /\ Passage(a, b)[Len(Passage(a, b))] = b
<1>1. b - a + 1 \in Nat
  OBVIOUS
<1>2. \A i \in 1 .. b - a + 1 : Passage(a, b)[i] = a + i - 1 /\ a + i - 1 \in Nat
  BY DEF Passage
<1>3. Passage(a, b) \in Seq(Nat) /\ Len(Passage(a, b)) = b - a + 1
  BY <1>1, <1>2 DEF Passage
<1>. QED  BY <1>2, <1>3

\* Two passages that meet are one.
LEMMA PassagesJoin ==
  ASSUME NEW a \in Nat \ {0}, NEW b \in Nat, NEW c \in Nat, a <= b, b < c
  PROVE  Passage(a, b) \o Passage(b + 1, c) = Passage(a, c)
<1>. DEFINE s == Passage(a, b)  t == Passage(b + 1, c)  u == Passage(a, c)
<1>1. s \in Seq(Nat) /\ Len(s) = b - a + 1 /\ \A i \in 1 .. b - a + 1 : s[i] = a + i - 1
  BY PassageFacts
<1>2. t \in Seq(Nat) /\ Len(t) = c - b /\ \A i \in 1 .. c - b : t[i] = b + i
  <2>. b + 1 \in Nat \ {0} /\ b + 1 <= c
    OBVIOUS
  <2>1. t \in Seq(Nat) /\ Len(t) = c - (b + 1) + 1 /\ \A i \in 1 .. c - (b + 1) + 1 : t[i] = b + 1 + i - 1
    BY PassageFacts
  <2>. QED  BY <2>1
<1>3. u \in Seq(Nat) /\ Len(u) = c - a + 1 /\ \A i \in 1 .. c - a + 1 : u[i] = a + i - 1
  <2>1. a <= c
    OBVIOUS
  <2>. QED  BY <2>1, PassageFacts
<1>. HIDE DEF s, t, u
<1>4. /\ s \o t \in Seq(Nat) /\ Len(s \o t) = Len(s) + Len(t)
      /\ \A i \in 1 .. Len(s) + Len(t) : (s \o t)[i] = IF i <= Len(s) THEN s[i] ELSE t[i - Len(s)]
  BY <1>1, <1>2, ConcatProperties
<1>5. Len(s \o t) = Len(u) /\ Len(s \o t) = c - a + 1
  BY <1>1, <1>2, <1>3, <1>4
<1>6. ASSUME NEW i \in 1 .. Len(s \o t)
      PROVE  (s \o t)[i] = u[i]
  <2>1. i \in 1 .. c - a + 1 /\ u[i] = a + i - 1
    BY <1>3, <1>5
  <2>2. CASE i <= b - a + 1
    <3>1. i \in 1 .. b - a + 1 /\ (s \o t)[i] = s[i]
      BY <1>1, <1>2, <1>4, <2>1, <2>2
    <3>. QED  BY <1>1, <2>1, <3>1
  <2>3. CASE i > b - a + 1
    <3>1. i - (b - a + 1) \in 1 .. c - b /\ (s \o t)[i] = t[i - (b - a + 1)]
      <4>1. i - (b - a + 1) \in 1 .. c - b
        BY <2>1, <2>3
      <4>2. Len(s) = b - a + 1 /\ Len(t) = c - b
        BY <1>1, <1>2
      <4>3. i \in 1 .. Len(s) + Len(t) /\ ~(i <= Len(s))
        BY <2>1, <2>3, <4>2
      <4>. QED  BY <1>4, <4>1, <4>2, <4>3
    <3>. QED  BY <1>2, <2>1, <3>1
  <2>. QED  BY <2>1, <2>2, <2>3
<1>7. s \o t = u
  BY <1>3, <1>4, <1>5, <1>6, SeqEqual
<1>. QED  BY <1>7 DEF s, t, u

LEMMA PassageEnd ==
  ASSUME NEW a \in Nat \ {0}, NEW c \in Nat, a <= c, NEW k \in 1 .. c - a + 1
  PROVE  LET words == Passage(a, c)
         IN  SubSeq(words, Len(words) - k + 1, Len(words)) = Passage(c - k + 1, c)
<1>. DEFINE words == Passage(a, c)  n == c - a + 1  s == SubSeq(words, n - k + 1, n)  t == Passage(c - k + 1, c)
<1>1. words \in Seq(Nat) /\ Len(words) = n /\ \A i \in 1 .. n : words[i] = a + i - 1
  BY PassageFacts
<1>2. t \in Seq(Nat) /\ Len(t) = k /\ \A i \in 1 .. k : t[i] = c - k + i
  <2>. c - k + 1 \in Nat \ {0} /\ c - k + 1 <= c
    OBVIOUS
  <2>1. /\ t \in Seq(Nat) /\ Len(t) = c - (c - k + 1) + 1
        /\ \A i \in 1 .. c - (c - k + 1) + 1 : t[i] = c - k + 1 + i - 1
    BY PassageFacts
  <2>. QED  BY <2>1
<1>3. s \in Seq(Nat) /\ Len(s) = k /\ \A i \in 1 .. k : s[i] = words[n - k + i]
  <2>1. n - k + 1 \in Int /\ n \in Int /\ \A i \in n - k + 1 .. n : words[i] \in Nat
    BY <1>1
  <2>2. /\ s \in Seq(Nat) /\ Len(s) = IF n - k + 1 <= n THEN n - (n - k + 1) + 1 ELSE 0
        /\ \A i \in 1 .. n - (n - k + 1) + 1 : s[i] = words[n - k + 1 + i - 1]
    BY <2>1, SubSeqProperties
  <2>. QED  BY <2>2
<1>4. \A i \in 1 .. k : s[i] = t[i]
  BY <1>1, <1>2, <1>3
<1>5. s = t
  BY <1>2, <1>3, <1>4, SeqEqual
<1>. QED  BY <1>1, <1>5

-------------------------------------------------------------------------------
(* Lines and blocks. *)

LEMMA StartsBehind ==
  ASSUME NEW f \in Nat, NEW p \in Nat, NEW e \in Nat, f <= p, p < e
  PROVE  p + 1 \in Nat \ {0} /\ f <= p + 1 /\ p + 1 <= e
OBVIOUS

LEMMA PartFacts ==
  ASSUME NEW part, part.first \in Nat \ {0}, part.ends \in Seq(Nat), Ordered(part)
  PROVE  /\ Len(part.ends) \in Nat /\ DOMAIN part.ends = 1 .. Len(part.ends)
         /\ Behind(part) \in Nat \ {0} /\ part.first <= Behind(part)
         /\ part.ends = <<>> => Behind(part) = part.first
         /\ part.ends # <<>> =>
              Behind(part) = part.ends[Len(part.ends)] + 1 /\ part.first < Behind(part) /\ Len(part.ends) > 0
         /\ Begin(part, 1) = part.first
         /\ \A k \in 1 .. Len(part.ends) :
              /\ Begin(part, k) \in Nat \ {0} /\ part.first <= Begin(part, k) /\ Begin(part, k) <= part.ends[k]
              /\ part.ends[k] \in Nat /\ part.ends[k] < Behind(part) /\ Begin(part, k + 1) = part.ends[k] + 1
<1>. DEFINE n == Len(part.ends)
<1>1. n \in Nat /\ DOMAIN part.ends = 1 .. n /\ \A k \in 1 .. n : part.ends[k] \in Nat
  OBVIOUS
<1>2. \A k \in 1 .. n : part.first <= part.ends[k] /\ \A j \in 1 .. k - 1 : part.ends[j] < part.ends[k]
  BY <1>1 DEF Ordered
<1>3. Begin(part, 1) = part.first /\ \A k \in 1 .. n : Begin(part, k + 1) = part.ends[k] + 1
  BY <1>1 DEF Begin
<1>. HIDE DEF n
<1>4. CASE n = 0
  <2>1. part.ends = <<>>
    BY <1>4 DEF n
  <2>. QED  BY <1>1, <1>3, <1>4, <2>1 DEF Behind, n
<1>5. CASE n > 0
  <2>1. part.ends # <<>> /\ n \in 1 .. n
    BY <1>1, <1>5 DEF n
  <2>2. Behind(part) = part.ends[n] + 1
    BY <1>3, <2>1 DEF Behind, n
  <2>3. ASSUME NEW k \in 1 .. n
        PROVE  /\ Begin(part, k) \in Nat \ {0} /\ part.first <= Begin(part, k) /\ Begin(part, k) <= part.ends[k]
               /\ part.ends[k] < Behind(part)
    <3>1. part.ends[k] < Behind(part)
      <4>1. CASE k = n
        BY <1>1, <2>1, <2>2, <4>1
      <4>2. CASE k < n
        BY <1>1, <1>2, <2>1, <2>2, <4>2
      <4>. QED  BY <1>1, <4>1, <4>2
    <3>2. CASE k = 1
      BY <1>1, <1>2, <1>3, <3>1, <3>2
    <3>3. CASE k > 1
      <4>1. k - 1 \in 1 .. n /\ k - 1 \in 1 .. k - 1 /\ Begin(part, k) = part.ends[k - 1] + 1
        BY <1>1, <3>3 DEF Begin
      <4>2. /\ part.ends[k - 1] \in Nat /\ part.first <= part.ends[k - 1]
            /\ part.ends[k] \in Nat /\ part.ends[k - 1] < part.ends[k] /\ part.first \in Nat
        BY <1>1, <1>2, <4>1
      <4>3. /\ part.ends[k - 1] + 1 \in Nat \ {0} /\ part.first <= part.ends[k - 1] + 1
            /\ part.ends[k - 1] + 1 <= part.ends[k]
        BY <4>2, StartsBehind
      <4>4. Begin(part, k) \in Nat \ {0} /\ part.first <= Begin(part, k) /\ Begin(part, k) <= part.ends[k]
        BY <4>1, <4>3, Zenon
      <4>. QED  BY <3>1, <4>4, Zenon
    <3>. QED  BY <1>1, <3>1, <3>2, <3>3
  <2>4. Behind(part) \in Nat \ {0} /\ part.first < Behind(part)
    BY <1>1, <1>2, <2>1, <2>2
  <2>. QED  BY <1>1, <1>3, <1>5, <2>1, <2>2, <2>3, <2>4 DEF n
<1>. QED  BY <1>1, <1>4, <1>5 DEF n

Climbs(s, n, first) == \A k \in 1 .. n : s[k] \in Nat /\ first <= s[k] /\ \A j \in 1 .. k - 1 : s[j] < s[k]
Below(x, m, y, n) == \A k \in 1 .. n : \A j \in 1 .. m : x[j] < y[k]
Meets(x, m, y, n, z) == \A i \in 1 .. m + n : z[i] = IF i <= m THEN x[i] ELSE y[i - m]
LEMMA RisingTogether ==
  ASSUME NEW m \in Nat \ {0}, NEW n \in Nat \ {0}, NEW x, NEW y, NEW z, NEW f \in Nat,
         Climbs(x, m, f), Climbs(y, n, f), Below(x, m, y, n), Meets(x, m, y, n, z)
  PROVE  \A k \in 1 .. m + n : f <= z[k] /\ \A j \in 1 .. k - 1 : z[j] < z[k]
<1>. TAKE k \in 1 .. m + n
<1>. USE DEF Climbs, Below, Meets
<1>1. CASE k <= m
  <2>1. k \in 1 .. m /\ z[k] = x[k]
    BY <1>1
  <2>2. ASSUME NEW j \in 1 .. k - 1
        PROVE  z[j] < z[k]
    <3>1. j \in 1 .. m /\ j \in 1 .. m + n /\ j <= m
      BY <1>1
    <3>. QED  BY <2>1, <3>1
  <2>. QED  BY <2>1, <2>2
<1>2. CASE k > m
  <2>1. k - m \in 1 .. n /\ z[k] = y[k - m]
    BY <1>2
  <2>2. ASSUME NEW j \in 1 .. k - 1
        PROVE  z[j] < z[k]
    <3>1. CASE j <= m
      <4>1. j \in 1 .. m /\ z[j] = x[j]
        BY <3>1
      <4>. QED  BY <2>1, <4>1
    <3>2. CASE j > m
      <4>1. j - m \in 1 .. (k - m) - 1 /\ z[j] = y[j - m]
        BY <3>2
      <4>. QED  BY <2>1, <4>1
    <3>. QED  BY <3>1, <3>2
  <2>. QED  BY <2>1, <2>2
<1>. QED  BY <1>1, <1>2

\* A paragraph goes on with the next line.
LEMMA PartsMeet ==
  ASSUME NEW a, a.first \in Nat \ {0}, a.ends \in Seq(Nat), Ordered(a),
         NEW b, b.first \in Nat \ {0}, b.ends \in Seq(Nat), Ordered(b),
         a.ends # <<>>, b.ends # <<>>, b.first = Behind(a),
         NEW c, c.first = a.first, c.ends \in Seq(Nat), Len(c.ends) = Len(a.ends) + Len(b.ends),
         \A i \in 1 .. Len(a.ends) + Len(b.ends) :
           c.ends[i] = IF i <= Len(a.ends) THEN a.ends[i] ELSE b.ends[i - Len(a.ends)]
  PROVE  c.ends # <<>> /\ Ordered(c) /\ Behind(c) = Behind(b)
<1>. DEFINE m == Len(a.ends)  n == Len(b.ends)
<1>0. /\ c.ends \in Seq(Nat) /\ Len(c.ends) = m + n
      /\ \A i \in 1 .. m + n : c.ends[i] = IF i <= m THEN a.ends[i] ELSE b.ends[i - m]
  OBVIOUS
<1>1. /\ m \in Nat \ {0} /\ Behind(a) = a.ends[m] + 1 /\ \A k \in 1 .. m : a.ends[k] \in Nat
      /\ \A k \in 1 .. m : a.first <= a.ends[k] /\ a.ends[k] < Behind(a)
      /\ \A k \in 1 .. m : \A j \in 1 .. k - 1 : a.ends[j] < a.ends[k]
  <2>1. \A k \in 1 .. m : a.first <= a.ends[k] /\ \A j \in 1 .. k - 1 : a.ends[j] < a.ends[k]
    <3>1. DOMAIN a.ends = 1 .. m
      OBVIOUS
    <3>. HIDE DEF m
    <3>. QED  BY <3>1 DEF Ordered
  <2>. QED  BY <2>1, PartFacts
<1>2. /\ n \in Nat \ {0} /\ Behind(b) = b.ends[n] + 1 /\ \A k \in 1 .. n : b.ends[k] \in Nat
      /\ \A k \in 1 .. n : b.first <= b.ends[k]
      /\ \A k \in 1 .. n : \A j \in 1 .. k - 1 : b.ends[j] < b.ends[k]
  <2>1. \A k \in 1 .. n : b.first <= b.ends[k] /\ \A j \in 1 .. k - 1 : b.ends[j] < b.ends[k]
    <3>1. DOMAIN b.ends = 1 .. n
      OBVIOUS
    <3>. HIDE DEF n
    <3>. QED  BY <3>1 DEF Ordered
  <2>. QED  BY <2>1, PartFacts
<1>. HIDE DEF m, n
<1>3. \A k \in 1 .. m + n : c.first <= c.ends[k] /\ \A j \in 1 .. k - 1 : c.ends[j] < c.ends[k]
  <2>. DEFINE x == a.ends  y == b.ends  z == c.ends  f == a.first
  <2>0. m \in 1 .. m /\ f <= b.first /\ b.first \in Nat /\ \A j \in 1 .. m : x[j] < b.first
    <3>1. m \in 1 .. m /\ b.first = Behind(a) /\ b.first \in Nat /\ f \in Nat
      BY <1>1
    <3>2. \A j \in 1 .. m : f <= x[j] /\ x[j] < b.first /\ x[j] \in Nat
      BY <1>1, <3>1
    <3>. HIDE DEF f, x
    <3>3. f <= x[m] /\ x[m] < b.first /\ x[m] \in Nat
      BY <3>1, <3>2, Zenon
    <3>4. f <= b.first
      BY <3>1, <3>3
    <3>. QED  BY <3>1, <3>2, <3>4, Zenon
  <2>1. ASSUME NEW k \in 1 .. n
        PROVE  f <= y[k] /\ \A j \in 1 .. m : x[j] < y[k]
    <3>1. b.first <= y[k] /\ y[k] \in Nat
      BY <1>2
    <3>2. f <= y[k]
      BY <2>0, <3>1
    <3>3. \A j \in 1 .. m : x[j] \in Nat /\ x[j] < b.first
      BY <1>1, <2>0
    <3>4. ASSUME NEW j \in 1 .. m
          PROVE  x[j] < y[k]
      <4>1. x[j] \in Nat /\ x[j] < b.first /\ b.first \in Nat
        BY <2>0, <3>3
      <4>. HIDE DEF x, y
      <4>. QED  BY <3>1, <4>1
    <3>. QED  BY <3>2, <3>4
  <2>2. (\A k \in 1 .. n : f <= y[k]) /\ \A k \in 1 .. n : \A j \in 1 .. m : x[j] < y[k]
    BY <2>1
  <2>. HIDE DEF x, y, z, f
  <2>3. /\ Climbs(x, m, f) /\ Climbs(y, n, f) /\ Below(x, m, y, n)
        /\ m \in Nat \ {0} /\ n \in Nat \ {0} /\ f \in Nat
    BY <1>1, <1>2, <2>2 DEF x, y, z, f, Climbs, Below
  <2>4. Meets(x, m, y, n, z)
    BY <1>0 DEF x, y, z, Meets
  <2>5. \A k \in 1 .. m + n : f <= z[k] /\ \A j \in 1 .. k - 1 : z[j] < z[k]
    BY <2>3, <2>4, RisingTogether
  <2>. QED  BY <2>5 DEF z, f
<1>5. Ordered(c)
  <2>1. DOMAIN c.ends = 1 .. m + n
    BY <1>0
  <2>. QED  BY <1>3, <2>1 DEF Ordered
<1>6. c.ends # <<>> /\ c.ends[m + n] = b.ends[n]
  <2>1. m + n \in 1 .. m + n /\ ~(m + n <= m) /\ (m + n) - m = n /\ m + n # 0
    BY <1>1, <1>2
  <2>. QED  BY <1>0, <2>1
<1>7. Behind(c) = c.ends[Len(c.ends)] + 1
  BY <1>0, <1>5, <1>6, PartFacts
<1>. QED  BY <1>0, <1>2, <1>5, <1>6, <1>7

\* The word that comes after some parts.
Follows(parts) == IF parts = <<>> THEN 1 ELSE Behind(parts[Len(parts)])
\* Blocks are parts, none of them blank, and each comes after those before it.
Textual(parts) == \A k \in DOMAIN parts : parts[k].level = 0 => parts[k].ends # <<>>
Rising(parts) == \A k \in DOMAIN parts : \A j \in 1 .. k - 1 : Behind(parts[j]) <= parts[k].first
Cohere(parts) == Numbered(parts) /\ Textual(parts) /\ Rising(parts)

LEMMA LineFacts ==
  ASSUME NEW parts \in Seq(Line), Numbered(parts), NEW k \in 1 .. Len(parts)
  PROVE  /\ parts[k] \in Line /\ parts[k].first \in Nat \ {0} /\ parts[k].ends \in Seq(Nat) /\ Ordered(parts[k])
         /\ Behind(parts[k]) \in Nat \ {0} /\ parts[k].first <= Behind(parts[k])
         /\ parts[k].first = IF k = 1 THEN 1 ELSE Behind(parts[k - 1])
<1>1. parts[k] \in Line /\ k \in DOMAIN parts
  OBVIOUS
<1>2. parts[k].first \in Nat \ {0} /\ parts[k].ends \in Seq(Nat)
  BY <1>1 DEF Line
<1>3. Ordered(parts[k]) /\ parts[k].first = IF k = 1 THEN 1 ELSE Behind(parts[k - 1])
  BY <1>1 DEF Numbered
<1>. QED  BY <1>1, <1>2, <1>3, PartFacts

LEMMA BlocksGrow ==
  ASSUME NEW parts \in Seq(Line), Cohere(parts),
         NEW part \in Line, part.first = Follows(parts), Ordered(part),
         part.level > 0 => part.ends = <<>>, part.level = 0 => part.ends # <<>>
  PROVE  /\ Append(parts, part) \in Seq(Line) /\ Cohere(Append(parts, part))
         /\ Follows(Append(parts, part)) = Behind(part)
<1>. DEFINE n == Len(parts)  grown == Append(parts, part)
<1>1. n \in Nat /\ DOMAIN parts = 1 .. n
  OBVIOUS
<1>2. /\ grown \in Seq(Line) /\ Len(grown) = n + 1 /\ DOMAIN grown = 1 .. n + 1 /\ grown # <<>>
      /\ \A k \in 1 .. n : grown[k] = parts[k]
      /\ grown[n + 1] = part
  BY AppendProperties
<1>. HIDE DEF grown
<1>3. ASSUME NEW k \in 1 .. n + 1
      PROVE  /\ grown[k].first = IF k = 1 THEN 1 ELSE Behind(grown[k - 1])
             /\ Ordered(grown[k])
             /\ grown[k].level > 0 => grown[k].ends = <<>>
             /\ grown[k].level = 0 => grown[k].ends # <<>>
             /\ \A j \in 1 .. k - 1 : Behind(grown[j]) <= grown[k].first
  <2>1. CASE k <= n
    <3>1. k \in DOMAIN parts /\ grown[k] = parts[k] /\ \A j \in 1 .. k - 1 : j \in 1 .. n /\ grown[j] = parts[j]
      BY <1>1, <1>2, <2>1
    <3>2. k > 1 => grown[k - 1] = parts[k - 1]
      BY <1>1, <1>2, <3>1
    <3>. QED  BY <1>1, <3>1, <3>2 DEF Cohere, Numbered, Textual, Rising
  <2>2. CASE k = n + 1
    <3>1. grown[k] = part
      BY <1>2, <2>2
    <3>2. part.first = IF k = 1 THEN 1 ELSE Behind(grown[k - 1])
      <4>1. CASE n = 0
        <5>1. parts = <<>>
          BY <4>1
        <5>. QED  BY <2>2, <4>1, <5>1 DEF Follows
      <4>2. CASE n > 0
        <5>1. parts # <<>> /\ grown[k - 1] = parts[n] /\ k # 1
          BY <1>1, <1>2, <2>2, <4>2
        <5>. QED  BY <5>1 DEF Follows
      <4>. QED  BY <1>1, <4>1, <4>2
    <3>3. ASSUME NEW j \in 1 .. k - 1
          PROVE  Behind(grown[j]) <= part.first
      <4>1. j \in 1 .. n /\ n \in 1 .. n /\ grown[j] = parts[j] /\ parts # <<>>
        BY <1>1, <1>2, <2>2
      <4>2. part.first = Behind(parts[n])
        BY <4>1 DEF Follows
      <4>3. /\ Behind(parts[n]) \in Nat /\ parts[n].first <= Behind(parts[n]) /\ Behind(parts[j]) \in Nat
            /\ parts[n].first \in Nat
        BY <4>1, LineFacts DEF Cohere
      <4>4. j < n => Behind(parts[j]) <= parts[n].first
        BY <1>1, <4>1 DEF Cohere, Rising
      <4>. QED  BY <1>1, <4>1, <4>2, <4>3, <4>4
    <3>. QED  BY <3>1, <3>2, <3>3
  <2>. QED  BY <1>1, <2>1, <2>2
<1>4. Cohere(grown)
  BY <1>2, <1>3 DEF Cohere, Numbered, Textual, Rising
<1>5. Follows(grown) = Behind(part)
  BY <1>2 DEF Follows
<1>. QED  BY <1>2, <1>4, <1>5 DEF grown

-------------------------------------------------------------------------------
(* What always holds of the chunker. *)

\* The last word of a text, and of the chunks.
LastOf(text) == text.words[Len(text.words)]
Reached == Ends(Len(chunks))
\* A text reads the document up to its word last.
Reads(text, last) ==
  /\ text.words # <<>> /\ text.words[1] \in 1 .. last
  /\ text.words = Passage(text.words[1], last)

\* While the lines are looked at: what was gathered is what came since the blocks.
ReadTo == IF seen = 0 THEN 1 ELSE Behind(document.lines[seen])
Gathering ==
  /\ seen <= Len(document.lines) /\ chunks = <<>> /\ current = EmptyText /\ curTok = 0
  /\ heading = <<>> /\ lastTail = EmptyText
  /\ gathered.ends = <<>> => Follows(blocks) = ReadTo
  /\ gathered.ends # <<>> => Ordered(gathered) /\ gathered.first = Follows(blocks) /\ Behind(gathered) = ReadTo

\* Every chunk reads on from the one before, and so do the tail, the chunk being
\* filled and, in pieces, the paragraph that is cut.
Consumed == IF seen = 0 THEN 0 ELSE Behind(blocks[seen]) - 1
Indexed ==
  \A i \in DOMAIN chunks :
    /\ Reads(chunks[i].text, Ends(i)) /\ chunks[i].text.words[1] <= Ends(i - 1) + 1
    /\ Ends(i - 1) < Ends(i)
Small(text) == text.runes <= 9 * (Target + Overlap + WordCost)
TailReads == lastTail # EmptyText => Reads(lastTail, Reached)
TailSmall ==
  /\ lastTail.runes + 2 <= 9 * (Overlap + WordCost - 1) \/ lastTail = EmptyText
  /\ WordCost > Target => lastTail.runes <= document.each
CutLoops == {"sentences", "words", "pieces"}
Filling ==
  /\ current = EmptyText <=> curTok = 0
  /\ loop = "blocks" /\ current = EmptyText => Reached = Consumed
  /\ loop = "blocks" /\ current # EmptyText =>
       Reads(current, Consumed) /\ Reached < Consumed /\ current.words[1] <= Reached + 1
  /\ loop \in CutLoops \cup {"over"} => current = EmptyText
  /\ current # EmptyText =>
       Small(current) /\ (curTok <= Target => current.runes + 2 <= 9 * curTok)
Upto(c) == IF c.pieces = <<>> THEN Reached ELSE LastOf(c.pieces[Len(c.pieces)])
PieceSmall(piece) == piece.runes + 2 <= 9 * Target \/ (WordCost > Target /\ piece.runes <= document.each)
Opened(c) ==
  /\ Reads(c.open, c.word - 1) /\ c.open.words[1] = Upto(c) + 1
  /\ PieceSmall(c.open) /\ c.open.runes + 2 <= 9 * c.cost
Pieced(c) ==
  /\ \A k \in DOMAIN c.pieces :
       /\ Reads(c.pieces[k], LastOf(c.pieces[k])) /\ PieceSmall(c.pieces[k])
       /\ c.pieces[k].words[1] = (IF k = 1 THEN Reached ELSE LastOf(c.pieces[k - 1])) + 1
       /\ LastOf(c.pieces[k]) < c.word
  /\ c.open = EmptyText <=> c.cost = 0
  /\ c.open = EmptyText => Upto(c) = c.word - 1
  /\ c.open # EmptyText => Opened(c)
Progress(c, now) ==
  LET block == blocks[seen]
  IN  /\ seen > 0 /\ block.level = 0 /\ ~NoneCut
      /\ c.sentence \in 1 .. Len(block.ends) + 1
      /\ now = "sentences" => c.word = Begin(block, c.sentence)
      /\ now = "words" =>
           /\ c.sentence <= Len(block.ends)
           /\ Begin(block, c.sentence) <= c.word /\ c.word <= block.ends[c.sentence] + 1
      /\ now = "pieces" => c.word = Behind(block) /\ c.open = EmptyText

\* The headings read, the last of which ends the path when levels are nested. What
\* is to come is under all of them.
HeadingsTo(s) == {k \in 1 .. s : blocks[k].level > 0}
Sectioned ==
  /\ Nested => Under(HeadingsTo(seen), heading)
  /\ HeadingsTo(seen) # {} => \E m \in HeadingsTo(seen) : \A k \in HeadingsTo(seen) : k <= m
  /\ \A k \in HeadingsTo(seen) :
       /\ blocks[k].first <= Reached + 1
       /\ NoneCut /\ current # EmptyText => blocks[k].first <= current.words[1]

\* What is said of the chunks, and of the end of the last.
ChunksFine ==
  /\ chunks \in Seq([text : SizedTexts, heading : Seq(Nat)]) /\ lastTail \in SizedTexts
  /\ Indexed /\ TailReads /\ TailSmall
  /\ (\A i \in DOMAIN chunks : Small(chunks[i].text)) /\ InSection

Chunking ==
  /\ Follows(blocks) = Follows(document.lines) /\ seen <= Len(blocks)
  /\ loop = "over" => seen = Len(blocks) /\ Reached = Consumed
  /\ ChunksFine /\ Filling /\ Sectioned
  /\ loop \in CutLoops => Pieced(cut) /\ Progress(cut, loop)
ChunksInv ==
  /\ ChunksTypeOK /\ document \in Documents /\ Cohere(blocks)
  /\ IF loop = "lines" THEN Gathering ELSE Chunking

LEMMA ReadsPassage ==
  ASSUME NEW text, NEW a \in Nat \ {0}, NEW b \in Nat, a <= b, text.words = Passage(a, b)
  PROVE  Reads(text, b) /\ text.words[1] = a /\ LastOf(text) = b /\ text.words \in Seq(Nat)
<1>1. /\ text.words \in Seq(Nat) /\ text.words # <<>> /\ text.words[1] = a
      /\ text.words[Len(text.words)] = b
  <2>1. /\ Passage(a, b) \in Seq(Nat) /\ Passage(a, b) # <<>> /\ Passage(a, b)[1] = a
        /\ Passage(a, b)[Len(Passage(a, b))] = b
    BY PassageFacts
  <2>. QED  BY <2>1, Zenon
<1>. QED  BY <1>1 DEF Reads, LastOf

LEMMA ReadsFacts ==
  ASSUME NEW text, NEW last \in Nat, Reads(text, last)
  PROVE  /\ text.words[1] \in Nat \ {0} /\ text.words[1] <= last /\ last > 0
         /\ text.words = Passage(text.words[1], last) /\ text.words \in Seq(Nat)
         /\ LastOf(text) = last /\ Len(text.words) = last - text.words[1] + 1
         /\ \A k \in DOMAIN text.words : text.words[k] = text.words[1] + k - 1 /\ k \in 1 .. last - text.words[1] + 1
         /\ text # EmptyText
<1>. DEFINE a == text.words[1]
<1>1. a \in Nat \ {0} /\ a <= last /\ text.words = Passage(a, last) /\ text.words # <<>> /\ last > 0
  BY DEF Reads
<1>. HIDE DEF a
<1>2. /\ text.words \in Seq(Nat) /\ Len(text.words) = last - a + 1
      /\ \A k \in 1 .. last - a + 1 : text.words[k] = a + k - 1
      /\ text.words[Len(text.words)] = last
  <2>1. /\ Passage(a, last) \in Seq(Nat) /\ Len(Passage(a, last)) = last - a + 1
        /\ \A k \in 1 .. last - a + 1 : Passage(a, last)[k] = a + k - 1
        /\ Passage(a, last)[Len(Passage(a, last))] = last
    BY <1>1, PassageFacts
  <2>. QED  BY <1>1, <2>1, Zenon
<1>3. DOMAIN text.words = 1 .. last - a + 1
  BY <1>2
<1>4. text # EmptyText
  BY <1>1 DEF EmptyText
<1>. QED  BY <1>1, <1>2, <1>3, <1>4 DEF a, LastOf

\* What is joined reads on.
LEMMA JoinReads ==
  ASSUME NEW a \in SizedTexts, NEW b \in SizedTexts, NEW m \in Nat, NEW c \in Nat, NEW between \in Nat,
         Reads(b, c), a # EmptyText => Reads(a, m) /\ b.words[1] = m + 1
  PROVE  /\ Join(a, b, between) \in SizedTexts /\ Reads(Join(a, b, between), c)
         /\ a = EmptyText => Join(a, b, between) = b
         /\ a # EmptyText => /\ Join(a, b, between).words[1] = a.words[1]
                             /\ Join(a, b, between).runes = a.runes + between + b.runes
<1>1. CASE a = EmptyText
  BY <1>1 DEF Join
<1>2. CASE a # EmptyText
  <2>. DEFINE j == Join(a, b, between)
  <2>1. j = [words |-> a.words \o b.words, runes |-> a.runes + between + b.runes]
    BY <1>2 DEF Join
  <2>2. j.words = a.words \o b.words /\ j.runes = a.runes + between + b.runes /\ j.runes \in Nat
    <3>1. a.runes \in Nat /\ b.runes \in Nat
      BY DEF SizedTexts
    <3>2. a.runes + between + b.runes \in Nat
      BY <3>1
    <3>. HIDE DEF j
    <3>3. j.words = a.words \o b.words /\ j.runes = a.runes + between + b.runes
      BY <2>1
    <3>. QED  BY <3>2, <3>3, Zenon
  <2>3. a.words = Passage(a.words[1], m) /\ a.words[1] \in Nat \ {0} /\ a.words[1] <= m
    BY <1>2, ReadsFacts
  <2>4. b.words = Passage(m + 1, c) /\ m < c
    BY <1>2, ReadsFacts
  <2>5. a.words \o b.words = Passage(a.words[1], c)
    <3>. DEFINE first == a.words[1]
    <3>. HIDE DEF first
    <3>1. Passage(first, m) \o Passage(m + 1, c) = Passage(first, c)
      BY <2>3, <2>4, PassagesJoin DEF first
    <3>. QED  BY <2>3, <2>4, <3>1 DEF first
  <2>6. a.words[1] <= c
    BY <2>3, <2>4
  <2>7. Reads(j, c) /\ j.words[1] = a.words[1] /\ j.words \in Seq(Nat)
    BY <2>2, <2>3, <2>5, <2>6, ReadsPassage
  <2>8. j \in SizedTexts
    BY <2>1, <2>2, <2>7 DEF SizedTexts
  <2>. QED  BY <1>2, <2>2, <2>7, <2>8
<1>. QED  BY <1>1, <1>2

LEMMA WordFacts ==
  ASSUME document.each \in Nat \ {0}
  PROVE  /\ WordCost \in Nat \ {0} /\ document.each <= 4 * WordCost + 3
         /\ \A n \in Nat \ {0} : Runes(n) \in Nat /\ Runes(n) + 2 <= 9 * (n * WordCost)
         /\ Runes(1) = document.each
<1>1. WordCost \in Nat \ {0} /\ document.each <= 4 * WordCost + 3
  BY DEF WordCost, Most
<1>2. ASSUME NEW n \in Nat \ {0}
      PROVE  Runes(n) \in Nat /\ Runes(n) + 2 <= 9 * (n * WordCost)
  <2>. DEFINE e == document.each  w == WordCost
  <2>1. e \in Nat /\ w \in Nat /\ e <= 4 * w + 3 /\ w >= 1 /\ n >= 1
    BY <1>1
  <2>. HIDE DEF e, w
  <2>2. n * e \in Nat /\ n * w \in Nat /\ n * e <= n * (4 * w + 3) /\ n <= n * w
    BY <2>1
  <2>3. n * (4 * w + 3) = 4 * (n * w) + 3 * n
    BY <2>1
  <2>4. Runes(n) = n * e + n - 1
    BY DEF Runes, e
  <2>. QED  BY <2>2, <2>3, <2>4 DEF w
<1>. QED  BY <1>1, <1>2 DEF Runes

LEMMA SpanFacts ==
  ASSUME document.each \in Nat \ {0}, NEW a \in Nat \ {0}, NEW b \in Nat, a <= b
  PROVE  /\ Span(a, b) \in SizedTexts /\ Reads(Span(a, b), b) /\ Span(a, b).words[1] = a
         /\ Span(a, b).runes = Runes(b - a + 1)
<1>1. b - a + 1 \in Nat \ {0}
  OBVIOUS
<1>2. Span(a, b).words = Passage(a, b) /\ Span(a, b).runes = Runes(b - a + 1)
  BY DEF Span
<1>3. Reads(Span(a, b), b) /\ Span(a, b).words[1] = a /\ Span(a, b).words \in Seq(Nat)
  BY <1>2, ReadsPassage
<1>4. Runes(b - a + 1) \in Nat
  BY <1>1, WordFacts
<1>. QED  BY <1>2, <1>3, <1>4 DEF Span, SizedTexts

LEMMA CostFacts ==
  ASSUME NEW text \in SizedTexts
  PROVE  /\ CostOf(text) \in Nat /\ CostOf(EmptyText) = 0
         /\ text.words # <<>> => CostOf(text) > 0 /\ text.runes + 2 <= 9 * CostOf(text)
         /\ text.words # <<>> => 4 * CostOf(text) <= text.runes \/ CostOf(text) = 1
BY DEF CostOf, SizedTexts, EmptyText, Most

LEMMA OverlapFacts ==
  Target \in Nat \ {0} /\ Overlap \in Nat /\ Overlap < Target
BY ChunksAssumption DEF Overlap

LEMMA TailFacts ==
  ASSUME document.each \in Nat \ {0}, NEW text \in SizedTexts, NEW last \in Nat, Reads(text, last)
  PROVE  LET tail == TailTokens(text, Overlap)
         IN  /\ tail \in SizedTexts
             /\ tail # EmptyText => Reads(tail, last) /\ text.words[1] <= tail.words[1]
             /\ tail.runes + 2 <= 9 * (Overlap + WordCost - 1) \/ tail = EmptyText
             /\ WordCost > Target => tail.runes <= document.each
<1>. DEFINE tail == TailTokens(text, Overlap)
<1>0. EmptyText \in SizedTexts /\ EmptyText.runes = 0
  BY DEF EmptyText, SizedTexts
<1>1. CASE Overlap = 0
  BY <1>0, <1>1 DEF TailTokens
<1>2. CASE Overlap # 0
  <2>. DEFINE n == Overlap  w == WordCost  enough == (n + w - 1) \div w  len == Len(text.words)
              k == IF enough < len THEN enough ELSE len
              a == text.words[1]
  <2>1. n \in Nat \ {0} /\ w \in Nat \ {0} /\ n < Target /\ Target \in Nat
    BY <1>2, OverlapFacts, WordFacts
  <2>2. /\ a \in Nat \ {0} /\ a <= last /\ text.words = Passage(a, last) /\ len = last - a + 1
    BY ReadsFacts
  <2>3. tail = [words |-> SubSeq(text.words, len - k + 1, len), runes |-> Runes(k)]
    BY <1>2 DEF TailTokens
  <2>. HIDE DEF n, w, len, a, tail
  <2>4. enough \in Nat /\ w * enough <= n + w - 1 /\ n + w - 1 < w * enough + w
    <3>1. n + w - 1 \in Nat
      BY <2>1
    <3>. DEFINE top == n + w - 1
    <3>. HIDE DEF top
    <3>2. top \div w \in Nat /\ w * (top \div w) <= top /\ top < w * (top \div w) + w
      BY <2>1, <3>1 DEF top
    <3>. QED  BY <3>2 DEF top
  <2>5. enough >= 1
    <3>1. CASE enough = 0
      BY <2>1, <2>4, <3>1
    <3>. QED  BY <2>4, <3>1
  <2>. HIDE DEF enough
  <2>6. k \in 1 .. len /\ k <= enough
    BY <2>2, <2>4, <2>5
  <2>7. w * k <= w * enough
    BY <2>1, <2>4, <2>6
  <2>. HIDE DEF k
  <2>8. k \in Nat \ {0} /\ Runes(k) \in Nat /\ Runes(k) + 2 <= 9 * (n + w - 1)
    <3>1. k \in Nat \ {0} /\ len \in Nat
      BY <2>2, <2>6
    <3>2. Runes(k) \in Nat /\ Runes(k) + 2 <= 9 * (k * w)
      BY <3>1, WordFacts DEF w
    <3>3. k * w = w * k /\ k * w \in Nat
      BY <2>1, <3>1
    <3>. QED  BY <2>1, <2>4, <2>7, <3>1, <3>2, <3>3
  <2>9. w > Target => Runes(k) <= document.each
    <3>. SUFFICES ASSUME w > Target PROVE Runes(k) <= document.each
      OBVIOUS
    <3>1. n + w - 1 < w * 2
      BY <2>1
    <3>2. ~(enough >= 2)
      <4>1. enough >= 2 => w * enough >= w * 2
        BY <2>1, <2>4
      <4>2. w * enough \in Nat /\ w * 2 \in Nat
        BY <2>1, <2>4
      <4>. QED  BY <2>1, <2>4, <3>1, <4>1, <4>2
    <3>3. k = 1
      BY <2>2, <2>4, <2>6, <3>2
    <3>. QED  BY <3>3, WordFacts
  <2>10. tail.words = Passage(last - k + 1, last)
    <3>1. k \in 1 .. last - a + 1
      BY <2>2, <2>6
    <3>2. SubSeq(text.words, len - k + 1, len) = Passage(last - k + 1, last)
      <4>. DEFINE words == Passage(a, last)
      <4>1. SubSeq(words, Len(words) - k + 1, Len(words)) = Passage(last - k + 1, last)
        BY <2>2, <3>1, PassageEnd
      <4>2. text.words = words /\ len = Len(words)
        BY <2>2 DEF len
      <4>. HIDE DEF words
      <4>. QED  BY <4>1, <4>2
    <3>. QED  BY <2>3, <3>2
  <2>11. last - k + 1 \in Nat \ {0} /\ last - k + 1 <= last /\ a <= last - k + 1
    BY <2>2, <2>6
  <2>12. Reads(tail, last) /\ tail.words[1] = last - k + 1 /\ tail.words \in Seq(Nat)
    BY <2>10, <2>11, ReadsPassage
  <2>13. tail \in SizedTexts /\ tail.runes = Runes(k)
    BY <2>3, <2>8, <2>12 DEF SizedTexts
  <2>14. text.words[1] <= tail.words[1]
    BY <2>11, <2>12 DEF a
  <2>15. tail.runes + 2 <= 9 * (Overlap + WordCost - 1) /\ (WordCost > Target => tail.runes <= document.each)
    BY <2>8, <2>9, <2>13 DEF n, w
  <2>. QED  BY <2>12, <2>13, <2>14, <2>15 DEF tail
<1>. QED  BY <1>1, <1>2

-------------------------------------------------------------------------------
(* A chunk is emitted. *)

LEMMA SentFacts ==
  ASSUME chunks \in Seq([text : SizedTexts, heading : Seq(Nat)]), Indexed
  PROVE  /\ Len(chunks) \in Nat /\ DOMAIN chunks = 1 .. Len(chunks) /\ Reached \in Nat
         /\ \A i \in 0 .. Len(chunks) : Ends(i) \in Nat
         /\ \A i \in 1 .. Len(chunks) :
              /\ chunks[i].text \in SizedTexts /\ Ends(i) = LastOf(chunks[i].text)
              /\ chunks[i].text.words \in Seq(Nat) /\ Reads(chunks[i].text, Ends(i))
<1>1. Len(chunks) \in Nat /\ DOMAIN chunks = 1 .. Len(chunks)
  OBVIOUS
<1>2. ASSUME NEW i \in 1 .. Len(chunks)
      PROVE  /\ Ends(i) \in Nat /\ chunks[i].text \in SizedTexts /\ Ends(i) = LastOf(chunks[i].text)
             /\ chunks[i].text.words \in Seq(Nat) /\ Reads(chunks[i].text, Ends(i))
  <2>0. i # 0 /\ i \in DOMAIN chunks
    BY <1>1
  <2>1. chunks[i] \in [text : SizedTexts, heading : Seq(Nat)] /\ i # 0 /\ i \in DOMAIN chunks
    BY <2>0, ElementType, Zenon
  <2>2. Reads(chunks[i].text, Ends(i)) /\ Ends(i) = LastOf(chunks[i].text)
    BY <2>1 DEF Indexed, Ends, LastOf
  <2>3. chunks[i].text.words # <<>> /\ chunks[i].text.words \in Seq(Nat) /\ chunks[i].text \in SizedTexts
    BY <2>1, <2>2 DEF SizedTexts, Reads
  <2>4. LastOf(chunks[i].text) \in Nat
    <3>1. \A s \in Seq(Nat) : s # <<>> => s[Len(s)] \in Nat
      OBVIOUS
    <3>. QED  BY <2>3, <3>1, Zenon DEF LastOf
  <2>. QED  BY <2>2, <2>3, <2>4
<1>3. Ends(0) = 0
  BY DEF Ends
<1>4. \A i \in 0 .. Len(chunks) : Ends(i) \in Nat
  BY <1>1, <1>2, <1>3
<1>. QED  BY <1>1, <1>2, <1>4 DEF Reached

\* What is said of headings is said of the blocks alone.
LEMMA SameBlocks ==
  ASSUME blocks' = blocks, document' = document
  PROVE  /\ \A w, path : Under(Before(w), path)' <=> Under(Before(w), path)
         /\ \A s, path : Under(HeadingsTo(s), path)' <=> Under(HeadingsTo(s), path)
         /\ \A s : HeadingsTo(s)' = HeadingsTo(s)
         /\ WordCost' = WordCost /\ (NoneCut <=> NoneCut') /\ (Nested <=> Nested')
<1>1. \A w : Before(w)' = Before(w)
  BY DEF Before
<1>2. \A s : HeadingsTo(s)' = HeadingsTo(s)
  BY DEF HeadingsTo
<1>3. \A h : Standing(h)' = Standing(h)
  BY DEF Standing
<1>4. \A h, path : Under(h, path)' <=> Under(h, path)
  BY <1>3 DEF Under
<1>5. WordCost' = WordCost
  BY DEF WordCost
<1>6. Nested <=> Nested'
  BY DEF Nested
<1>7. NoneCut <=> NoneCut'
  BY DEF NoneCut, CostOf, BlockText, Span, Passage, Runes, Behind, Begin
<1>8. \A w, path : Under(Before(w), path)' <=> Under(Before(w), path)
  BY <1>1, <1>4
<1>9. \A s, path : Under(HeadingsTo(s), path)' <=> Under(HeadingsTo(s), path)
  BY <1>2, <1>4
<1>. QED  BY <1>2, <1>5, <1>6, <1>7, <1>8, <1>9

LEMMA Passes ==
  /\ \A first, r, w \in Nat : first <= r + 1 /\ w > r => first <= w
  /\ \A first, a, w \in Nat : first <= a /\ a <= w => first <= w
OBVIOUS

\* A text that reads on from the last chunk is a chunk like the others.
LEMMA Emission ==
  ASSUME ChunksTypeOK, document \in Documents, ChunksFine, UNCHANGED <<document, blocks>>,
         NEW text \in SizedTexts, NEW last \in Nat, Emits(text),
         Reads(text, last), text.words[1] <= Reached + 1, Reached < last, Small(text),
         Nested => Under(HeadingsTo(seen), heading), seen <= Len(blocks),
         \A k \in HeadingsTo(seen) :
           blocks[k].first <= Reached + 1 /\ (NoneCut => blocks[k].first <= text.words[1]),
         \A k \in DOMAIN blocks : k > seen => last < blocks[k].first
  PROVE  /\ ChunksFine' /\ Reached' = last
         /\ lastTail' # EmptyText => text.words[1] <= lastTail'.words[1]
         /\ lastTail' = TailTokens(text, Overlap)
<1>. DEFINE chunk == [text |-> text, heading |-> heading]
<1>0. PICK n \in Nat : n = Len(chunks)
  BY SentFacts DEF ChunksFine
<1>1. /\ n \in Nat /\ DOMAIN chunks = 1 .. n /\ \A i \in 0 .. n : Ends(i) \in Nat
      /\ \A i \in 1 .. n : chunks[i].text.words \in Seq(Nat)
      /\ Reached = Ends(n) /\ Reached \in Nat
  BY <1>0, SentFacts DEF ChunksFine, Reached
<1>2. chunk \in [text : SizedTexts, heading : Seq(Nat)]
  BY DEF ChunksTypeOK
<1>3. /\ chunks' = Append(chunks, chunk) /\ lastTail' = TailTokens(text, Overlap)
  BY DEF Emits
<1>4. /\ chunks' \in Seq([text : SizedTexts, heading : Seq(Nat)])
      /\ Len(chunks') = n + 1 /\ DOMAIN chunks' = 1 .. n + 1
      /\ \A i \in 1 .. n : chunks'[i] = chunks[i]
      /\ chunks'[n + 1] = chunk
  BY <1>0, <1>2, <1>3, AppendProperties DEF ChunksFine
<1>. HIDE DEF chunk
<1>5. chunks'[n + 1].text = text /\ chunks'[n + 1].heading = heading
  BY <1>4 DEF chunk
<1>6. LastOf(text) = last /\ text.words \in Seq(Nat) /\ text.words # <<>>
  BY ReadsFacts DEF Reads
<1>7. (\A i \in 0 .. n : Ends(i)' = Ends(i)) /\ Ends(n + 1)' = last
  <2>1. ASSUME NEW i \in 0 .. n
        PROVE  Ends(i)' = Ends(i)
    <3>1. i # 0 => i \in 1 .. n
      BY <1>1
    <3>. QED  BY <1>4, <3>1 DEF Ends
  <2>2. Ends(n + 1)' = last
    <3>1. n + 1 # 0 /\ LastOf(chunks'[n + 1].text) = last
      BY <1>0, <1>5, <1>6
    <3>. QED  BY <3>1 DEF Ends, LastOf
  <2>. QED  BY <2>1, <2>2
<1>8. Reached' = last
  BY <1>4, <1>7 DEF Reached
<1>9. WordCost' = WordCost /\ (NoneCut <=> NoneCut') /\ (Nested <=> Nested')
  BY SameBlocks
<1>10. Indexed'
  <2>. SUFFICES ASSUME NEW i \in 1 .. n + 1
                PROVE  /\ Reads(chunks'[i].text, Ends(i)') /\ chunks'[i].text.words[1] <= Ends(i - 1)' + 1
                       /\ Ends(i - 1)' < Ends(i)'
    BY <1>4 DEF Indexed, Reads, Passage
  <2>1. CASE i \in 1 .. n
    <3>1. i - 1 \in 0 .. n /\ i \in 0 .. n /\ i \in DOMAIN chunks
      BY <1>1, <2>1
    <3>2. chunks'[i] = chunks[i] /\ Ends(i)' = Ends(i) /\ Ends(i - 1)' = Ends(i - 1)
      BY <1>4, <1>7, <2>1, <3>1
    <3>. QED  BY <3>1, <3>2 DEF ChunksFine, Indexed
  <2>2. CASE i = n + 1
    <3>1. i - 1 = n /\ n \in 0 .. n
      BY <1>1, <2>2
    <3>2. Ends(i)' = last /\ Ends(i - 1)' = Reached /\ chunks'[i].text = text
      BY <1>1, <1>5, <1>7, <2>2, <3>1
    <3>. QED  BY <3>2
  <2>. QED  BY <1>1, <2>1, <2>2
<1>11. \A i \in 1 .. n + 1 : Small(chunks'[i].text)
  <2>. TAKE i \in 1 .. n + 1
  <2>1. CASE i \in 1 .. n
    BY <1>1, <1>4, <2>1 DEF ChunksFine
  <2>2. CASE i = n + 1
    BY <1>5, <2>2
  <2>. QED  BY <1>1, <2>1, <2>2
<1>12. (\A i \in DOMAIN chunks : Small(chunks[i].text))'
  BY <1>4, <1>9, <1>11 DEF Small
<1>13. InSection'
  <2>. SUFFICES ASSUME Nested, NEW i \in 1 .. n + 1, NEW k \in DOMAIN chunks'[i].text.words,
                       chunks'[i].text.words[k] > Ends(i - 1)' \/ NoneCut
                PROVE  Under(Before(chunks'[i].text.words[k]), chunks'[i].heading)
    BY <1>4, <1>9, SameBlocks DEF InSection
  <2>1. CASE i \in 1 .. n
    <3>1. i - 1 \in 0 .. n /\ i \in DOMAIN chunks
      BY <1>1, <2>1
    <3>2. chunks'[i] = chunks[i] /\ Ends(i - 1)' = Ends(i - 1)
      BY <1>4, <1>7, <2>1, <3>1
    <3>. QED  BY <3>1, <3>2 DEF ChunksFine, InSection
  <2>2. CASE i = n + 1
    <3>. DEFINE w == text.words[k]
    <3>1. i - 1 = n /\ n \in 0 .. n /\ Ends(i - 1)' = Reached /\ k \in DOMAIN text.words
      BY <1>1, <1>5, <1>7, <2>2
    <3>2. w \in Nat /\ w <= last /\ text.words[1] <= w /\ text.words[1] \in Nat
      <4>1. w = text.words[1] + k - 1 /\ k \in 1 .. last - text.words[1] + 1 /\ text.words[1] \in Nat
        BY <3>1, ReadsFacts
      <4>. QED  BY <4>1
    <3>3. w > Reached \/ NoneCut
      BY <1>5, <2>2, <3>1
    <3>. HIDE DEF w
    <3>4. Before(w) = HeadingsTo(seen)
      <4>1. ASSUME NEW j \in Before(w)
            PROVE  j \in HeadingsTo(seen)
        <5>1. j \in DOMAIN blocks /\ blocks[j].first <= w /\ blocks[j].level > 0
          BY DEF Before
        <5>2. blocks \in Seq(Line) /\ seen \in Nat /\ DOMAIN blocks = 1 .. Len(blocks) /\ Len(blocks) \in Nat
          BY DEF ChunksTypeOK
        <5>3. blocks[j] \in Line
          BY <5>1, <5>2, ElementType, Zenon
        <5>3a. j \in 1 .. Len(blocks) /\ blocks[j].first \in Nat
          BY <5>1, <5>2, <5>3 DEF Line
        <5>4. ~(j > seen)
          BY <3>2, <5>1, <5>3a
        <5>. QED  BY <5>1, <5>2, <5>3a, <5>4 DEF HeadingsTo
      <4>2. ASSUME NEW j \in HeadingsTo(seen)
            PROVE  j \in Before(w)
        <5>1. blocks \in Seq(Line) /\ seen \in Nat /\ DOMAIN blocks = 1 .. Len(blocks) /\ Len(blocks) \in Nat
          BY DEF ChunksTypeOK
        <5>2. j \in 1 .. seen /\ blocks[j].level > 0 /\ j \in DOMAIN blocks
          BY <5>1 DEF HeadingsTo
        <5>3. blocks[j] \in Line
          BY <5>1, <5>2, ElementType, Zenon
        <5>3a. blocks[j].first \in Nat
          BY <5>3 DEF Line
        <5>4. blocks[j].first <= w
          <6>1. blocks[j].first <= Reached + 1 /\ (NoneCut => blocks[j].first <= text.words[1])
            OBVIOUS
          <6>. DEFINE first == blocks[j].first  r == Reached  a == text.words[1]
          <6>2. w \in Nat /\ a \in Nat /\ a <= w /\ first <= r + 1 /\ (NoneCut => first <= a) /\ first \in Nat /\ r \in Nat
            BY <1>1, <3>2, <5>3a, <6>1
          <6>. HIDE DEF first, r, a
          <6>3. w > r => first <= w
            BY <6>2, Passes
          <6>4. NoneCut => first <= w
            BY <6>2, Passes
          <6>. QED  BY <3>3, <6>3, <6>4 DEF first, r
        <5>. QED  BY <5>2, <5>4 DEF Before
      <4>. QED  BY <4>1, <4>2
    <3>5. Under(Before(w), heading)
      BY <3>4
    <3>. QED  BY <1>5, <2>2, <3>5 DEF w
  <2>. QED  BY <1>1, <2>1, <2>2
<1>14. document.each \in Nat \ {0}
  BY DEF ChunksTypeOK
<1>. DEFINE tail == TailTokens(text, Overlap)
<1>15. /\ tail \in SizedTexts
       /\ tail # EmptyText => Reads(tail, last) /\ text.words[1] <= tail.words[1]
       /\ tail.runes + 2 <= 9 * (Overlap + WordCost - 1) \/ tail = EmptyText
       /\ WordCost > Target => tail.runes <= document.each
  BY <1>14, TailFacts
<1>. HIDE DEF tail
<1>16. lastTail' = tail
  BY <1>3 DEF tail
<1>17. TailReads' /\ TailSmall'
  <2>1. lastTail' # EmptyText => Reads(lastTail', Reached')
    BY <1>8, <1>15, <1>16, Zenon
  <2>2. TailReads'
    BY <2>1 DEF TailReads, Reads, Passage, EmptyText
  <2>3. TailSmall'
    BY <1>9, <1>15, <1>16 DEF TailSmall, EmptyText
  <2>. QED  BY <2>2, <2>3
<1>18. ChunksFine'
  BY <1>4, <1>10, <1>12, <1>13, <1>15, <1>16, <1>17 DEF ChunksFine
<1>. QED  BY <1>3, <1>8, <1>15, <1>16, <1>18

-------------------------------------------------------------------------------
(* The loop over the lines. *)

LEMMA DocumentFacts ==
  ASSUME document \in Documents
  PROVE  document.each \in Nat \ {0} /\ document.lines \in Seq(Line) /\ Numbered(document.lines)
BY ChunksAssumption

LEMMA ReadToFacts ==
  ASSUME document \in Documents, seen \in Nat, seen <= Len(document.lines)
  PROVE  /\ ReadTo \in Nat \ {0}
         /\ seen < Len(document.lines) =>
              LET line == document.lines[seen + 1]
              IN  /\ line \in Line /\ line.first = ReadTo /\ line.ends \in Seq(Nat) /\ Ordered(line)
                  /\ (line.level > 0 => line.ends = <<>>)
                  /\ line.first \in Nat \ {0} /\ line.level \in Nat /\ line.title \in Nat
         /\ seen = Len(document.lines) => ReadTo = Follows(document.lines)
<1>. DEFINE listed == document.lines
<1>1. listed \in Seq(Line) /\ Numbered(listed) /\ Len(listed) \in Nat /\ DOMAIN listed = 1 .. Len(listed)
  BY DocumentFacts
<1>. HIDE DEF listed
<1>2. ReadTo = IF seen = 0 THEN 1 ELSE Behind(listed[seen])
  BY DEF ReadTo, listed
<1>3. ReadTo \in Nat \ {0}
  <2>1. CASE seen = 0
    BY <1>2, <2>1
  <2>2. CASE seen # 0
    <3>1. seen \in 1 .. Len(listed)
      BY <1>1, <2>2 DEF listed
    <3>. QED  BY <1>1, <1>2, <2>2, <3>1, LineFacts
  <2>. QED  BY <2>1, <2>2
<1>4. ASSUME seen < Len(listed)
      PROVE  LET line == listed[seen + 1]
             IN  /\ line \in Line /\ line.first = ReadTo /\ line.ends \in Seq(Nat) /\ Ordered(line)
                 /\ (line.level > 0 => line.ends = <<>>)
                 /\ line.first \in Nat \ {0} /\ line.level \in Nat /\ line.title \in Nat
  <2>1. seen + 1 \in 1 .. Len(listed) /\ seen + 1 \in DOMAIN listed
    BY <1>1, <1>4
  <2>2. \A k \in DOMAIN listed : listed[k].first = IF k = 1 THEN 1 ELSE Behind(listed[k - 1])
    BY <1>1 DEF Numbered
  <2>3. listed[seen + 1].first = ReadTo
    <3>1. (seen + 1) - 1 = seen /\ (seen + 1 = 1 <=> seen = 0)
      OBVIOUS
    <3>. QED  BY <1>2, <2>1, <2>2, <3>1
  <2>4. listed[seen + 1] \in Line /\ Ordered(listed[seen + 1]) /\ listed[seen + 1].ends \in Seq(Nat)
    BY <1>1, <2>1, LineFacts
  <2>5. listed[seen + 1].level > 0 => listed[seen + 1].ends = <<>>
    BY <1>1, <2>1 DEF Numbered
  <2>6. listed[seen + 1].level \in Nat /\ listed[seen + 1].title \in Nat /\ listed[seen + 1].first \in Nat \ {0}
    BY <2>4 DEF Line
  <2>. QED  BY <2>3, <2>4, <2>5, <2>6
<1>5. ASSUME seen = Len(listed)
      PROVE  ReadTo = Follows(listed)
  BY <1>1, <1>2, <1>5 DEF Follows
<1>. QED  BY <1>3, <1>4, <1>5 DEF listed

LEMMA AsBlockFacts ==
  ASSUME NEW part, part.first \in Nat \ {0}, part.ends \in Seq(Nat), Ordered(part),
         NEW level \in Nat, NEW title \in Nat
  PROVE  LET block == AsBlock(part, level, title)
         IN  /\ block \in Line /\ block.first = part.first /\ block.ends = part.ends /\ block.level = level
             /\ Ordered(block) /\ Behind(block) = Behind(part)
<1>. DEFINE block == AsBlock(part, level, title)
<1>1. block \in Line /\ block.first = part.first /\ block.ends = part.ends /\ block.level = level
  BY DEF AsBlock, Line
<1>. HIDE DEF block
<1>2. Ordered(block)
  BY <1>1 DEF Ordered
<1>3. Behind(block) = Behind(part)
  BY <1>1 DEF Behind, Begin
<1>. QED  BY <1>1, <1>2, <1>3 DEF block

LEMMA GatheredFacts ==
  ASSUME ChunksInv, loop = "lines"
  PROVE  Gathered \in Seq(Line) /\ Cohere(Gathered) /\ Follows(Gathered) = ReadTo
<1>1. /\ blocks \in Seq(Line) /\ Cohere(blocks) /\ gathered.first \in Nat \ {0} /\ gathered.ends \in Seq(Nat)
      /\ gathered.ends = <<>> => Follows(blocks) = ReadTo
      /\ gathered.ends # <<>> =>
           Ordered(gathered) /\ gathered.first = Follows(blocks) /\ Behind(gathered) = ReadTo
  BY DEF ChunksInv, ChunksTypeOK, Gathering
<1>2. CASE gathered.ends = <<>>
  BY <1>1, <1>2 DEF Gathered
<1>3. CASE gathered.ends # <<>>
  <2>. DEFINE block == AsBlock(gathered, 0, 0)
  <2>1. /\ block \in Line /\ block.first = gathered.first /\ block.ends = gathered.ends /\ block.level = 0
        /\ Ordered(block) /\ Behind(block) = Behind(gathered)
    BY <1>1, <1>3, AsBlockFacts
  <2>2. Gathered = Append(blocks, block)
    BY <1>3 DEF Gathered
  <2>. HIDE DEF block
  <2>3. /\ Append(blocks, block) \in Seq(Line) /\ Cohere(Append(blocks, block))
        /\ Follows(Append(blocks, block)) = Behind(block)
    <3>1. /\ block \in Line /\ block.first = Follows(blocks) /\ Ordered(block)
          /\ (block.level > 0 => block.ends = <<>>) /\ (block.level = 0 => block.ends # <<>>)
      BY <1>1, <1>3, <2>1
    <3>. QED  BY <1>1, <3>1, BlocksGrow
  <2>. QED  BY <1>1, <1>3, <2>1, <2>2, <2>3
<1>. QED  BY <1>2, <1>3

\* A line joins the paragraph, or ends it.
LEMMA LookAtLineKeeps ==
  ASSUME ChunksInv, LookAtLine
  PROVE  ChunksInv'
<1>. DEFINE line == document.lines[seen + 1]
<1>1. /\ loop = "lines" /\ seen \in Nat /\ seen < Len(document.lines) /\ seen' = seen + 1
      /\ UNCHANGED <<document, loop, cut, chunks, current, curTok, heading, lastTail>>
      /\ ChunksTypeOK /\ document \in Documents /\ Cohere(blocks) /\ Gathering
      /\ Len(document.lines) \in Nat
  BY DocumentFacts DEF LookAtLine, ChunksInv, ChunksTypeOK
<1>2. /\ ReadTo \in Nat \ {0} /\ line \in Line /\ line.first = ReadTo /\ line.ends \in Seq(Nat) /\ Ordered(line)
      /\ (line.level > 0 => line.ends = <<>>)
      /\ line.first \in Nat \ {0} /\ line.level \in Nat /\ line.title \in Nat
  BY <1>1, ReadToFacts DEF Gathering
<1>3. ReadTo' = Behind(line)
  BY <1>1 DEF ReadTo
<1>4. /\ seen' <= Len(document.lines') /\ chunks' = <<>> /\ current' = EmptyText /\ curTok' = 0
      /\ heading' = <<>> /\ lastTail' = EmptyText /\ loop' = "lines" /\ seen' \in Nat
  BY <1>1 DEF Gathering
<1>5. CASE line.ends # <<>>
  <2>. DEFINE whole == [first |-> IF gathered.ends = <<>> THEN line.first ELSE gathered.first,
                        ends |-> gathered.ends \o line.ends]
  <2>1. gathered' = whole /\ blocks' = blocks
    BY <1>1, <1>5 DEF LookAtLine
  <2>2. gathered.ends \in Seq(Nat) /\ gathered.first \in Nat \ {0} /\ blocks \in Seq(Line)
    BY <1>1 DEF ChunksTypeOK
  <2>3. whole.first = (IF gathered.ends = <<>> THEN line.first ELSE gathered.first) /\ whole.ends = gathered.ends \o line.ends
    OBVIOUS
  <2>4. whole \in [first : Nat \ {0}, ends : Seq(Nat)]
    BY <1>2, <2>2
  <2>5. /\ whole.ends # <<>> /\ Ordered(whole) /\ Behind(whole) = Behind(line)
        /\ whole.first = Follows(blocks)
    <3>1. CASE gathered.ends = <<>>
      <4>1. whole.first = line.first /\ whole.ends = line.ends
        BY <1>2, <2>3, <3>1, ConcatEmptySeq
      <4>. HIDE DEF whole
      <4>2. Ordered(whole) /\ Behind(whole) = Behind(line)
        BY <1>2, <4>1 DEF Ordered, Behind, Begin
      <4>3. Follows(blocks) = ReadTo
        BY <1>1, <3>1 DEF Gathering
      <4>. QED  BY <1>2, <1>5, <4>1, <4>2, <4>3
    <3>2. CASE gathered.ends # <<>>
      <4>1. Ordered(gathered) /\ gathered.first = Follows(blocks) /\ Behind(gathered) = ReadTo
        BY <1>1, <3>2 DEF Gathering
      <4>2. /\ whole.first = gathered.first /\ whole.ends \in Seq(Nat)
            /\ Len(whole.ends) = Len(gathered.ends) + Len(line.ends)
            /\ \A i \in 1 .. Len(gathered.ends) + Len(line.ends) :
                 whole.ends[i] = IF i <= Len(gathered.ends) THEN gathered.ends[i] ELSE line.ends[i - Len(gathered.ends)]
        <5>. DEFINE x == gathered.ends  y == line.ends
        <5>1. x \in Seq(Nat) /\ y \in Seq(Nat)
          BY <1>2, <2>2
        <5>2. whole.first = gathered.first /\ whole.ends = x \o y
          BY <2>3, <3>2
        <5>. HIDE DEF whole, x, y
        <5>3. /\ x \o y \in Seq(Nat) /\ Len(x \o y) = Len(x) + Len(y)
              /\ \A i \in 1 .. Len(x) + Len(y) : (x \o y)[i] = IF i <= Len(x) THEN x[i] ELSE y[i - Len(x)]
          BY <5>1, ConcatProperties
        <5>. QED  BY <5>2, <5>3 DEF x, y
      <4>. HIDE DEF whole, line
      <4>3. /\ gathered.first \in Nat \ {0} /\ gathered.ends \in Seq(Nat) /\ Ordered(gathered)
            /\ line.first \in Nat \ {0} /\ line.ends \in Seq(Nat) /\ Ordered(line)
            /\ gathered.ends # <<>> /\ line.ends # <<>> /\ line.first = Behind(gathered)
        BY <1>2, <1>5, <2>2, <3>2, <4>1
      <4>4. whole.ends # <<>> /\ Ordered(whole) /\ Behind(whole) = Behind(line)
        BY <4>2, <4>3, PartsMeet, ZenonT(30)
      <4>. QED  BY <4>1, <4>2, <4>4
    <3>. QED  BY <3>1, <3>2
  <2>. HIDE DEF whole
  <2>6. ChunksTypeOK'
    BY <1>1, <1>4, <2>1, <2>2, <2>4 DEF ChunksTypeOK
  <2>7. Gathering'
    BY <1>1, <1>3, <1>4, <2>1, <2>5 DEF Gathering
  <2>. QED  BY <1>1, <1>4, <2>1, <2>6, <2>7 DEF ChunksInv
<1>6. CASE line.ends = <<>>
  <2>1. Gathered \in Seq(Line) /\ Cohere(Gathered) /\ Follows(Gathered) = ReadTo
    BY <1>1, GatheredFacts
  <2>2. /\ gathered' = NoLines
        /\ blocks' = IF line.level = 0 THEN Gathered ELSE Append(Gathered, AsBlock(line, line.level, line.title))
    BY <1>1, <1>6 DEF LookAtLine
  <2>3. Behind(line) = line.first
    BY <1>2, <1>6, PartFacts
  <2>4. blocks' \in Seq(Line) /\ Cohere(blocks') /\ Follows(blocks') = Behind(line)
    <3>1. CASE line.level = 0
      BY <1>2, <2>1, <2>2, <2>3, <3>1
    <3>2. CASE line.level # 0
      <4>. DEFINE block == AsBlock(line, line.level, line.title)
      <4>1. /\ block \in Line /\ block.first = line.first /\ block.ends = line.ends /\ block.level = line.level
            /\ Ordered(block) /\ Behind(block) = Behind(line)
        BY <1>2, AsBlockFacts
      <4>2. blocks' = Append(Gathered, block)
        BY <2>2, <3>2
      <4>. HIDE DEF block, line
      <4>3. /\ block.first = Follows(Gathered)
            /\ (block.level > 0 => block.ends = <<>>) /\ (block.level = 0 => block.ends # <<>>)
        BY <1>2, <1>6, <2>1, <3>2, <4>1
      <4>. QED  BY <2>1, <4>1, <4>2, <4>3, BlocksGrow
    <3>. QED  BY <3>1, <3>2
  <2>5. ChunksTypeOK'
    BY <1>1, <1>4, <2>2, <2>4 DEF ChunksTypeOK, NoLines
  <2>6. Gathering'
    BY <1>1, <1>3, <1>4, <2>2, <2>4 DEF Gathering, NoLines
  <2>. QED  BY <1>1, <1>4, <2>4, <2>5, <2>6 DEF ChunksInv
<1>. QED  BY <1>5, <1>6

LEMMA LinesEndKeeps ==
  ASSUME ChunksInv, LinesEnd
  PROVE  ChunksInv'
<1>1. /\ loop = "lines" /\ seen = Len(document.lines) /\ seen' = 0 /\ loop' = "blocks"
      /\ blocks' = Gathered /\ gathered' = NoLines
      /\ UNCHANGED <<document, cut, chunks, current, curTok, heading, lastTail>>
      /\ ChunksTypeOK /\ document \in Documents /\ Gathering
  BY DEF LinesEnd, ChunksInv
<1>2. /\ chunks' = <<>> /\ current' = EmptyText /\ curTok' = 0 /\ heading' = <<>> /\ lastTail' = EmptyText
  BY <1>1 DEF Gathering
<1>3. Gathered \in Seq(Line) /\ Cohere(Gathered) /\ Follows(Gathered) = Follows(document.lines)
  <2>1. Gathered \in Seq(Line) /\ Cohere(Gathered) /\ Follows(Gathered) = ReadTo
    BY <1>1, GatheredFacts
  <2>2. seen \in Nat
    BY <1>1 DEF ChunksTypeOK
  <2>3. ReadTo = Follows(document.lines)
    BY <1>1, <2>2, ReadToFacts
  <2>. QED  BY <2>1, <2>3
<1>4. ChunksTypeOK'
  BY <1>1, <1>3 DEF ChunksTypeOK, NoLines
<1>5. Cohere(blocks') /\ Follows(blocks') = Follows(document'.lines) /\ seen' <= Len(blocks')
  BY <1>1, <1>3
<1>6. Reached' = 0 /\ Indexed' /\ (\A i \in DOMAIN chunks : Small(chunks[i].text))' /\ InSection'
  <2>1. DOMAIN chunks' = {} /\ Len(chunks') = 0
    BY <1>2
  <2>. QED  BY <2>1 DEF Reached, Ends, Indexed, InSection
<1>7. ChunksFine'
  <2>1. TailReads'
    BY <1>2 DEF TailReads, EmptyText
  <2>2. document.each \in Nat \ {0} /\ EmptyText.runes = 0
    BY <1>1, DocumentFacts DEF EmptyText
  <2>3. TailSmall'
    BY <1>1, <1>2, <2>2 DEF TailSmall, EmptyText
  <2>. QED  BY <1>4, <1>6, <2>1, <2>3 DEF ChunksFine, ChunksTypeOK
<1>8. Filling'
  BY <1>1, <1>2, <1>6 DEF Filling, Consumed, EmptyText, CutLoops
<1>9. Sectioned'
  <2>1. HeadingsTo(seen)' = {}
    BY <1>1 DEF HeadingsTo
  <2>2. Under(HeadingsTo(seen), heading)'
    BY <1>2, <2>1 DEF Under, Standing
  <2>. QED  BY <2>1, <2>2 DEF Sectioned
<1>10. Chunking'
  BY <1>1, <1>5, <1>7, <1>8, <1>9 DEF Chunking, CutLoops
<1>. QED  BY <1>1, <1>4, <1>5, <1>10 DEF ChunksInv

-------------------------------------------------------------------------------
(* The loop over the blocks. *)

LEMMA BlockFacts ==
  ASSUME ChunksTypeOK, document \in Documents, Cohere(blocks), NEW k \in 1 .. Len(blocks)
  PROVE  LET block == blocks[k]
         IN  /\ k \in DOMAIN blocks /\ block \in Line /\ block.first \in Nat \ {0} /\ block.level \in Nat
             /\ block.title \in Nat /\ block.ends \in Seq(Nat) /\ Ordered(block)
             /\ Behind(block) \in Nat \ {0} /\ block.first <= Behind(block)
             /\ block.first = IF k = 1 THEN 1 ELSE Behind(blocks[k - 1])
             /\ block.level > 0 => Behind(block) = block.first
             /\ block.level = 0 =>
                  /\ block.first < Behind(block) /\ Len(block.ends) \in Nat \ {0}
                  /\ BlockText(block) \in SizedTexts /\ Reads(BlockText(block), Behind(block) - 1)
                  /\ BlockText(block).words[1] = block.first
<1>. DEFINE block == blocks[k]
<1>1. blocks \in Seq(Line) /\ Numbered(blocks) /\ Textual(blocks)
  BY DEF Cohere, ChunksTypeOK
<1>2. /\ block \in Line /\ block.first \in Nat \ {0} /\ block.ends \in Seq(Nat) /\ Ordered(block)
      /\ Behind(block) \in Nat \ {0} /\ block.first <= Behind(block)
  BY <1>1, LineFacts
<1>3. k \in DOMAIN blocks /\ block.level \in Nat /\ block.title \in Nat
  BY <1>1, <1>2 DEF Line
<1>4. /\ block.first = (IF k = 1 THEN 1 ELSE Behind(blocks[k - 1]))
      /\ (block.level > 0 => block.ends = <<>>) /\ (block.level = 0 => block.ends # <<>>)
  BY <1>1, <1>3 DEF Numbered, Textual
<1>. HIDE DEF block
<1>5. block.level > 0 => Behind(block) = block.first
  BY <1>2, <1>4, PartFacts
<1>6. ASSUME block.level = 0
      PROVE  /\ block.first < Behind(block) /\ Len(block.ends) \in Nat \ {0}
             /\ BlockText(block) \in SizedTexts /\ Reads(BlockText(block), Behind(block) - 1)
             /\ BlockText(block).words[1] = block.first
  <2>1. block.first < Behind(block) /\ Len(block.ends) \in Nat \ {0}
    BY <1>2, <1>4, <1>6, PartFacts
  <2>2. Behind(block) - 1 \in Nat /\ block.first <= Behind(block) - 1
    BY <1>2, <2>1
  <2>3. document.each \in Nat \ {0}
    BY DocumentFacts
  <2>4. BlockText(block) = Span(block.first, Behind(block) - 1)
    BY DEF BlockText
  <2>. DEFINE first == block.first  last == Behind(block) - 1
  <2>5. first \in Nat \ {0} /\ last \in Nat /\ first <= last
    BY <1>2, <2>2
  <2>. HIDE DEF first, last
  <2>6. Span(first, last) \in SizedTexts /\ Reads(Span(first, last), last) /\ Span(first, last).words[1] = first
    BY <2>3, <2>5, SpanFacts
  <2>. QED  BY <2>1, <2>4, <2>6 DEF first, last
<1>. QED  BY <1>2, <1>3, <1>4, <1>5, <1>6 DEF block

LEMMA ConsumedFacts ==
  ASSUME ChunksTypeOK, document \in Documents, Cohere(blocks), seen <= Len(blocks)
  PROVE  /\ Consumed \in Nat /\ seen \in Nat /\ Len(blocks) \in Nat /\ DOMAIN blocks = 1 .. Len(blocks)
         /\ seen + 1 <= Len(blocks) => blocks[seen + 1].first = Consumed + 1
         /\ \A k \in DOMAIN blocks : k > seen => Consumed < blocks[k].first
         /\ \A k \in HeadingsTo(seen) : k \in 1 .. seen /\ k \in 1 .. Len(blocks) /\ blocks[k].first \in Nat
<1>1. blocks \in Seq(Line) /\ seen \in Nat /\ Len(blocks) \in Nat /\ DOMAIN blocks = 1 .. Len(blocks)
  BY DEF ChunksTypeOK
<1>2. Consumed \in Nat
  <2>1. CASE seen = 0
    BY <2>1 DEF Consumed
  <2>2. CASE seen # 0
    <3>1. seen \in 1 .. Len(blocks)
      BY <1>1, <2>2
    <3>2. Behind(blocks[seen]) \in Nat \ {0}
      BY <3>1, BlockFacts
    <3>. QED  BY <2>2, <3>2 DEF Consumed
  <2>. QED  BY <2>1, <2>2
<1>3. ASSUME seen + 1 <= Len(blocks)
      PROVE  blocks[seen + 1].first = Consumed + 1
  <2>1. seen + 1 \in DOMAIN blocks /\ (seen + 1) - 1 = seen /\ (seen + 1 = 1 <=> seen = 0)
    BY <1>1, <1>3
  <2>2. blocks[seen + 1].first = IF seen + 1 = 1 THEN 1 ELSE Behind(blocks[(seen + 1) - 1])
    BY <2>1 DEF Cohere, Numbered
  <2>3. seen # 0 => Behind(blocks[seen]) \in Nat \ {0}
    <3>1. seen # 0 => seen \in 1 .. Len(blocks)
      BY <1>1
    <3>. QED  BY <3>1, BlockFacts
  <2>. QED  BY <1>1, <2>1, <2>2, <2>3 DEF Consumed
<1>4. ASSUME NEW k \in DOMAIN blocks, k > seen
      PROVE  Consumed < blocks[k].first
  <2>1. k \in 1 .. Len(blocks) /\ blocks[k].first \in Nat \ {0}
    BY <1>1, BlockFacts
  <2>2. CASE seen = 0
    BY <2>1, <2>2 DEF Consumed
  <2>3. CASE seen # 0
    <3>1. seen \in 1 .. k - 1 /\ seen \in 1 .. Len(blocks)
      BY <1>1, <1>4, <2>1, <2>3
    <3>2. Behind(blocks[seen]) <= blocks[k].first
      BY <3>1 DEF Cohere, Rising
    <3>3. Behind(blocks[seen]) \in Nat \ {0}
      BY <3>1, BlockFacts
    <3>. QED  BY <2>1, <2>3, <3>2, <3>3 DEF Consumed
  <2>. QED  BY <2>2, <2>3
<1>5. ASSUME NEW k \in HeadingsTo(seen)
      PROVE  k \in 1 .. seen /\ k \in 1 .. Len(blocks) /\ blocks[k].first \in Nat
  <2>1. k \in 1 .. seen /\ k \in 1 .. Len(blocks)
    BY <1>1 DEF HeadingsTo
  <2>2. blocks[k].first \in Nat \ {0}
    BY <2>1, BlockFacts
  <2>. QED  BY <2>1, <2>2
<1>. QED  BY <1>1, <1>2, <1>3, <1>4, <1>5

LEMMA FineRests ==
  ASSUME ChunksFine, UNCHANGED <<document, blocks, chunks, lastTail>>
  PROVE  ChunksFine' /\ Reached' = Reached
<1>1. \A i : Ends(i)' = Ends(i)
  BY DEF Ends
<1>2. Reached' = Reached
  BY DEF Reached, Ends
<1>3. WordCost' = WordCost /\ (NoneCut <=> NoneCut') /\ (Nested <=> Nested')
  BY SameBlocks
<1>4. Indexed'
  BY <1>1 DEF ChunksFine, Indexed, Reads, Passage
<1>5. TailReads' /\ TailSmall'
  BY <1>2, <1>3 DEF ChunksFine, TailReads, TailSmall, Reads, Passage, EmptyText
<1>6. (\A i \in DOMAIN chunks : Small(chunks[i].text))'
  BY <1>3 DEF ChunksFine, Small
<1>7. InSection'
  BY <1>1, <1>3, SameBlocks DEF ChunksFine, InSection
<1>. QED  BY <1>2, <1>4, <1>5, <1>6, <1>7 DEF ChunksFine

LEMMA FlushKeeps ==
  ASSUME ChunksInv, loop = "blocks", Flush, UNCHANGED <<document, blocks>>
  PROVE  /\ ChunksFine' /\ Reached' = Consumed /\ Reached <= Consumed /\ Reached \in Nat
         /\ current # EmptyText /\ lastTail' # EmptyText => current.words[1] <= lastTail'.words[1]
<1>1. /\ ChunksTypeOK /\ document \in Documents /\ Cohere(blocks) /\ ChunksFine /\ Filling /\ Sectioned
      /\ seen <= Len(blocks)
  BY DEF ChunksInv, Chunking
<1>2. Consumed \in Nat /\ Reached \in Nat
  BY <1>1, ConsumedFacts, SentFacts DEF ChunksFine
<1>3. CASE current = EmptyText
  <2>1. UNCHANGED <<chunks, lastTail>> /\ Reached = Consumed
    BY <1>1, <1>3 DEF Flush, Filling
  <2>2. ChunksFine' /\ Reached' = Reached
    BY <1>1, <2>1, FineRests
  <2>. QED  BY <1>2, <1>3, <2>1, <2>2
<1>4. CASE current # EmptyText
  <2>1. /\ Emits(current) /\ Reads(current, Consumed) /\ Reached < Consumed /\ current.words[1] <= Reached + 1
        /\ Small(current) /\ current \in SizedTexts
    BY <1>1, <1>4 DEF Flush, Filling, ChunksTypeOK
  <2>2. \A k \in HeadingsTo(seen) :
          blocks[k].first <= Reached + 1 /\ (NoneCut => blocks[k].first <= current.words[1])
    BY <1>1, <1>4 DEF Sectioned
  <2>3. \A k \in DOMAIN blocks : k > seen => Consumed < blocks[k].first
    BY <1>1, ConsumedFacts
  <2>4. Nested => Under(HeadingsTo(seen), heading)
    BY <1>1 DEF Sectioned
  <2>5. /\ ChunksFine' /\ Reached' = Consumed
        /\ lastTail' # EmptyText => current.words[1] <= lastTail'.words[1]
    BY <1>1, <1>2, <2>1, <2>2, <2>3, <2>4, Emission
  <2>. QED  BY <1>2, <2>1, <2>5
<1>. QED  BY <1>3, <1>4

\* Nested levels: a heading goes on with the path of its level.
LEMMA HeadingOpens ==
  ASSUME ChunksTypeOK, document \in Documents, Cohere(blocks), Sectioned, Nested,
         seen + 1 <= Len(blocks), blocks[seen + 1].level > 0
  PROVE  Under(HeadingsTo(seen + 1), JoinHeading(heading, blocks[seen + 1].title, blocks[seen + 1].level))
<1>. DEFINE s == seen + 1  level == blocks[s].level  title == blocks[s].title  path == JoinHeading(heading, title, level)
<1>1. /\ seen \in Nat /\ Len(blocks) \in Nat /\ DOMAIN blocks = 1 .. Len(blocks) /\ s \in DOMAIN blocks
      /\ heading \in Seq(Nat) /\ Len(heading) \in Nat /\ DOMAIN heading = 1 .. Len(heading)
  BY DEF ChunksTypeOK
<1>2. \A k \in 1 .. Len(blocks) : blocks[k].level \in Nat /\ blocks[k].title \in Nat
  BY BlockFacts
<1>3. level \in Nat \ {0} /\ title \in Nat
  BY <1>1, <1>2
<1>4. Under(HeadingsTo(seen), heading)
  BY DEF Sectioned
<1>5. /\ \A k \in HeadingsTo(seen) : k \in 1 .. seen /\ blocks[k].level \in Nat \ {0} /\ k \in HeadingsTo(s) /\ k \in Nat
      /\ \A k \in HeadingsTo(s) : k = s \/ k \in HeadingsTo(seen)
      /\ s \in HeadingsTo(s)
  BY <1>1, <1>2, <1>3 DEF HeadingsTo
<1>6. CASE level = 1
  <2>1. path = <<title>>
    BY <1>6 DEF JoinHeading
  <2>. HIDE DEF s, level, title, path
  <2>2. s \in Standing(HeadingsTo(s))
    BY <1>1, <1>5 DEF Standing, s
  <2>3. ASSUME NEW k \in Standing(HeadingsTo(s))
        PROVE  k = s
    <3>1. k \in HeadingsTo(s) /\ \A j \in HeadingsTo(s) : j > k => blocks[j].level > blocks[k].level
      BY DEF Standing
    <3>2. CASE k \in HeadingsTo(seen)
      <4>1. s > k /\ blocks[k].level \in Nat \ {0}
        BY <1>1, <1>5, <3>2 DEF s
      <4>2. blocks[s].level > blocks[k].level
        BY <1>5, <3>1, <4>1
      <4>. QED  BY <1>6, <4>1, <4>2 DEF level
    <3>. QED  BY <1>5, <3>1, <3>2
  <2>4. DOMAIN path = {1} /\ path[1] = title
    BY <2>1
  <2>5. Under(HeadingsTo(s), path)
    BY <1>6, <2>2, <2>3, <2>4 DEF Under, level, title
  <2>. QED  BY <2>5 DEF s, level, title, path
<1>7. CASE level > 1
  <2>1. PICK j \in 1 .. s - 1 :
          /\ blocks[j].level >= level - 1
          /\ \A i \in j + 1 .. s - 1 : blocks[i].level = 0 \/ blocks[i].level >= level
    BY <1>1, <1>7 DEF Nested
  <2>2. j \in 1 .. seen /\ j \in HeadingsTo(seen) /\ j \in Nat
    BY <1>1, <1>2, <1>3, <1>7, <2>1 DEF HeadingsTo
  <2>3. PICK m \in HeadingsTo(seen) : \A k \in HeadingsTo(seen) : k <= m
    BY <2>2 DEF Sectioned
  <2>4. m \in Standing(HeadingsTo(seen)) /\ m \in 1 .. seen
    <3>1. m \in Nat /\ \A k \in HeadingsTo(seen) : k \in Nat /\ ~(k > m)
      BY <1>5, <2>3
    <3>. QED  BY <1>5, <3>1 DEF Standing
  <2>5. blocks[m].level >= level - 1
    <3>1. j <= m /\ blocks[m].level \in Nat \ {0} /\ blocks[j].level \in Nat
      BY <1>1, <1>2, <1>5, <2>2, <2>3
    <3>2. m = j \/ m \in j + 1 .. s - 1
      BY <1>1, <2>2, <2>4, <3>1
    <3>. QED  BY <1>3, <2>1, <3>1, <3>2
  <2>6. Len(heading) >= level - 1
    <3>1. blocks[m].level \in DOMAIN heading
      BY <1>4, <2>4 DEF Under
    <3>. QED  BY <1>1, <1>3, <2>5, <3>1
  <2>. DEFINE stem == IF Len(heading) >= level THEN SubSeq(heading, 1, level - 1) ELSE heading
  <2>7. path = Append(stem, title)
    <3>1. heading # <<>> /\ ~(level <= 1)
      BY <1>1, <1>3, <1>7, <2>6
    <3>. QED  BY <3>1 DEF JoinHeading
  <2>8. stem \in Seq(Nat) /\ Len(stem) = level - 1 /\ \A d \in 1 .. level - 1 : stem[d] = heading[d]
    <3>1. CASE Len(heading) >= level
      <4>1. \A i \in 1 .. level - 1 : heading[i] \in Nat
        BY <1>1, <1>3, <3>1
      <4>2. /\ SubSeq(heading, 1, level - 1) \in Seq(Nat)
            /\ Len(SubSeq(heading, 1, level - 1)) = IF 1 <= level - 1 THEN level - 1 - 1 + 1 ELSE 0
            /\ \A i \in 1 .. level - 1 - 1 + 1 : SubSeq(heading, 1, level - 1)[i] = heading[1 + i - 1]
        BY <1>3, <4>1, SubSeqProperties
      <4>. QED  BY <1>3, <1>7, <3>1, <4>2
    <3>2. CASE ~(Len(heading) >= level)
      <4>1. stem = heading
        BY <3>2
      <4>. HIDE DEF stem, level
      <4>2. Len(heading) = level - 1
        BY <1>1, <1>3, <2>6, <3>2
      <4>. QED  BY <1>1, <4>1, <4>2
    <3>. QED  BY <3>1, <3>2
  <2>. HIDE DEF stem, path, s, level, title
  <2>9. /\ DOMAIN path = 1 .. level /\ path[level] = title
        /\ \A d \in 1 .. level - 1 : path[d] = heading[d] /\ d \in DOMAIN heading
    <3>1. /\ Append(stem, title) \in Seq(Nat) /\ Len(Append(stem, title)) = Len(stem) + 1
          /\ \A i \in 1 .. Len(stem) : Append(stem, title)[i] = stem[i]
          /\ Append(stem, title)[Len(stem) + 1] = title
      BY <1>3, <2>8, AppendProperties
    <3>2. DOMAIN path = 1 .. level /\ path[level] = title
      BY <1>1, <1>3, <2>7, <2>8, <3>1
    <3>3. ASSUME NEW d \in 1 .. level - 1
          PROVE  path[d] = heading[d] /\ d \in DOMAIN heading
      <4>1. d \in 1 .. Len(stem) /\ stem[d] = heading[d]
        BY <2>8
      <4>2. path[d] = stem[d]
        BY <2>7, <3>1, <4>1, Zenon
      <4>3. d \in DOMAIN heading
        BY <1>1, <1>3, <2>6
      <4>. QED  BY <4>1, <4>2, <4>3, Zenon
    <3>. QED  BY <3>2, <3>3, Zenon
  <2>10. s \in Standing(HeadingsTo(s))
    BY <1>1, <1>5 DEF Standing, s
  <2>11. ASSUME NEW d \in DOMAIN path
         PROVE  \E k \in Standing(HeadingsTo(s)) : blocks[k].level = d /\ blocks[k].title = path[d]
    <3>1. CASE d = level
      BY <2>9, <2>10, <3>1 DEF level, title
    <3>2. CASE d # level
      <4>1. d \in 1 .. level - 1
        BY <1>3, <2>9, <3>2
      <4>2. PICK k \in Standing(HeadingsTo(seen)) : blocks[k].level = d /\ blocks[k].title = heading[d]
        BY <1>4, <2>9, <4>1 DEF Under
      <4>3. k \in HeadingsTo(s) /\ \A i \in HeadingsTo(seen) : i > k => blocks[i].level > blocks[k].level
        BY <1>5 DEF Standing
      <4>4. blocks[s].level > blocks[k].level
        BY <1>3, <4>1, <4>2 DEF level
      <4>5. k \in Standing(HeadingsTo(s))
        BY <1>5, <4>3, <4>4 DEF Standing
      <4>. QED  BY <2>9, <4>1, <4>2, <4>5
    <3>. QED  BY <3>1, <3>2
  <2>12. ASSUME NEW k \in Standing(HeadingsTo(s))
         PROVE  blocks[k].level \in DOMAIN path
    <3>1. k \in HeadingsTo(s) /\ \A i \in HeadingsTo(s) : i > k => blocks[i].level > blocks[k].level
      BY DEF Standing
    <3>2. CASE k = s
      BY <1>3, <2>9, <3>2 DEF level
    <3>3. CASE k \in HeadingsTo(seen)
      <4>1. s > k /\ blocks[k].level \in Nat \ {0}
        BY <1>1, <1>5, <3>3 DEF s
      <4>2. blocks[s].level > blocks[k].level
        BY <1>5, <3>1, <4>1
      <4>. QED  BY <1>3, <2>9, <4>1, <4>2 DEF level
    <3>. QED  BY <1>5, <3>1, <3>2, <3>3
  <2>13. Under(HeadingsTo(s), path)
    BY <2>11, <2>12 DEF Under
  <2>. QED  BY <2>13 DEF s, level, title, path
<1>. QED  BY <1>3, <1>6, <1>7

LEMMA OpenSectionKeeps ==
  ASSUME ChunksInv, OpenSection
  PROVE  ChunksInv'
<1>1. /\ ChunksTypeOK /\ document \in Documents /\ Cohere(blocks) /\ ChunksFine /\ Filling /\ Sectioned
      /\ seen <= Len(blocks) /\ Follows(blocks) = Follows(document.lines)
      /\ loop = "blocks" /\ seen' = seen + 1 /\ seen + 1 <= Len(blocks) /\ blocks[seen + 1].level > 0
      /\ Flush /\ current' = EmptyText /\ curTok' = 0
      /\ heading' = JoinHeading(heading, blocks[seen + 1].title, blocks[seen + 1].level)
      /\ UNCHANGED <<document, gathered, blocks, loop, cut>>
  BY DEF ChunksInv, Chunking, OpenSection, Turns, Fills
<1>2. ChunksFine' /\ Reached' = Consumed /\ Reached <= Consumed /\ Reached \in Nat
  BY <1>1, FlushKeeps
<1>3. /\ Consumed \in Nat /\ seen \in Nat /\ Len(blocks) \in Nat /\ DOMAIN blocks = 1 .. Len(blocks)
      /\ blocks[seen + 1].first = Consumed + 1
      /\ \A k \in HeadingsTo(seen) : k \in 1 .. seen /\ k \in 1 .. Len(blocks) /\ blocks[k].first \in Nat
  BY <1>1, ConsumedFacts
<1>4. /\ seen + 1 \in 1 .. Len(blocks) /\ Behind(blocks[seen + 1]) = Consumed + 1
      /\ blocks[seen + 1].title \in Nat /\ blocks[seen + 1].level \in Nat
  <2>1. seen + 1 \in 1 .. Len(blocks)
    BY <1>1, <1>3
  <2>. QED  BY <1>1, <1>3, <2>1, BlockFacts
<1>5. Consumed' = Consumed
  BY <1>1, <1>3, <1>4 DEF Consumed
<1>6. ChunksTypeOK'
  <2>1. heading' \in Seq(Nat)
    <3>. DEFINE title == blocks[seen + 1].title  level == blocks[seen + 1].level
    <3>1. heading \in Seq(Nat) /\ title \in Nat /\ level \in Nat
      BY <1>1, <1>4 DEF ChunksTypeOK
    <3>. HIDE DEF title, level
    <3>2. JoinHeading(heading, title, level) \in Seq(Nat)
      <4>1. CASE level <= 1 \/ heading = <<>>
        BY <3>1, <4>1 DEF JoinHeading
      <4>2. CASE ~(level <= 1 \/ heading = <<>>)
        <5>. DEFINE stem == IF Len(heading) >= level THEN SubSeq(heading, 1, level - 1) ELSE heading
        <5>1. stem \in Seq(Nat)
          <6>1. CASE Len(heading) >= level
            <7>1. 1 \in Int /\ level - 1 \in Int /\ \A i \in 1 .. level - 1 : heading[i] \in Nat
              BY <3>1, <6>1
            <7>2. SubSeq(heading, 1, level - 1) \in Seq(Nat)
              BY <7>1, SubSeqProperties
            <7>. QED  BY <6>1, <7>2
          <6>2. CASE ~(Len(heading) >= level)
            BY <3>1, <6>2
          <6>. QED  BY <6>1, <6>2
        <5>2. JoinHeading(heading, title, level) = Append(stem, title)
          BY <4>2 DEF JoinHeading
        <5>. HIDE DEF stem
        <5>. QED  BY <3>1, <5>1, <5>2, AppendProperties
      <4>. QED  BY <4>1, <4>2
    <3>. QED  BY <1>1, <3>2 DEF title, level
  <2>2. EmptyText \in SizedTexts
    BY DEF EmptyText, SizedTexts
  <2>. QED  BY <1>1, <1>2, <1>3, <2>1, <2>2 DEF ChunksTypeOK, ChunksFine
<1>7. Filling'
  BY <1>1, <1>2, <1>5 DEF Filling, EmptyText, CutLoops
<1>8. Sectioned'
  <2>1. Nested' => Under(HeadingsTo(seen + 1), heading')
    BY <1>1, HeadingOpens, SameBlocks
  <2>2. HeadingsTo(seen)' = HeadingsTo(seen + 1)
    BY <1>1 DEF HeadingsTo
  <2>3. Nested' => Under(HeadingsTo(seen), heading)'
    BY <1>1, <2>1, <2>2 DEF Under, Standing
  <2>4. /\ seen + 1 \in HeadingsTo(seen + 1)
        /\ \A k \in HeadingsTo(seen + 1) : k <= seen + 1 /\ (k = seen + 1 \/ k \in HeadingsTo(seen))
    BY <1>1, <1>3 DEF HeadingsTo
  <2>5. \A k \in HeadingsTo(seen + 1) : blocks[k].first <= Reached' + 1
    <3>. TAKE k \in HeadingsTo(seen + 1)
    <3>1. CASE k = seen + 1
      BY <1>2, <1>3, <3>1
    <3>2. CASE k \in HeadingsTo(seen)
      <4>1. blocks[k].first <= Reached + 1 /\ blocks[k].first \in Nat
        BY <1>1, <1>3, <3>2 DEF Sectioned
      <4>. QED  BY <1>2, <1>3, <4>1
    <3>. QED  BY <2>4, <3>1, <3>2
  <2>. QED  BY <1>1, <2>2, <2>3, <2>4, <2>5 DEF Sectioned, EmptyText
<1>9. Chunking'
  BY <1>1, <1>2, <1>3, <1>7, <1>8 DEF Chunking, CutLoops
<1>. QED  BY <1>1, <1>6, <1>9 DEF ChunksInv

\* What a block of text adds to the section it is in.
LEMMA SameSection ==
  ASSUME ChunksTypeOK, document \in Documents, Cohere(blocks), Sectioned, UNCHANGED <<document, blocks, heading>>,
         seen' = seen + 1, seen + 1 <= Len(blocks), blocks[seen + 1].level = 0,
         Reached \in Nat, Reached' \in Nat, Reached <= Reached',
         NoneCut /\ current' # EmptyText =>
           \A k \in HeadingsTo(seen) : blocks[k].first <= current'.words[1]
  PROVE  Sectioned'
<1>1. /\ seen \in Nat /\ Len(blocks) \in Nat
      /\ \A k \in HeadingsTo(seen) : k \in 1 .. seen /\ k \in 1 .. Len(blocks) /\ blocks[k].first \in Nat
  <2>1. seen <= Len(blocks)
    BY DEF ChunksTypeOK
  <2>. QED  BY <2>1, ConsumedFacts
<1>2. HeadingsTo(seen + 1) = HeadingsTo(seen)
  BY <1>1 DEF HeadingsTo
<1>3. HeadingsTo(seen)' = HeadingsTo(seen)
  BY <1>2 DEF HeadingsTo
<1>4. Nested' => Under(HeadingsTo(seen), heading)'
  <2>1. Nested' => Under(HeadingsTo(seen), heading)
    BY SameBlocks DEF Sectioned
  <2>. QED  BY <1>3, <2>1 DEF Under, Standing
<1>5. \A k \in HeadingsTo(seen) : blocks[k].first <= Reached' + 1
  BY <1>1 DEF Sectioned
<1>6. NoneCut' /\ current' # EmptyText => \A k \in HeadingsTo(seen) : blocks[k].first <= current'.words[1]
  BY SameBlocks
<1>. QED  BY <1>3, <1>4, <1>5, <1>6 DEF Sectioned, EmptyText

\* A paragraph that is next, as a text.
LEMMA TurnFacts ==
  ASSUME ChunksInv, Turns, blocks[seen + 1].level = 0
  PROVE  LET block == blocks[seen + 1]
             text == BlockText(block)
         IN  /\ seen + 1 \in 1 .. Len(blocks) /\ seen' = seen + 1 /\ seen \in Nat
             /\ Consumed \in Nat /\ Consumed' \in Nat /\ Consumed < Consumed' /\ Consumed' = Behind(block) - 1
             /\ block.first = Consumed + 1
             /\ text \in SizedTexts /\ Reads(text, Consumed') /\ text.words[1] = Consumed + 1
             /\ CostOf(text) \in Nat /\ CostOf(text) > 0 /\ text.runes + 2 <= 9 * CostOf(text) /\ text.runes \in Nat
             /\ \A k \in HeadingsTo(seen) : blocks[k].first \in Nat /\ blocks[k].first <= Consumed + 1
<1>. DEFINE block == blocks[seen + 1]  text == BlockText(block)
<1>1. /\ ChunksTypeOK /\ document \in Documents /\ Cohere(blocks) /\ loop = "blocks"
      /\ seen <= Len(blocks) /\ seen' = seen + 1 /\ seen + 1 <= Len(blocks) /\ UNCHANGED <<document, blocks>>
  BY DEF ChunksInv, Chunking, Turns
<1>2. /\ Consumed \in Nat /\ seen \in Nat /\ Len(blocks) \in Nat /\ DOMAIN blocks = 1 .. Len(blocks)
      /\ block.first = Consumed + 1
      /\ \A k \in HeadingsTo(seen) : k \in 1 .. seen /\ k \in 1 .. Len(blocks) /\ blocks[k].first \in Nat
  BY <1>1, ConsumedFacts
<1>3. seen + 1 \in 1 .. Len(blocks)
  BY <1>1, <1>2
<1>4. /\ block.first \in Nat /\ Behind(block) \in Nat \ {0} /\ block.first < Behind(block)
      /\ text \in SizedTexts /\ Reads(text, Behind(block) - 1) /\ text.words[1] = block.first
  BY <1>3, <1>1, BlockFacts
<1>5. Consumed' = Behind(block) - 1
  BY <1>1, <1>2 DEF Consumed
<1>6. text.words # <<>> /\ text.runes \in Nat
  BY <1>4 DEF Reads, SizedTexts
<1>7. CostOf(text) \in Nat /\ CostOf(text) > 0 /\ text.runes + 2 <= 9 * CostOf(text)
  BY <1>4, <1>6, CostFacts
<1>8. ASSUME NEW k \in HeadingsTo(seen)
      PROVE  blocks[k].first \in Nat /\ blocks[k].first <= Consumed + 1
  <2>1. k \in 1 .. seen /\ k \in 1 .. Len(blocks) /\ blocks[k].first \in Nat
    BY <1>2
  <2>2. k \in 1 .. (seen + 1) - 1 /\ seen + 1 \in DOMAIN blocks
    BY <1>2, <1>3, <2>1
  <2>3. Behind(blocks[k]) <= block.first
    BY <1>1, <2>2 DEF Cohere, Rising
  <2>4. Behind(blocks[k]) \in Nat /\ blocks[k].first <= Behind(blocks[k])
    BY <1>1, <2>1, BlockFacts
  <2>. QED  BY <1>2, <2>1, <2>3, <2>4
<1>. HIDE DEF text
<1>. QED  BY <1>1, <1>2, <1>3, <1>4, <1>5, <1>6, <1>7, <1>8 DEF text

LEMMA BoundFacts ==
  ASSUME document \in Documents
  PROVE  /\ Target \in Nat \ {0} /\ Overlap \in Nat /\ Overlap < Target /\ WordCost \in Nat \ {0}
         /\ document.each \in Nat \ {0} /\ document.each <= 4 * WordCost + 3
<1>1. document.each \in Nat \ {0}
  BY DocumentFacts
<1>. QED  BY <1>1, OverlapFacts, WordFacts

LEMMA AddParagraphKeeps ==
  ASSUME ChunksInv, AddParagraph
  PROVE  ChunksInv'
<1>. DEFINE text == BlockText(blocks[seen + 1])  cost == CostOf(text)
<1>1. /\ ChunksTypeOK /\ document \in Documents /\ Cohere(blocks) /\ ChunksFine /\ Filling /\ Sectioned
      /\ seen <= Len(blocks) /\ Follows(blocks) = Follows(document.lines)
      /\ loop = "blocks" /\ seen' = seen + 1 /\ seen + 1 <= Len(blocks) /\ blocks[seen + 1].level = 0 /\ Turns
      /\ cost <= Target
      /\ UNCHANGED <<document, gathered, blocks, loop, heading, cut>>
      /\ \/ /\ curTok > 0 /\ curTok + cost > Target
            /\ Flush /\ current' = Join(lastTail', text, 2) /\ curTok' = CostOf(lastTail') + cost
         \/ /\ ~(curTok > 0 /\ curTok + cost > Target)
            /\ current' = Join(current, text, 2) /\ curTok' = curTok + cost /\ UNCHANGED <<chunks, lastTail>>
  BY DEF ChunksInv, Chunking, AddParagraph, Turns, Fills
<1>2. /\ seen + 1 \in 1 .. Len(blocks) /\ seen \in Nat
      /\ Consumed \in Nat /\ Consumed' \in Nat /\ Consumed < Consumed'
      /\ text \in SizedTexts /\ Reads(text, Consumed') /\ text.words[1] = Consumed + 1
      /\ cost \in Nat /\ cost > 0 /\ text.runes + 2 <= 9 * cost /\ text.runes \in Nat
      /\ \A k \in HeadingsTo(seen) : blocks[k].first \in Nat /\ blocks[k].first <= Consumed + 1
  BY <1>1, TurnFacts
<1>3. /\ Target \in Nat \ {0} /\ Overlap \in Nat /\ WordCost \in Nat \ {0} /\ WordCost' = WordCost
  BY <1>1, BoundFacts, SameBlocks
<1>4. curTok \in Nat /\ current \in SizedTexts
  BY <1>1 DEF ChunksTypeOK
<1>5. \A k \in HeadingsTo(seen) : NoneCut /\ current # EmptyText => blocks[k].first <= current.words[1]
  BY <1>1 DEF Sectioned
<1>. HIDE DEF text, cost
\* What is left to show of the chunk being filled.
<1>6. ASSUME ChunksFine', Reached \in Nat, Reached' \in Nat, Reached <= Reached', Reached' < Consumed',
             current' \in SizedTexts, curTok' \in Nat \ {0}, Reads(current', Consumed'), current'.words[1] <= Reached' + 1,
             current'.runes <= 9 * (Target + Overlap + WordCost),
             curTok' <= Target => current'.runes + 2 <= 9 * curTok',
             NoneCut => \A k \in HeadingsTo(seen) : blocks[k].first <= current'.words[1]
      PROVE  ChunksInv'
  <2>1. current' # EmptyText
    BY <1>6 DEF Reads, EmptyText
  <2>2. Filling'
    BY <1>1, <1>3, <1>6, <2>1 DEF Filling, Small, EmptyText, CutLoops, Reads, Passage
  <2>3. Sectioned'
    BY <1>1, <1>6, SameSection
  <2>4. ChunksTypeOK'
    BY <1>1, <1>2, <1>6 DEF ChunksTypeOK, ChunksFine
  <2>5. Chunking'
    BY <1>1, <1>6, <2>2, <2>3 DEF Chunking, CutLoops
  <2>. QED  BY <1>1, <2>4, <2>5 DEF ChunksInv
<1>7. CASE /\ curTok > 0 /\ curTok + cost > Target
           /\ Flush /\ current' = Join(lastTail', text, 2) /\ curTok' = CostOf(lastTail') + cost
  <2>1. /\ ChunksFine' /\ Reached' = Consumed /\ Reached <= Consumed /\ Reached \in Nat
        /\ current # EmptyText /\ lastTail' # EmptyText => current.words[1] <= lastTail'.words[1]
    BY <1>1, <1>7, FlushKeeps
  <2>2. current # EmptyText
    BY <1>1, <1>7 DEF Filling
  <2>3. current.words[1] \in Nat /\ current.words[1] <= Consumed + 1
    <3>1. Reads(current, Consumed)
      BY <1>1, <2>2 DEF Filling
    <3>2. current.words[1] \in Nat \ {0} /\ current.words[1] <= Consumed
      BY <1>2, <3>1, ReadsFacts
    <3>. QED  BY <1>2, <3>2
  <2>4. /\ lastTail' \in SizedTexts /\ (lastTail' # EmptyText => Reads(lastTail', Consumed))
        /\ (lastTail' # EmptyText => lastTail'.runes + 2 <= 9 * (Overlap + WordCost - 1))
    BY <2>1, <1>3 DEF ChunksFine, TailReads, TailSmall, EmptyText, Reads, Passage
  <2>5. 2 \in Nat /\ current' = Join(lastTail', text, 2)
    BY <1>7
  <2>6. /\ current' \in SizedTexts /\ Reads(current', Consumed')
        /\ lastTail' = EmptyText => current' = text
        /\ lastTail' # EmptyText => /\ current'.words[1] = lastTail'.words[1]
                                    /\ current'.runes = lastTail'.runes + 2 + text.runes
    <3>. DEFINE tail == lastTail'  upto == Consumed'
    <3>1. tail \in SizedTexts /\ upto \in Nat /\ (tail # EmptyText => Reads(tail, Consumed) /\ text.words[1] = Consumed + 1)
      BY <1>2, <2>4
    <3>2. Reads(text, upto)
      BY <1>2
    <3>. HIDE DEF tail, upto
    <3>3. /\ Join(tail, text, 2) \in SizedTexts /\ Reads(Join(tail, text, 2), upto)
          /\ tail = EmptyText => Join(tail, text, 2) = text
          /\ tail # EmptyText => /\ Join(tail, text, 2).words[1] = tail.words[1]
                                 /\ Join(tail, text, 2).runes = tail.runes + 2 + text.runes
      BY <1>2, <2>5, <3>1, <3>2, JoinReads
    <3>. QED  BY <2>5, <3>3 DEF tail, upto
  <2>7. /\ CostOf(lastTail') \in Nat /\ lastTail'.runes \in Nat
        /\ lastTail' # EmptyText => lastTail'.runes + 2 <= 9 * CostOf(lastTail')
    <3>. DEFINE tail == lastTail'
    <3>1. tail \in SizedTexts /\ (tail # EmptyText => tail.words # <<>>)
      BY <2>4 DEF Reads
    <3>. HIDE DEF tail
    <3>2. CostOf(tail) \in Nat /\ (tail # EmptyText => tail.runes + 2 <= 9 * CostOf(tail)) /\ tail.runes \in Nat
      BY <3>1, CostFacts DEF SizedTexts
    <3>. QED  BY <3>2 DEF tail
  <2>8. curTok' \in Nat \ {0} /\ curTok' = CostOf(lastTail') + cost
    BY <1>2, <1>7, <2>7
  <2>9. current'.runes <= 9 * (Target + Overlap + WordCost) /\ current'.runes + 2 <= 9 * curTok'
    <3>. DEFINE paid == CostOf(lastTail')  tail == lastTail'.runes  runes == current'.runes  new == text.runes
    <3>1. /\ paid \in Nat /\ tail \in Nat /\ new \in Nat /\ cost <= Target /\ new + 2 <= 9 * cost
          /\ cost \in Nat /\ curTok' = paid + cost /\ Target \in Nat /\ Overlap \in Nat /\ WordCost \in Nat \ {0}
      BY <1>1, <1>2, <1>3, <2>7, <2>8
    <3>2. \/ runes = new
          \/ runes = tail + 2 + new /\ tail + 2 <= 9 * (Overlap + WordCost - 1) /\ tail + 2 <= 9 * paid
      BY <2>4, <2>6, <2>7
    <3>. HIDE DEF paid, tail, runes, new
    <3>3. new + 2 <= 9 * Target /\ 9 * curTok' = 9 * paid + 9 * cost
      BY <3>1
    <3>4. CASE runes = new
      <4>1. runes + 2 <= 9 * curTok'
        BY <3>1, <3>3, <3>4
      <4>2. runes <= 9 * (Target + Overlap + WordCost)
        BY <3>1, <3>3, <3>4
      <4>. QED  BY <4>1, <4>2 DEF runes
    <3>5. CASE runes = tail + 2 + new /\ tail + 2 <= 9 * (Overlap + WordCost - 1) /\ tail + 2 <= 9 * paid
      <4>1. runes + 2 <= 9 * curTok'
        BY <3>1, <3>3, <3>5
      <4>2. runes <= 9 * (Target + Overlap + WordCost)
        BY <3>1, <3>3, <3>5
      <4>. QED  BY <4>1, <4>2 DEF runes
    <3>. QED  BY <3>2, <3>4, <3>5
  <2>10. current.words[1] <= current'.words[1] /\ current'.words[1] <= Consumed + 1 /\ current'.words[1] \in Nat
    <3>1. CASE lastTail' = EmptyText
      BY <1>2, <2>3, <2>6, <3>1
    <3>2. CASE lastTail' # EmptyText
      <4>1. lastTail'.words[1] \in Nat /\ lastTail'.words[1] <= Consumed
        BY <1>2, <2>4, <3>2, ReadsFacts
      <4>. QED  BY <1>2, <2>1, <2>2, <2>6, <3>2, <4>1
    <3>. QED  BY <3>1, <3>2
  <2>11. NoneCut => \A k \in HeadingsTo(seen) : blocks[k].first <= current'.words[1]
    BY <1>2, <1>5, <2>2, <2>3, <2>10
  <2>. QED  BY <1>2, <1>6, <2>1, <2>6, <2>8, <2>9, <2>10, <2>11
<1>8. CASE /\ ~(curTok > 0 /\ curTok + cost > Target)
           /\ current' = Join(current, text, 2) /\ curTok' = curTok + cost /\ UNCHANGED <<chunks, lastTail>>
  <2>1. ChunksFine' /\ Reached' = Reached /\ Reached \in Nat
    <3>1. Reached \in Nat
      BY <1>1, SentFacts DEF ChunksFine
    <3>. QED  BY <1>1, <1>8, <3>1, FineRests
  <2>2. /\ current = EmptyText => Reached = Consumed /\ curTok = 0
        /\ current # EmptyText =>
             /\ Reads(current, Consumed) /\ Reached < Consumed /\ current.words[1] <= Reached + 1 /\ curTok > 0
             /\ (curTok <= Target => current.runes + 2 <= 9 * curTok)
    BY <1>1, <1>4 DEF Filling
  <2>3. /\ current' \in SizedTexts /\ Reads(current', Consumed')
        /\ current = EmptyText => current' = text
        /\ current # EmptyText => /\ current'.words[1] = current.words[1]
                                  /\ current'.runes = current.runes + 2 + text.runes
    <3>. DEFINE upto == Consumed'
    <3>1. upto \in Nat /\ Reads(text, upto) /\ 2 \in Nat
      BY <1>2
    <3>. HIDE DEF upto
    <3>2. /\ Join(current, text, 2) \in SizedTexts /\ Reads(Join(current, text, 2), upto)
          /\ current = EmptyText => Join(current, text, 2) = text
          /\ current # EmptyText => /\ Join(current, text, 2).words[1] = current.words[1]
                                    /\ Join(current, text, 2).runes = current.runes + 2 + text.runes
      BY <1>2, <1>4, <2>2, <3>1, JoinReads
    <3>. QED  BY <1>8, <3>2 DEF upto
  <2>4. curTok' \in Nat \ {0} /\ curTok' = curTok + cost
    BY <1>2, <1>4, <1>8
  <2>5. current'.runes <= 9 * (Target + Overlap + WordCost) /\ current'.runes + 2 <= 9 * curTok'
    <3>. DEFINE old == current.runes  runes == current'.runes  new == text.runes
    <3>1. /\ new \in Nat /\ cost \in Nat /\ curTok \in Nat /\ new + 2 <= 9 * cost /\ cost <= Target
          /\ curTok' = curTok + cost /\ Target \in Nat /\ Overlap \in Nat /\ WordCost \in Nat
      BY <1>1, <1>2, <1>3, <1>4, <2>4
    <3>2. \/ runes = new
          \/ /\ runes = old + 2 + new /\ old \in Nat /\ old + 2 <= 9 * curTok /\ curTok + cost <= Target
      <4>1. CASE current = EmptyText
        BY <2>3, <4>1
      <4>2. CASE current # EmptyText
        <5>1. curTok + cost <= Target /\ curTok <= Target /\ old \in Nat
          BY <1>2, <1>3, <1>4, <1>8, <2>2, <4>2 DEF SizedTexts
        <5>. QED  BY <2>2, <2>3, <4>2, <5>1
      <4>. QED  BY <4>1, <4>2
    <3>. HIDE DEF old, runes, new
    <3>3. runes <= 9 * (Target + Overlap + WordCost) /\ runes + 2 <= 9 * (curTok + cost)
      BY <3>1, <3>2
    <3>. QED  BY <3>1, <3>3 DEF runes
  <2>6. current'.words[1] <= Reached' + 1 /\ Reached' < Consumed'
    <3>1. CASE current = EmptyText
      BY <1>2, <2>1, <2>2, <2>3, <3>1
    <3>2. CASE current # EmptyText
      BY <1>2, <2>1, <2>2, <2>3, <3>2
    <3>. QED  BY <3>1, <3>2
  <2>7. NoneCut => \A k \in HeadingsTo(seen) : blocks[k].first <= current'.words[1]
    BY <1>2, <1>5, <2>3
  <2>. QED  BY <1>2, <1>6, <2>1, <2>3, <2>4, <2>5, <2>6, <2>7
<1>. QED  BY <1>1, <1>7, <1>8

LEMMA CutParagraphKeeps ==
  ASSUME ChunksInv, CutParagraph
  PROVE  ChunksInv'
<1>. DEFINE block == blocks[seen + 1]  text == BlockText(block)
<1>1. /\ ChunksTypeOK /\ document \in Documents /\ Cohere(blocks) /\ ChunksFine /\ Filling /\ Sectioned
      /\ seen <= Len(blocks) /\ Follows(blocks) = Follows(document.lines)
      /\ loop = "blocks" /\ seen' = seen + 1 /\ seen + 1 <= Len(blocks) /\ block.level = 0 /\ Turns
      /\ CostOf(text) > Target
      /\ UNCHANGED <<document, gathered, blocks, heading>>
      /\ Flush /\ current' = EmptyText /\ curTok' = 0 /\ loop' = "sentences"
      /\ cut' = [NoCut EXCEPT !.word = block.first]
  BY DEF ChunksInv, Chunking, CutParagraph, Turns, Fills
<1>2. /\ seen + 1 \in 1 .. Len(blocks) /\ seen \in Nat
      /\ Consumed \in Nat /\ block.first = Consumed + 1
  BY <1>1, TurnFacts
<1>3. ChunksFine' /\ Reached' = Consumed /\ Reached <= Consumed /\ Reached \in Nat
  BY <1>1, FlushKeeps
<1>4. block.ends \in Seq(Nat) /\ Len(block.ends) \in Nat /\ block.first \in Nat /\ seen + 1 \in DOMAIN blocks
  BY <1>1, <1>2, BlockFacts
<1>5. cut' = [sentence |-> 1, word |-> Consumed + 1, pieces |-> <<>>, open |-> EmptyText, cost |-> 0]
  BY <1>1, <1>2 DEF NoCut
<1>6. ~NoneCut
  BY <1>1, <1>4, OverlapFacts, CostFacts, BlockFacts, <1>2 DEF NoneCut
<1>7. EmptyText \in SizedTexts /\ EmptyText' = EmptyText
  BY DEF EmptyText, SizedTexts
<1>8. ChunksTypeOK'
  <2>1. cut' \in Cuts
    BY <1>2, <1>5, <1>7 DEF Cuts
  <2>. QED  BY <1>1, <1>2, <1>3, <1>7, <2>1 DEF ChunksTypeOK, ChunksFine
<1>9. Pieced(cut)'
  <2>1. DOMAIN cut'.pieces = {} /\ cut'.pieces = <<>> /\ cut'.open = EmptyText /\ cut'.cost = 0 /\ cut'.word = Consumed + 1
    BY <1>5
  <2>. QED  BY <1>2, <1>3, <1>7, <2>1 DEF Pieced, Upto
<1>10. Progress(cut, loop)'
  <2>1. Begin(block, 1) = block.first
    BY DEF Begin
  <2>2. cut'.sentence = 1 /\ cut'.word = block.first /\ 1 \in 1 .. Len(block.ends) + 1
    BY <1>2, <1>4, <1>5
  <2>3. blocks'[seen'] = block /\ seen' > 0 /\ ~NoneCut' /\ block.level = 0 /\ loop' = "sentences"
    BY <1>1, <1>2, <1>6, SameBlocks
  <2>. QED  BY <2>1, <2>2, <2>3 DEF Progress, Begin
<1>11. Sectioned'
  <2>1. current' = EmptyText /\ Reached' \in Nat /\ Reached <= Reached'
    BY <1>1, <1>2, <1>3
  <2>. QED  BY <1>1, <1>3, <2>1, SameSection
<1>12. Filling'
  BY <1>1, <1>7 DEF Filling, CutLoops
<1>13. Chunking'
  BY <1>1, <1>3, <1>9, <1>10, <1>11, <1>12 DEF Chunking
<1>. QED  BY <1>1, <1>8, <1>13 DEF ChunksInv

LEMMA BlocksEndKeeps ==
  ASSUME ChunksInv, BlocksEnd
  PROVE  ChunksInv'
<1>1. /\ ChunksTypeOK /\ document \in Documents /\ Cohere(blocks) /\ ChunksFine /\ Filling /\ Sectioned
      /\ seen = Len(blocks) /\ Follows(blocks) = Follows(document.lines)
      /\ loop = "blocks" /\ Flush /\ current' = EmptyText /\ curTok' = 0 /\ loop' = "over"
      /\ UNCHANGED <<document, seen, gathered, blocks, cut, heading>>
  BY DEF ChunksInv, Chunking, BlocksEnd, Fills
<1>2. ChunksFine' /\ Reached' = Consumed /\ Reached <= Consumed /\ Reached \in Nat
  BY <1>1, FlushKeeps
<1>3. seen \in Nat /\ Consumed \in Nat /\ \A k \in HeadingsTo(seen) : blocks[k].first \in Nat
  <2>1. seen <= Len(blocks)
    BY <1>1 DEF ChunksTypeOK
  <2>. QED  BY <1>1, <2>1, ConsumedFacts
<1>4. Consumed' = Consumed
  BY <1>1 DEF Consumed
<1>5. EmptyText \in SizedTexts /\ EmptyText' = EmptyText
  BY DEF EmptyText, SizedTexts
<1>6. ChunksTypeOK'
  BY <1>1, <1>2, <1>5 DEF ChunksTypeOK, ChunksFine
<1>7. Filling'
  BY <1>1, <1>5 DEF Filling
<1>8. Sectioned'
  <2>1. HeadingsTo(seen)' = HeadingsTo(seen)
    BY <1>1 DEF HeadingsTo
  <2>2. Nested' => Under(HeadingsTo(seen), heading)'
    <3>1. Nested' => Under(HeadingsTo(seen), heading)
      BY <1>1, SameBlocks DEF Sectioned
    <3>. QED  BY <1>1, <2>1, <3>1 DEF Under, Standing
  <2>3. \A k \in HeadingsTo(seen) : blocks[k].first <= Reached' + 1
    BY <1>1, <1>2, <1>3 DEF Sectioned
  <2>. QED  BY <1>1, <1>5, <2>1, <2>2, <2>3 DEF Sectioned
<1>9. Chunking'
  <2>1. seen' <= Len(blocks')
    BY <1>1, <1>3
  <2>. QED  BY <1>1, <1>2, <1>4, <1>7, <1>8, <2>1 DEF Chunking, CutLoops
<1>. QED  BY <1>1, <1>6, <1>9 DEF ChunksInv

-------------------------------------------------------------------------------
(* A paragraph that does not fit is cut into pieces.                             *)

\* While it is cut nothing else changes.
LEMMA CuttingKeeps ==
  ASSUME ChunksInv, NEW now \in CutLoops, Cutting(now), loop' \in CutLoops, cut' \in Cuts,
         Pieced(cut'), Progress(cut', loop')
  PROVE  ChunksInv'
<1>1. /\ ChunksTypeOK /\ document \in Documents /\ Cohere(blocks) /\ ChunksFine /\ Filling /\ Sectioned
      /\ seen <= Len(blocks) /\ Follows(blocks) = Follows(document.lines) /\ loop \in CutLoops
      /\ UNCHANGED <<document, seen, gathered, blocks, chunks, current, curTok, heading, lastTail>>
  BY DEF ChunksInv, Chunking, Cutting, CutLoops
<1>2. ChunksFine' /\ Reached' = Reached
  BY <1>1, FineRests
<1>3. WordCost' = WordCost /\ (NoneCut <=> NoneCut') /\ (Nested <=> Nested')
  BY <1>1, SameBlocks
<1>4. Pieced(cut)'
  BY <1>1, <1>2, <1>3 DEF Pieced, Opened, Upto, PieceSmall, Reads, Passage, LastOf, EmptyText
<1>5. Progress(cut, loop)'
  BY <1>1, <1>3 DEF Progress, Begin, Behind, EmptyText
<1>6. Filling'
  BY <1>1 DEF Filling, EmptyText, CutLoops, Small, WordCost
<1>7. Sectioned'
  <2>1. HeadingsTo(seen)' = HeadingsTo(seen)
    BY <1>1 DEF HeadingsTo
  <2>2. Nested' => Under(HeadingsTo(seen), heading)'
    <3>1. Nested' => Under(HeadingsTo(seen), heading)
      BY <1>1, <1>3 DEF Sectioned
    <3>. QED  BY <1>1, <2>1, <3>1 DEF Under, Standing
  <2>. QED  BY <1>1, <1>2, <1>3, <2>1, <2>2 DEF Sectioned, EmptyText
<1>8. ChunksTypeOK'
  BY <1>1 DEF ChunksTypeOK, CutLoops
<1>9. Chunking'
  BY <1>1, <1>2, <1>4, <1>5, <1>6, <1>7 DEF Chunking, CutLoops
<1>. QED  BY <1>1, <1>8, <1>9 DEF ChunksInv, CutLoops

LEMMA CutFacts ==
  ASSUME ChunksInv, loop \in CutLoops
  PROVE  /\ ChunksTypeOK /\ document \in Documents /\ Cohere(blocks) /\ Pieced(cut) /\ Progress(cut, loop)
         /\ seen \in 1 .. Len(blocks) /\ blocks[seen].level = 0 /\ ~NoneCut
         /\ cut \in Cuts /\ cut.sentence \in Nat /\ cut.word \in Nat /\ cut.cost \in Nat /\ cut.open \in SizedTexts
         /\ cut.pieces \in Seq(SizedTexts) /\ Reached \in Nat /\ ChunksFine /\ current = EmptyText
         /\ blocks[seen].ends \in Seq(Nat) /\ Ordered(blocks[seen]) /\ blocks[seen].first \in Nat \ {0}
<1>1. /\ ChunksTypeOK /\ document \in Documents /\ Cohere(blocks) /\ Pieced(cut) /\ Progress(cut, loop)
      /\ seen <= Len(blocks) /\ ChunksFine /\ Filling
  BY DEF ChunksInv, Chunking, CutLoops
<1>2. seen \in 1 .. Len(blocks) /\ blocks[seen].level = 0 /\ ~NoneCut
  BY <1>1 DEF Progress, ChunksTypeOK
<1>3. cut \in Cuts
  BY <1>1 DEF ChunksTypeOK
<1>4. Reached \in Nat
  BY <1>1, SentFacts DEF ChunksFine
<1>5. blocks[seen].ends \in Seq(Nat) /\ Ordered(blocks[seen]) /\ blocks[seen].first \in Nat \ {0}
  BY <1>1, <1>2, BlockFacts
<1>. QED  BY <1>1, <1>2, <1>3, <1>4, <1>5 DEF Cuts, Filling

\* What is open becomes a piece of its own.
LEMMA PieceAdded ==
  ASSUME ChunksInv, loop \in CutLoops, cut.open # EmptyText,
         NEW c \in Cuts, c.pieces = Append(cut.pieces, cut.open), cut.word <= c.word
  PROVE  /\ \A k \in DOMAIN c.pieces :
              /\ Reads(c.pieces[k], LastOf(c.pieces[k])) /\ PieceSmall(c.pieces[k])
              /\ c.pieces[k].words[1] = (IF k = 1 THEN Reached ELSE LastOf(c.pieces[k - 1])) + 1
              /\ LastOf(c.pieces[k]) < c.word
         /\ Upto(c) = cut.word - 1
<1>. DEFINE n == Len(cut.pieces)
<1>1. /\ cut.pieces \in Seq(SizedTexts) /\ cut.open \in SizedTexts /\ Pieced(cut) /\ cut.word \in Nat /\ c.word \in Nat
      /\ n \in Nat /\ DOMAIN cut.pieces = 1 .. n
  BY CutFacts DEF Cuts
<1>2. /\ Reads(cut.open, cut.word - 1) /\ cut.open.words[1] = Upto(cut) + 1 /\ PieceSmall(cut.open)
  BY <1>1 DEF Pieced, Opened
<1>3. cut.word - 1 \in Nat
  <2>1. 1 .. cut.word - 1 # {}
    BY <1>2 DEF Reads
  <2>. QED  BY <1>1, <2>1
<1>4. LastOf(cut.open) = cut.word - 1
  BY <1>2, <1>3, ReadsFacts
<1>5. /\ Len(c.pieces) = n + 1 /\ DOMAIN c.pieces = 1 .. n + 1 /\ c.pieces # <<>>
      /\ \A k \in 1 .. n : c.pieces[k] = cut.pieces[k]
      /\ c.pieces[n + 1] = cut.open
  BY <1>1, AppendProperties
<1>6. ASSUME NEW k \in 1 .. n + 1
      PROVE  /\ Reads(c.pieces[k], LastOf(c.pieces[k])) /\ PieceSmall(c.pieces[k])
             /\ c.pieces[k].words[1] = (IF k = 1 THEN Reached ELSE LastOf(c.pieces[k - 1])) + 1
             /\ LastOf(c.pieces[k]) < c.word
  <2>1. CASE k \in 1 .. n
    <3>1. c.pieces[k] = cut.pieces[k] /\ (k # 1 => c.pieces[k - 1] = cut.pieces[k - 1]) /\ k \in DOMAIN cut.pieces
      BY <1>1, <1>5, <2>1
    <3>2. /\ Reads(cut.pieces[k], LastOf(cut.pieces[k])) /\ PieceSmall(cut.pieces[k])
          /\ cut.pieces[k].words[1] = (IF k = 1 THEN Reached ELSE LastOf(cut.pieces[k - 1])) + 1
          /\ LastOf(cut.pieces[k]) < cut.word
      BY <1>1, <3>1 DEF Pieced
    <3>3. LastOf(cut.pieces[k]) \in Nat
      <4>1. cut.pieces[k] \in SizedTexts
        BY <1>1, <3>1, ElementType, Zenon
      <4>2. cut.pieces[k].words \in Seq(Nat) /\ cut.pieces[k].words # <<>>
        BY <3>2, <4>1 DEF SizedTexts, Reads
      <4>. QED  BY <4>2 DEF LastOf
    <3>. QED  BY <1>1, <3>1, <3>2, <3>3
  <2>2. CASE k = n + 1
    <3>1. c.pieces[k] = cut.open /\ LastOf(c.pieces[k]) = cut.word - 1
      BY <1>4, <1>5, <2>2
    <3>2. Upto(cut) = IF k = 1 THEN Reached ELSE LastOf(c.pieces[k - 1])
      <4>1. CASE n = 0
        <5>1. cut.pieces = <<>>
          BY <1>1, <4>1
        <5>. QED  BY <2>2, <4>1, <5>1 DEF Upto
      <4>2. CASE n # 0
        <5>1. cut.pieces # <<>> /\ k # 1 /\ k - 1 = n /\ c.pieces[k - 1] = cut.pieces[n]
          BY <1>1, <1>5, <2>2, <4>2
        <5>. QED  BY <5>1 DEF Upto
      <4>. QED  BY <4>1, <4>2
    <3>3. cut.word - 1 < c.word
      BY <1>1
    <3>. QED  BY <1>2, <3>1, <3>2, <3>3
  <2>. QED  BY <1>1, <2>1, <2>2
<1>7. Upto(c) = cut.word - 1
  BY <1>4, <1>5 DEF Upto
<1>. QED  BY <1>5, <1>6, <1>7

\* The pieces stay as they are.
LEMMA PiecesStay ==
  ASSUME ChunksInv, loop \in CutLoops, NEW c \in Cuts, c.pieces = cut.pieces, cut.word <= c.word
  PROVE  /\ \A k \in DOMAIN c.pieces :
              /\ Reads(c.pieces[k], LastOf(c.pieces[k])) /\ PieceSmall(c.pieces[k])
              /\ c.pieces[k].words[1] = (IF k = 1 THEN Reached ELSE LastOf(c.pieces[k - 1])) + 1
              /\ LastOf(c.pieces[k]) < c.word
         /\ Upto(c) = Upto(cut)
<1>1. cut.pieces \in Seq(SizedTexts) /\ Pieced(cut) /\ cut.word \in Nat /\ c.word \in Nat
  BY CutFacts DEF Cuts
<1>2. Upto(c) = Upto(cut)
  BY DEF Upto
<1>3. ASSUME NEW k \in DOMAIN cut.pieces
      PROVE  LastOf(cut.pieces[k]) < c.word
  <2>1. Reads(cut.pieces[k], LastOf(cut.pieces[k])) /\ LastOf(cut.pieces[k]) < cut.word
    BY <1>1 DEF Pieced
  <2>2. cut.pieces[k] \in SizedTexts
    BY <1>1, ElementType, Zenon
  <2>3. cut.pieces[k].words \in Seq(Nat) /\ cut.pieces[k].words # <<>>
    BY <2>1, <2>2 DEF SizedTexts, Reads
  <2>4. LastOf(cut.pieces[k]) \in Nat
    BY <2>3 DEF LastOf
  <2>. QED  BY <1>1, <2>1, <2>4
<1>. QED  BY <1>1, <1>2, <1>3 DEF Pieced

LEMMA PackedKeeps ==
  ASSUME ChunksInv, loop \in CutLoops, NEW text \in SizedTexts, NEW last \in Nat,
         Reads(text, last), text.words[1] = cut.word,
         CostOf(text) <= Target \/ (WordCost > Target /\ text.runes <= document.each),
         NEW c \in Cuts, c.pieces = Packed(text).pieces, c.open = Packed(text).open, c.cost = Packed(text).cost,
         c.word = last + 1
  PROVE  Pieced(c)
<1>1. /\ Pieced(cut) /\ cut \in Cuts /\ cut.word \in Nat /\ cut.cost \in Nat /\ cut.open \in SizedTexts
      /\ cut.pieces \in Seq(SizedTexts) /\ Target \in Nat /\ c.word \in Nat
  BY CutFacts, OverlapFacts
<1>2. text.words # <<>> /\ text # EmptyText /\ cut.word <= last /\ cut.word > 0
  <2>1. /\ text.words[1] \in Nat \ {0} /\ text.words[1] <= last /\ text # EmptyText
    BY ReadsFacts
  <2>2. text.words # <<>>
    BY DEF Reads
  <2>. QED  BY <2>1, <2>2
<1>3. CostOf(text) \in Nat \ {0} /\ text.runes + 2 <= 9 * CostOf(text) /\ text.runes \in Nat
  <2>1. CostOf(text) \in Nat /\ CostOf(text) > 0 /\ text.runes + 2 <= 9 * CostOf(text)
    BY <1>2, CostFacts
  <2>2. text.runes \in Nat
    BY DEF SizedTexts
  <2>. QED  BY <2>1, <2>2
<1>4. PieceSmall(text)
  <2>1. CASE CostOf(text) <= Target
    BY <1>1, <1>3, <2>1 DEF PieceSmall
  <2>2. CASE WordCost > Target /\ text.runes <= document.each
    BY <2>2 DEF PieceSmall
  <2>. QED  BY <2>1, <2>2
<1>5. cut.word <= c.word /\ c.word - 1 = last
  BY <1>1, <1>2
<1>6. CASE cut.cost > 0 /\ cut.cost + CostOf(text) > Target
  <2>1. c.pieces = Append(cut.pieces, cut.open) /\ c.open = text /\ c.cost = CostOf(text)
    BY <1>1, <1>6 DEF Packed, Cuts
  <2>2. cut.open # EmptyText
    BY <1>1, <1>6 DEF Pieced
  <2>3. /\ \A k \in DOMAIN c.pieces :
             /\ Reads(c.pieces[k], LastOf(c.pieces[k])) /\ PieceSmall(c.pieces[k])
             /\ c.pieces[k].words[1] = (IF k = 1 THEN Reached ELSE LastOf(c.pieces[k - 1])) + 1
             /\ LastOf(c.pieces[k]) < c.word
        /\ Upto(c) = cut.word - 1
    BY <1>5, <2>1, <2>2, PieceAdded
  <2>4. Opened(c)
    BY <1>1, <1>2, <1>3, <1>4, <1>5, <2>1, <2>3 DEF Opened
  <2>. QED  BY <1>2, <1>3, <2>1, <2>3, <2>4 DEF Pieced
<1>7. CASE ~(cut.cost > 0 /\ cut.cost + CostOf(text) > Target)
  <2>1. c.pieces = cut.pieces /\ c.open = Join(cut.open, text, 1) /\ c.cost = cut.cost + CostOf(text)
    BY <1>1, <1>7 DEF Packed, Cuts
  <2>2. /\ \A k \in DOMAIN c.pieces :
             /\ Reads(c.pieces[k], LastOf(c.pieces[k])) /\ PieceSmall(c.pieces[k])
             /\ c.pieces[k].words[1] = (IF k = 1 THEN Reached ELSE LastOf(c.pieces[k - 1])) + 1
             /\ LastOf(c.pieces[k]) < c.word
        /\ Upto(c) = Upto(cut)
    BY <1>5, <2>1, PiecesStay
  <2>3. CASE cut.open = EmptyText
    <3>1. Upto(cut) = cut.word - 1 /\ cut.cost = 0
      BY <1>1, <2>3 DEF Pieced
    <3>2. c.open = text /\ c.cost = CostOf(text)
      BY <1>3, <2>1, <2>3, <3>1 DEF Join
    <3>3. Opened(c)
      BY <1>1, <1>2, <1>3, <1>4, <1>5, <2>2, <3>1, <3>2 DEF Opened
    <3>. QED  BY <1>2, <1>3, <2>2, <3>2, <3>3 DEF Pieced
  <2>4. CASE cut.open # EmptyText
    <3>1. Opened(cut) /\ cut.cost > 0
      BY <1>1, <2>4 DEF Pieced
    <3>2. Reads(cut.open, cut.word - 1) /\ cut.open.words[1] = Upto(cut) + 1 /\ cut.open.runes + 2 <= 9 * cut.cost
      BY <3>1 DEF Opened
    <3>3. cut.word - 1 \in Nat /\ text.words[1] = (cut.word - 1) + 1 /\ 1 \in Nat
      BY <1>1, <1>2
    <3>4. /\ Reads(Join(cut.open, text, 1), last) /\ Join(cut.open, text, 1).words[1] = cut.open.words[1]
          /\ Join(cut.open, text, 1).runes = cut.open.runes + 1 + text.runes
      <4>. DEFINE m == cut.word - 1  open == cut.open
      <4>1. m \in Nat /\ open \in SizedTexts /\ open # EmptyText /\ Reads(open, m) /\ text.words[1] = m + 1
        BY <1>1, <2>4, <3>2, <3>3
      <4>. HIDE DEF m, open
      <4>2. /\ Reads(Join(open, text, 1), last) /\ Join(open, text, 1).words[1] = open.words[1]
            /\ Join(open, text, 1).runes = open.runes + 1 + text.runes
        BY <3>3, <4>1, JoinReads
      <4>. QED  BY <4>2 DEF open
    <3>5. cut.cost + CostOf(text) <= Target /\ cut.open.runes \in Nat
      <4>1. cut.open.runes \in Nat
        BY <1>1 DEF SizedTexts
      <4>. DEFINE price == CostOf(text)
      <4>2. price \in Nat /\ cut.cost \in Nat /\ Target \in Nat /\ ~(cut.cost + price > Target)
        BY <1>1, <1>3, <1>7, <3>1
      <4>. HIDE DEF price
      <4>3. cut.cost + price <= Target
        BY <4>2
      <4>. QED  BY <4>1, <4>3 DEF price
    <3>6. c.open.runes = cut.open.runes + 1 + text.runes
      BY <2>1, <3>4
    <3>7. c.open.runes + 2 <= 9 * c.cost /\ c.open.runes + 2 <= 9 * Target
      <4>. DEFINE runes == c.open.runes  old == cut.open.runes  new == text.runes  paid == cut.cost  price == CostOf(text)
      <4>1. /\ runes = old + 1 + new /\ old + 2 <= 9 * paid /\ new + 2 <= 9 * price /\ paid + price <= Target
            /\ c.cost = paid + price /\ old \in Nat /\ new \in Nat /\ paid \in Nat /\ price \in Nat /\ Target \in Nat
        BY <1>1, <1>3, <2>1, <3>2, <3>5, <3>6
      <4>. HIDE DEF runes, old, new, paid, price
      <4>2. runes + 2 <= 9 * (paid + price) /\ runes + 2 <= 9 * Target
        BY <4>1
      <4>. QED  BY <4>1, <4>2 DEF runes
    <3>8. Opened(c)
      BY <1>5, <2>1, <2>2, <3>2, <3>4, <3>7 DEF Opened, PieceSmall
    <3>9. c.open # EmptyText /\ c.cost # 0
      <4>1. c.open.words # <<>>
        BY <2>1, <3>4 DEF Reads
      <4>. QED  BY <1>1, <1>3, <2>1, <4>1 DEF EmptyText
    <3>. QED  BY <2>2, <3>8, <3>9 DEF Pieced
  <2>. QED  BY <2>3, <2>4
<1>. QED  BY <1>6, <1>7

LEMMA ClosedKeeps ==
  ASSUME ChunksInv, loop \in CutLoops, NEW c \in Cuts,
         c.pieces = Closed.pieces, c.open = Closed.open, c.cost = Closed.cost, c.word = cut.word
  PROVE  Pieced(c) /\ c.open = EmptyText
<1>1. Pieced(cut) /\ cut \in Cuts /\ cut.word \in Nat
  BY CutFacts
<1>2. CASE cut.open = EmptyText
  <2>1. c.pieces = cut.pieces /\ c.open = EmptyText /\ c.cost = cut.cost /\ Upto(cut) = cut.word - 1 /\ cut.cost = 0
    BY <1>1, <1>2 DEF Closed, Pieced
  <2>2. /\ \A k \in DOMAIN c.pieces :
             /\ Reads(c.pieces[k], LastOf(c.pieces[k])) /\ PieceSmall(c.pieces[k])
             /\ c.pieces[k].words[1] = (IF k = 1 THEN Reached ELSE LastOf(c.pieces[k - 1])) + 1
             /\ LastOf(c.pieces[k]) < c.word
        /\ Upto(c) = Upto(cut)
    BY <1>1, <2>1, PiecesStay
  <2>. QED  BY <2>1, <2>2 DEF Pieced
<1>3. CASE cut.open # EmptyText
  <2>1. c.pieces = Append(cut.pieces, cut.open) /\ c.open = EmptyText /\ c.cost = 0 /\ cut.word <= c.word
    BY <1>1, <1>3 DEF Closed, Cuts
  <2>2. /\ \A k \in DOMAIN c.pieces :
             /\ Reads(c.pieces[k], LastOf(c.pieces[k])) /\ PieceSmall(c.pieces[k])
             /\ c.pieces[k].words[1] = (IF k = 1 THEN Reached ELSE LastOf(c.pieces[k - 1])) + 1
             /\ LastOf(c.pieces[k]) < c.word
        /\ Upto(c) = cut.word - 1
    BY <1>1, <1>3, <2>1, PieceAdded
  <2>. QED  BY <2>1, <2>2 DEF Pieced
<1>. QED  BY <1>2, <1>3

LEMMA JoinType ==
  ASSUME NEW a \in SizedTexts, NEW b \in SizedTexts, NEW between \in Nat
  PROVE  Join(a, b, between) \in SizedTexts
<1>1. a.words \in Seq(Nat) /\ b.words \in Seq(Nat) /\ a.runes \in Nat /\ b.runes \in Nat
  BY DEF SizedTexts
<1>2. a.words \o b.words \in Seq(Nat)
  BY <1>1, ConcatProperties
<1>. QED  BY <1>1, <1>2 DEF Join, SizedTexts

LEMMA PackTypes ==
  ASSUME cut \in Cuts
  PROVE  /\ Closed \in Cuts /\ Closed.word = cut.word /\ Closed.sentence = cut.sentence
         /\ \A text \in SizedTexts :
              Packed(text) \in Cuts /\ Packed(text).sentence = cut.sentence /\ Packed(text).word = cut.word
<1>1. /\ cut.pieces \in Seq(SizedTexts) /\ cut.open \in SizedTexts /\ EmptyText \in SizedTexts
      /\ Append(cut.pieces, cut.open) \in Seq(SizedTexts) /\ cut.cost \in Nat
  <2>1. cut.pieces \in Seq(SizedTexts) /\ cut.open \in SizedTexts /\ EmptyText \in SizedTexts /\ cut.cost \in Nat
    BY DEF Cuts, EmptyText, SizedTexts
  <2>. QED  BY <2>1, AppendProperties
<1>2. Closed \in Cuts /\ Closed.word = cut.word /\ Closed.sentence = cut.sentence
  BY <1>1 DEF Closed, Cuts
<1>3. ASSUME NEW text \in SizedTexts
      PROVE  Packed(text) \in Cuts /\ Packed(text).sentence = cut.sentence /\ Packed(text).word = cut.word
  <2>1. CostOf(text) \in Nat /\ Join(cut.open, text, 1) \in SizedTexts /\ 1 \in Nat
    BY <1>1, CostFacts, JoinType
  <2>2. CASE cut.cost > 0 /\ cut.cost + CostOf(text) > Target
    <3>1. Packed(text) = [cut EXCEPT !.pieces = Append(@, cut.open), !.open = text, !.cost = CostOf(text)]
      BY <2>2 DEF Packed
    <3>. QED  BY <1>1, <2>1, <3>1 DEF Cuts
  <2>3. CASE ~(cut.cost > 0 /\ cut.cost + CostOf(text) > Target)
    <3>1. Packed(text) = [cut EXCEPT !.open = Join(cut.open, text, 1), !.cost = @ + CostOf(text)]
      BY <2>3 DEF Packed
    <3>2. cut.cost + CostOf(text) \in Nat
      BY <1>1, <2>1
    <3>. QED  BY <1>1, <2>1, <3>1, <3>2 DEF Cuts
  <2>. QED  BY <2>2, <2>3
<1>. QED  BY <1>2, <1>3

\* cut when a text that ends at last was packed, and sentence n is next.
PackedTo(text, n, last) == [Packed(text) EXCEPT !.sentence = n, !.word = last + 1]

LEMMA PackStep ==
  ASSUME ChunksInv, loop \in CutLoops, NEW text \in SizedTexts, NEW last \in Nat,
         Reads(text, last), text.words[1] = cut.word,
         CostOf(text) <= Target \/ (WordCost > Target /\ text.runes <= document.each),
         NEW n \in Nat
  PROVE  LET c == PackedTo(text, n, last)
         IN  c \in Cuts /\ Pieced(c) /\ c.sentence = n /\ c.word = last + 1
<1>. DEFINE p == Packed(text)  c == PackedTo(text, n, last)
<1>1. p \in Cuts
  BY CutFacts, PackTypes
<1>. HIDE DEF p
<1>2. last + 1 \in Nat /\ c = [p EXCEPT !.sentence = n, !.word = last + 1]
  BY DEF p, PackedTo
<1>. HIDE DEF c
<1>3. /\ c \in Cuts /\ c.sentence = n /\ c.word = last + 1
      /\ c.pieces = p.pieces /\ c.open = p.open /\ c.cost = p.cost
  BY <1>1, <1>2 DEF Cuts
<1>4. Pieced(c)
  BY <1>3, PackedKeeps DEF p
<1>. QED  BY <1>3, <1>4 DEF c

LEMMA CloseStep ==
  ASSUME ChunksInv, loop \in CutLoops, NEW n \in Nat, NEW c, c = [Closed EXCEPT !.sentence = n]
  PROVE  c \in Cuts /\ Pieced(c) /\ c.open = EmptyText /\ c.sentence = n /\ c.word = cut.word
<1>. DEFINE p == Closed
<1>1. p \in Cuts /\ p.word = cut.word
  BY CutFacts, PackTypes
<1>. HIDE DEF p
<1>2. c = [p EXCEPT !.sentence = n]
  BY DEF p
<1>3. /\ c \in Cuts /\ c.sentence = n /\ c.word = cut.word
      /\ c.pieces = p.pieces /\ c.open = p.open /\ c.cost = p.cost
  BY <1>1, <1>2 DEF Cuts
<1>4. Pieced(c) /\ c.open = EmptyText
  BY <1>3, ClosedKeeps DEF p
<1>. QED  BY <1>3, <1>4

\* The actions that cut.
LEMMA PackSentenceKeeps ==
  ASSUME ChunksInv, PackSentence
  PROVE  ChunksInv'
<1>. DEFINE block == blocks[seen]  text == Span(cut.word, Ending)
<1>1. /\ Cutting("sentences") /\ loop = "sentences" /\ cut.sentence <= Len(block.ends) /\ loop \in CutLoops
      /\ \/ /\ CostOf(text) <= Target /\ loop' = loop
            /\ cut' = [Packed(text) EXCEPT !.sentence = @ + 1, !.word = Ending + 1]
         \/ cut' = Closed /\ loop' = "words"
  BY DEF PackSentence, Cutting, CutLoops
<1>2. /\ document \in Documents /\ Progress(cut, "sentences") /\ seen > 0 /\ block.level = 0 /\ ~NoneCut
      /\ cut \in Cuts /\ cut.sentence \in Nat /\ cut.word \in Nat
      /\ block.ends \in Seq(Nat) /\ Ordered(block) /\ block.first \in Nat \ {0}
  BY <1>1, CutFacts DEF Progress
<1>3. /\ cut.sentence \in 1 .. Len(block.ends) /\ Len(block.ends) \in Nat
      /\ cut.word = Begin(block, cut.sentence)
  BY <1>1, <1>2 DEF Progress
<1>4. /\ Ending \in Nat /\ cut.word \in Nat \ {0} /\ cut.word <= Ending
      /\ Begin(block, cut.sentence + 1) = Ending + 1
  <2>. HIDE DEF block
  <2>1. /\ block.ends[cut.sentence] \in Nat /\ Begin(block, cut.sentence) \in Nat \ {0}
        /\ Begin(block, cut.sentence) <= block.ends[cut.sentence]
        /\ Begin(block, cut.sentence + 1) = block.ends[cut.sentence] + 1
    BY <1>2, <1>3, PartFacts
  <2>. QED  BY <1>3, <2>1 DEF Ending, block
<1>5. CASE /\ CostOf(text) <= Target /\ loop' = loop
           /\ cut' = [Packed(text) EXCEPT !.sentence = @ + 1, !.word = Ending + 1]
  <2>1. document.each \in Nat \ {0}
    BY <1>2, DocumentFacts
  <2>2. text \in SizedTexts /\ Reads(text, Ending) /\ text.words[1] = cut.word
    BY <1>4, <2>1, SpanFacts
  <2>3. Packed(text).sentence = cut.sentence /\ cut.sentence + 1 \in Nat /\ Packed(text) \in Cuts
    BY <1>2, <2>2, PackTypes
  <2>. HIDE DEF text
  <2>4. cut' = PackedTo(text, cut.sentence + 1, Ending)
    BY <1>5, <2>3 DEF Cuts, PackedTo
  <2>5. cut' \in Cuts /\ Pieced(cut') /\ cut'.sentence = cut.sentence + 1 /\ cut'.word = Ending + 1
    BY <1>1, <1>4, <1>5, <2>2, <2>3, <2>4, PackStep
  <2>6. Progress(cut', "sentences")
    <3>1. cut'.sentence \in 1 .. Len(block.ends) + 1 /\ cut'.word = Begin(block, cut'.sentence)
      BY <1>3, <1>4, <2>5
    <3>. QED  BY <1>2, <3>1 DEF Progress
  <2>. QED  BY <1>1, <1>5, <2>5, <2>6, CuttingKeeps DEF CutLoops
<1>6. CASE cut' = Closed /\ loop' = "words"
  <2>1. cut' \in Cuts /\ cut'.word = cut.word /\ cut'.sentence = cut.sentence
    BY <1>2, <1>6, PackTypes
  <2>2. Pieced(cut')
    BY <1>1, <1>6, <2>1, ClosedKeeps
  <2>3. Progress(cut', "words")
    <3>1. /\ cut'.sentence \in 1 .. Len(block.ends) + 1 /\ cut'.sentence <= Len(block.ends)
          /\ Begin(block, cut'.sentence) <= cut'.word
      BY <1>3, <1>4, <2>1
    <3>2. cut'.word <= block.ends[cut'.sentence] + 1
      BY <1>4, <2>1 DEF Ending
    <3>. QED  BY <1>2, <3>1, <3>2 DEF Progress
  <2>. QED  BY <1>1, <1>6, <2>1, <2>2, <2>3, CuttingKeeps DEF CutLoops
<1>. QED  BY <1>1, <1>5, <1>6

LEMMA PackWordKeeps ==
  ASSUME ChunksInv, PackWord
  PROVE  ChunksInv'
<1>. DEFINE block == blocks[seen]  text == Span(cut.word, cut.word)
<1>1. /\ Cutting("words") /\ loop = "words" /\ cut.word <= Ending /\ loop \in CutLoops /\ loop' = "words"
      /\ cut' = [Packed(text) EXCEPT !.word = @ + 1]
  BY DEF PackWord, Cutting, CutLoops
<1>2. /\ document \in Documents /\ Progress(cut, "words") /\ seen > 0 /\ block.level = 0 /\ ~NoneCut
      /\ cut \in Cuts /\ cut.sentence \in Nat /\ cut.word \in Nat
      /\ block.ends \in Seq(Nat) /\ Ordered(block) /\ block.first \in Nat \ {0}
  BY <1>1, CutFacts DEF Progress
<1>3. /\ cut.sentence \in 1 .. Len(block.ends) /\ Len(block.ends) \in Nat
      /\ Begin(block, cut.sentence) <= cut.word
  BY <1>2 DEF Progress
<1>4. /\ Ending \in Nat /\ cut.word \in Nat \ {0} /\ Begin(block, cut.sentence) \in Nat \ {0}
  <2>. HIDE DEF block
  <2>1. /\ block.ends[cut.sentence] \in Nat /\ Begin(block, cut.sentence) \in Nat \ {0}
    BY <1>2, <1>3, PartFacts
  <2>. QED  BY <1>2, <1>3, <2>1 DEF Ending, block
<1>5. document.each \in Nat \ {0} /\ WordCost \in Nat \ {0} /\ Target \in Nat
  BY <1>2, BoundFacts
<1>6. text \in SizedTexts /\ Reads(text, cut.word) /\ text.words[1] = cut.word /\ text.runes = document.each
  <2>. DEFINE w == cut.word
  <2>1. w \in Nat \ {0} /\ w \in Nat /\ w <= w /\ w - w + 1 = 1
    BY <1>4
  <2>. HIDE DEF w
  <2>2. Span(w, w) \in SizedTexts /\ Reads(Span(w, w), w) /\ Span(w, w).words[1] = w /\ Span(w, w).runes = Runes(1)
    BY <1>5, <2>1, SpanFacts
  <2>3. Runes(1) = document.each
    BY <1>5, WordFacts
  <2>. QED  BY <2>2, <2>3 DEF w
<1>7. CostOf(text) = WordCost
  <2>1. text.words # <<>>
    BY <1>6 DEF Reads
  <2>. QED  BY <1>6, <2>1 DEF CostOf, WordCost
<1>8. CostOf(text) <= Target \/ (WordCost > Target /\ text.runes <= document.each)
  BY <1>5, <1>6, <1>7
<1>9. Packed(text) \in Cuts /\ Packed(text).sentence = cut.sentence /\ Packed(text).word = cut.word
  BY <1>2, <1>6, PackTypes
<1>10. cut' = PackedTo(text, cut.sentence, cut.word)
  <2>. DEFINE p == Packed(text)
  <2>1. p \in Cuts /\ p.sentence = cut.sentence /\ p.word = cut.word /\ cut' = [p EXCEPT !.word = @ + 1]
    BY <1>1, <1>9
  <2>. HIDE DEF p
  <2>2. cut' = [p EXCEPT !.sentence = cut.sentence, !.word = cut.word + 1]
    BY <2>1 DEF Cuts
  <2>. QED  BY <2>2 DEF p, PackedTo
<1>. HIDE DEF text
<1>11. cut' \in Cuts /\ Pieced(cut') /\ cut'.sentence = cut.sentence /\ cut'.word = cut.word + 1
  <2>. DEFINE n == cut.sentence  w == cut.word
  <2>1. loop \in CutLoops /\ n \in Nat /\ w \in Nat /\ Reads(text, w) /\ text.words[1] = cut.word
    BY <1>1, <1>2, <1>6
  <2>. HIDE DEF n, w
  <2>2. LET c == PackedTo(text, n, w)
        IN  c \in Cuts /\ Pieced(c) /\ c.sentence = n /\ c.word = w + 1
    BY <1>6, <1>8, <2>1, PackStep
  <2>. QED  BY <1>10, <2>2 DEF n, w
<1>12. Progress(cut', "words")
  <2>1. /\ cut'.sentence \in 1 .. Len(block.ends) + 1 /\ cut'.sentence <= Len(block.ends)
        /\ Begin(block, cut'.sentence) <= cut'.word /\ cut'.word <= block.ends[cut'.sentence] + 1
    <3>1. cut'.sentence \in 1 .. Len(block.ends) + 1 /\ cut'.sentence <= Len(block.ends)
      BY <1>3, <1>11
    <3>2. Begin(block, cut'.sentence) <= cut'.word
      BY <1>3, <1>4, <1>11
    <3>3. cut'.word <= Ending + 1 /\ Ending = block.ends[cut'.sentence]
      BY <1>1, <1>4, <1>11 DEF Ending
    <3>. QED  BY <3>1, <3>2, <3>3
  <2>. QED  BY <1>2, <2>1 DEF Progress
<1>. QED  BY <1>1, <1>11, <1>12, CuttingKeeps DEF CutLoops

LEMMA WordsEndKeeps ==
  ASSUME ChunksInv, WordsEnd
  PROVE  ChunksInv'
<1>. DEFINE block == blocks[seen]
<1>1. /\ Cutting("words") /\ loop = "words" /\ cut.word > Ending /\ loop \in CutLoops /\ loop' = "sentences"
      /\ cut' = [Closed EXCEPT !.sentence = @ + 1]
  BY DEF WordsEnd, Cutting, CutLoops
<1>2. /\ document \in Documents /\ Progress(cut, "words") /\ seen > 0 /\ block.level = 0 /\ ~NoneCut
      /\ cut \in Cuts /\ cut.sentence \in Nat /\ cut.word \in Nat
      /\ block.ends \in Seq(Nat) /\ Ordered(block) /\ block.first \in Nat \ {0}
  BY <1>1, CutFacts DEF Progress
<1>3. /\ cut.sentence \in 1 .. Len(block.ends) /\ Len(block.ends) \in Nat
      /\ cut.word <= Ending + 1
  BY <1>2 DEF Progress, Ending
<1>4. Ending \in Nat /\ Begin(block, cut.sentence + 1) = Ending + 1
  <2>. HIDE DEF block
  <2>1. block.ends[cut.sentence] \in Nat /\ Begin(block, cut.sentence + 1) = block.ends[cut.sentence] + 1
    BY <1>2, <1>3, PartFacts
  <2>. QED  BY <2>1 DEF Ending, block
<1>5. cut' = [Closed EXCEPT !.sentence = cut.sentence + 1] /\ cut.sentence + 1 \in Nat
  <2>1. Closed \in Cuts /\ Closed.sentence = cut.sentence
    BY <1>2, PackTypes
  <2>. QED  BY <1>1, <1>2, <2>1 DEF Cuts
<1>6. cut' \in Cuts /\ Pieced(cut') /\ cut'.sentence = cut.sentence + 1 /\ cut'.word = cut.word
  BY <1>1, <1>5, CloseStep
<1>7. Progress(cut', "sentences")
  <2>1. cut'.sentence \in 1 .. Len(block.ends) + 1 /\ cut'.word = Begin(block, cut'.sentence)
    BY <1>1, <1>2, <1>3, <1>4, <1>6
  <2>. QED  BY <1>2, <2>1 DEF Progress
<1>. QED  BY <1>1, <1>6, <1>7, CuttingKeeps DEF CutLoops

LEMMA SentencesEndKeeps ==
  ASSUME ChunksInv, SentencesEnd
  PROVE  ChunksInv'
<1>. DEFINE block == blocks[seen]
<1>1. /\ Cutting("sentences") /\ loop = "sentences" /\ cut.sentence > Len(block.ends) /\ loop \in CutLoops
      /\ loop' = "pieces" /\ cut' = Closed
  BY DEF SentencesEnd, Cutting, CutLoops
<1>2. /\ Progress(cut, "sentences") /\ seen > 0 /\ block.level = 0 /\ ~NoneCut
      /\ cut \in Cuts /\ cut.sentence \in Nat /\ block.ends \in Seq(Nat)
  BY <1>1, CutFacts DEF Progress
<1>3. cut.sentence = Len(block.ends) + 1 /\ cut.word = Behind(block)
  BY <1>1, <1>2 DEF Progress, Behind
<1>4. cut' \in Cuts /\ cut'.word = cut.word /\ cut'.sentence = cut.sentence
  BY <1>1, <1>2, PackTypes
<1>5. Pieced(cut') /\ cut'.open = EmptyText
  BY <1>1, <1>4, ClosedKeeps
<1>6. Progress(cut', "pieces")
  BY <1>2, <1>3, <1>4, <1>5 DEF Progress
<1>. QED  BY <1>1, <1>4, <1>5, <1>6, CuttingKeeps DEF CutLoops

\* What is emitted: the end of the chunk before and the piece.
LEMMA PieceFacts ==
  ASSUME ChunksInv, loop = "pieces", cut.pieces # <<>>
  PROVE  LET piece == cut.pieces[1]
             text == Join(lastTail, piece, 2)
         IN  /\ LastOf(piece) \in Nat /\ Reached < LastOf(piece) /\ LastOf(piece) < cut.word
             /\ text \in SizedTexts /\ Reads(text, LastOf(piece)) /\ text.words[1] <= Reached + 1 /\ Small(text)
<1>. DEFINE piece == cut.pieces[1]  text == Join(lastTail, piece, 2)  last == LastOf(piece)
<1>1. /\ document \in Documents /\ Pieced(cut) /\ cut.pieces \in Seq(SizedTexts) /\ cut.word \in Nat
      /\ Reached \in Nat /\ ChunksFine /\ lastTail \in SizedTexts
  BY CutFacts DEF CutLoops, ChunksFine
<1>2. 1 \in DOMAIN cut.pieces
  BY <1>1
<1>3. /\ piece \in SizedTexts /\ Reads(piece, last) /\ PieceSmall(piece) /\ piece.words[1] = Reached + 1 /\ last < cut.word
  <2>1. piece \in SizedTexts
    BY <1>1, <1>2, ElementType, Zenon
  <2>. QED  BY <1>1, <1>2, <2>1 DEF Pieced
<1>4. last \in Nat /\ piece.runes \in Nat /\ lastTail.runes \in Nat
  <2>1. piece.words \in Seq(Nat) /\ piece.words # <<>>
    BY <1>3 DEF SizedTexts, Reads
  <2>2. piece.words[Len(piece.words)] \in Nat
    <3>. DEFINE words == piece.words
    <3>1. words \in Seq(Nat) /\ words # <<>>
      BY <2>1
    <3>. HIDE DEF words
    <3>2. words[Len(words)] \in Nat
      BY <3>1
    <3>. QED  BY <3>2 DEF words
  <2>3. piece.runes \in Nat /\ lastTail.runes \in Nat
    BY <1>1, <1>3 DEF SizedTexts
  <2>. QED  BY <2>2, <2>3 DEF LastOf
<1>5. Reached < last
  <2>. HIDE DEF last, piece
  <2>1. piece.words[1] <= last
    BY <1>3, <1>4, ReadsFacts
  <2>. QED  BY <1>1, <1>3, <1>4, <2>1
<1>6. lastTail # EmptyText => Reads(lastTail, Reached) /\ lastTail.words[1] \in Nat /\ lastTail.words[1] <= Reached
  <2>1. lastTail # EmptyText => Reads(lastTail, Reached)
    BY <1>1 DEF ChunksFine, TailReads
  <2>. QED  BY <1>1, <2>1, ReadsFacts
<1>7. /\ text \in SizedTexts /\ Reads(text, last)
      /\ lastTail = EmptyText => text = piece
      /\ lastTail # EmptyText => text.words[1] = lastTail.words[1] /\ text.runes = lastTail.runes + 2 + piece.runes
  <2>1. 2 \in Nat
    OBVIOUS
  <2>. HIDE DEF last, piece
  <2>. QED  BY <1>1, <1>3, <1>4, <1>6, <2>1, JoinReads
<1>8. text.words[1] <= Reached + 1
  BY <1>1, <1>3, <1>6, <1>7
<1>9. Small(text)
  <2>. DEFINE tail == lastTail.runes  new == piece.runes  runes == text.runes
  <2>1. /\ tail \in Nat /\ new \in Nat /\ Target \in Nat \ {0} /\ Overlap \in Nat /\ WordCost \in Nat \ {0}
        /\ document.each \in Nat /\ document.each <= 4 * WordCost + 3
        /\ new + 2 <= 9 * Target \/ (WordCost > Target /\ new <= document.each)
        /\ WordCost > Target => tail <= document.each
        /\ \/ runes = new
           \/ runes = tail + 2 + new /\ tail + 2 <= 9 * (Overlap + WordCost - 1)
    BY <1>1, <1>3, <1>4, <1>7, BoundFacts DEF PieceSmall, ChunksFine, TailSmall
  <2>. HIDE DEF tail, new, runes
  <2>2. runes <= 9 * (Target + Overlap + WordCost)
    <3>1. CASE new + 2 <= 9 * Target
      BY <2>1, <3>1
    <3>2. CASE WordCost > Target /\ new <= document.each
      BY <2>1, <3>2
    <3>. QED  BY <2>1, <3>1, <3>2
  <2>. QED  BY <2>2 DEF runes, Small
<1>. QED  BY <1>3, <1>4, <1>5, <1>7, <1>8, <1>9

\* A piece becomes a chunk, and the rest of them meets it.
LEMMA EmitPieceKeeps ==
  ASSUME ChunksInv, EmitPiece
  PROVE  ChunksInv'
<1>. DEFINE piece == cut.pieces[1]  text == Join(lastTail, piece, 2)  last == LastOf(piece)  rest == Tail(cut.pieces)
            n == Len(cut.pieces)
<1>1. /\ loop = "pieces" /\ loop \in CutLoops /\ cut.pieces # <<>> /\ Emits(text) /\ cut' = [cut EXCEPT !.pieces = rest]
      /\ UNCHANGED <<document, loop, seen, gathered, blocks, current, curTok, heading>>
  BY DEF EmitPiece, CutLoops
<1>2. /\ ChunksTypeOK /\ document \in Documents /\ Cohere(blocks) /\ Pieced(cut) /\ Progress(cut, "pieces")
      /\ cut \in Cuts /\ cut.sentence \in Nat /\ cut.word \in Nat /\ cut.cost \in Nat
      /\ cut.pieces \in Seq(SizedTexts) /\ Reached \in Nat /\ ChunksFine /\ current = EmptyText /\ ~NoneCut
      /\ seen \in 1 .. Len(blocks)
  BY <1>1, CutFacts
<1>3. /\ Filling /\ Sectioned /\ seen <= Len(blocks) /\ Follows(blocks) = Follows(document.lines)
  BY <1>1 DEF ChunksInv, Chunking
<1>4. /\ last \in Nat /\ Reached < last /\ last < cut.word
      /\ text \in SizedTexts /\ Reads(text, last) /\ text.words[1] <= Reached + 1 /\ Small(text)
  BY <1>1, PieceFacts
<1>5. cut.word = Behind(blocks[seen]) /\ cut.open = EmptyText /\ cut.cost = 0 /\ Upto(cut) = cut.word - 1
  BY <1>2 DEF Progress, Pieced
<1>6. /\ \A k \in DOMAIN blocks : k > seen => last < blocks[k].first
      /\ \A k \in HeadingsTo(seen) : blocks[k].first \in Nat
  <2>1. /\ Consumed \in Nat /\ DOMAIN blocks = 1 .. Len(blocks)
        /\ \A k \in DOMAIN blocks : k > seen => Consumed < blocks[k].first
        /\ \A k \in HeadingsTo(seen) : blocks[k].first \in Nat
    BY <1>2, <1>3, ConsumedFacts
  <2>2. Consumed = cut.word - 1
    BY <1>2, <1>5 DEF Consumed
  <2>3. ASSUME NEW k \in DOMAIN blocks, k > seen
        PROVE  last < blocks[k].first
    <3>1. blocks[k].first \in Nat
      BY <1>2, <2>1, <2>3, BlockFacts
    <3>. QED  BY <1>2, <1>4, <2>1, <2>2, <2>3, <3>1
  <2>. QED  BY <2>1, <2>3
<1>7. /\ Nested => Under(HeadingsTo(seen), heading)
      /\ \A k \in HeadingsTo(seen) : blocks[k].first <= Reached + 1 /\ (NoneCut => blocks[k].first <= text.words[1])
  BY <1>2, <1>3 DEF Sectioned
<1>8. ChunksFine' /\ Reached' = last
  <2>. HIDE DEF text, last
  <2>. QED  BY <1>1, <1>2, <1>3, <1>4, <1>6, <1>7, Emission
<1>9. /\ rest \in Seq(SizedTexts) /\ n \in Nat \ {0} /\ DOMAIN cut.pieces = 1 .. n
      /\ Len(rest) = n - 1 /\ DOMAIN rest = 1 .. n - 1 /\ \A k \in 1 .. n - 1 : rest[k] = cut.pieces[k + 1]
  <2>1. /\ rest \in Seq(SizedTexts) /\ Len(rest) = Len(cut.pieces) - 1
        /\ \A k \in 1 .. Len(rest) : rest[k] = cut.pieces[k + 1]
    BY <1>1, <1>2, HeadTailProperties
  <2>2. n \in Nat \ {0} /\ DOMAIN cut.pieces = 1 .. n
    BY <1>1, <1>2
  <2>. QED  BY <2>1, <2>2
<1>10. /\ cut' \in Cuts /\ cut'.pieces = rest /\ cut'.open = EmptyText /\ cut'.cost = 0
       /\ cut'.word = cut.word /\ cut'.sentence = cut.sentence
  <2>. HIDE DEF rest
  <2>. QED  BY <1>1, <1>2, <1>5, <1>9 DEF Cuts
<1>11. WordCost' = WordCost /\ (NoneCut <=> NoneCut') /\ (Nested <=> Nested')
  BY <1>1, SameBlocks
<1>12. ASSUME NEW k \in 1 .. n - 1
       PROVE  /\ Reads(rest[k], LastOf(rest[k])) /\ PieceSmall(rest[k])
              /\ rest[k].words[1] = (IF k = 1 THEN last ELSE LastOf(rest[k - 1])) + 1
              /\ LastOf(rest[k]) < cut.word
  <2>1. rest[k] = cut.pieces[k + 1] /\ k + 1 \in DOMAIN cut.pieces /\ k + 1 # 1 /\ (k + 1) - 1 = k
    BY <1>9
  <2>2. k # 1 => rest[k - 1] = cut.pieces[k]
    BY <1>9
  <2>3. /\ Reads(cut.pieces[k + 1], LastOf(cut.pieces[k + 1])) /\ PieceSmall(cut.pieces[k + 1])
        /\ cut.pieces[k + 1].words[1] = (IF k + 1 = 1 THEN Reached ELSE LastOf(cut.pieces[(k + 1) - 1])) + 1
        /\ LastOf(cut.pieces[k + 1]) < cut.word
    BY <1>2, <2>1 DEF Pieced
  <2>. QED  BY <2>1, <2>2, <2>3
<1>13. (IF rest = <<>> THEN last ELSE LastOf(rest[Len(rest)])) = cut.word - 1
  <2>1. LastOf(cut.pieces[n]) = cut.word - 1
    BY <1>1, <1>5 DEF Upto
  <2>2. CASE n = 1
    <3>1. rest = <<>>
      BY <1>9, <2>2
    <3>. QED  BY <2>1, <2>2, <3>1
  <2>3. CASE n # 1
    <3>1. n - 1 \in 1 .. n - 1 /\ (n - 1) + 1 = n /\ Len(rest) = n - 1
      <4>. HIDE DEF n, rest
      <4>. QED  BY <1>9, <2>3
    <3>2. rest[Len(rest)] = cut.pieces[n]
      <4>. HIDE DEF n, rest
      <4>1. rest[n - 1] = cut.pieces[(n - 1) + 1]
        BY <1>9, <3>1
      <4>. QED  BY <3>1, <4>1
    <3>3. rest # <<>>
      <4>. HIDE DEF n, rest
      <4>. QED  BY <3>1
    <3>. QED  BY <2>1, <3>2, <3>3
  <2>. QED  BY <2>2, <2>3
<1>. HIDE DEF rest, last, text, n
<1>14. Pieced(cut)'
  <2>1. \A k \in DOMAIN cut'.pieces :
          /\ Reads(cut'.pieces[k], LastOf(cut'.pieces[k])) /\ PieceSmall(cut'.pieces[k])
          /\ cut'.pieces[k].words[1] = (IF k = 1 THEN Reached' ELSE LastOf(cut'.pieces[k - 1])) + 1
          /\ LastOf(cut'.pieces[k]) < cut'.word
    BY <1>8, <1>9, <1>10, <1>12
  <2>2. (IF cut'.pieces = <<>> THEN Reached' ELSE LastOf(cut'.pieces[Len(cut'.pieces)])) = cut'.word - 1
    BY <1>8, <1>10, <1>13
  <2>. QED  BY <1>1, <1>10, <1>11, <2>1, <2>2 DEF Pieced, Upto, PieceSmall, Reads, Passage, LastOf, EmptyText
<1>15. Progress(cut, loop)'
  <2>1. Progress(cut', "pieces")
    BY <1>2, <1>5, <1>10 DEF Progress
  <2>. QED  BY <1>1, <1>11, <2>1 DEF Progress, Begin, Behind, EmptyText
<1>16. Filling'
  BY <1>1, <1>2, <1>3 DEF Filling, EmptyText, CutLoops
<1>17. Sectioned'
  <2>1. HeadingsTo(seen)' = HeadingsTo(seen)
    BY <1>1 DEF HeadingsTo
  <2>2. Nested' => Under(HeadingsTo(seen), heading)'
    <3>1. Nested' => Under(HeadingsTo(seen), heading)
      BY <1>7, <1>11
    <3>. QED  BY <1>1, <2>1, <3>1 DEF Under, Standing
  <2>3. \A k \in HeadingsTo(seen) : blocks[k].first <= Reached' + 1
    BY <1>2, <1>4, <1>6, <1>7, <1>8
  <2>4. EmptyText' = EmptyText /\ current' = EmptyText
    BY <1>1, <1>2 DEF EmptyText
  <2>. QED  BY <1>1, <1>3, <2>1, <2>2, <2>3, <2>4 DEF Sectioned
<1>18. ChunksTypeOK'
  BY <1>1, <1>2, <1>8, <1>10 DEF ChunksTypeOK, ChunksFine
<1>19. Chunking'
  BY <1>1, <1>3, <1>8, <1>14, <1>15, <1>16, <1>17 DEF Chunking, CutLoops
<1>. QED  BY <1>1, <1>2, <1>18, <1>19 DEF ChunksInv, CutLoops

\* With the last piece the paragraph is in chunks.
LEMMA PiecesEndKeeps ==
  ASSUME ChunksInv, PiecesEnd
  PROVE  ChunksInv'
<1>1. /\ loop = "pieces" /\ loop \in CutLoops /\ cut.pieces = <<>> /\ cut' = NoCut /\ loop' = "blocks"
      /\ UNCHANGED <<document, seen, gathered, blocks, chunks, current, curTok, heading, lastTail>>
  BY DEF PiecesEnd, Cutting, CutLoops
<1>2. /\ ChunksTypeOK /\ document \in Documents /\ Cohere(blocks) /\ Pieced(cut) /\ Progress(cut, "pieces")
      /\ ChunksFine /\ current = EmptyText /\ seen \in 1 .. Len(blocks)
  BY <1>1, CutFacts
<1>3. /\ Filling /\ Sectioned /\ seen <= Len(blocks) /\ Follows(blocks) = Follows(document.lines)
  BY <1>1 DEF ChunksInv, Chunking
<1>4. ChunksFine' /\ Reached' = Reached
  BY <1>1, <1>2, FineRests
<1>5. Reached = Consumed
  <2>1. Reached = cut.word - 1 /\ cut.word = Behind(blocks[seen])
    BY <1>1, <1>2 DEF Pieced, Progress, Upto
  <2>. QED  BY <1>2, <2>1 DEF Consumed
<1>6. Consumed' = Consumed /\ EmptyText' = EmptyText
  BY <1>1 DEF Consumed, Behind, Begin, EmptyText
<1>7. Filling'
  <2>1. current' = EmptyText /\ curTok' = 0
    BY <1>1, <1>2, <1>3 DEF Filling
  <2>. QED  BY <1>1, <1>4, <1>5, <1>6, <2>1 DEF Filling, CutLoops
<1>8. Sectioned'
  <2>1. HeadingsTo(seen)' = HeadingsTo(seen)
    BY <1>1 DEF HeadingsTo
  <2>2. Nested' => Under(HeadingsTo(seen), heading)'
    <3>1. Nested' => Under(HeadingsTo(seen), heading)
      BY <1>1, <1>3, SameBlocks DEF Sectioned
    <3>. QED  BY <1>1, <2>1, <3>1 DEF Under, Standing
  <2>. QED  BY <1>1, <1>2, <1>3, <1>4, <1>6, <2>1, <2>2 DEF Sectioned
<1>9. ChunksTypeOK'
  <2>1. NoCut \in Cuts
    BY DEF NoCut, Cuts, EmptyText, SizedTexts
  <2>. QED  BY <1>1, <1>2, <2>1 DEF ChunksTypeOK
<1>10. Chunking'
  BY <1>1, <1>3, <1>4, <1>7, <1>8 DEF Chunking, CutLoops
<1>. QED  BY <1>1, <1>2, <1>9, <1>10 DEF ChunksInv

\* The invariant holds at the start, is kept by every step, and says enough.
LEMMA ChunksBegin == ChunksInit => ChunksInv
<1>. SUFFICES ASSUME ChunksInit
              PROVE  ChunksInv
  OBVIOUS
<1>1. /\ document \in Documents /\ loop = "lines" /\ seen = 0 /\ gathered = NoLines /\ blocks = <<>> /\ cut = NoCut
      /\ chunks = <<>> /\ current = EmptyText /\ curTok = 0 /\ heading = <<>> /\ lastTail = EmptyText
  BY DEF ChunksInit, Unread
<1>2. document.each \in Nat \ {0} /\ document.lines \in Seq(Line) /\ Len(document.lines) \in Nat
  BY <1>1, DocumentFacts
<1>3. EmptyText \in SizedTexts /\ NoCut \in Cuts /\ NoLines \in [first : Nat \ {0}, ends : Seq(Nat)] /\ NoLines.ends = <<>>
  BY DEF EmptyText, SizedTexts, NoCut, Cuts, NoLines
<1>4. document \in [each : Nat \ {0}, lines : Seq(Line)]
  <2>1. \A d \in Documents : d \in [each : Nat \ {0}, lines : Seq(Line)]
    BY ChunksAssumption
  <2>. QED  BY <1>1, <2>1
<1>5. ChunksTypeOK
  BY <1>1, <1>3, <1>4 DEF ChunksTypeOK
<1>6. Cohere(blocks) /\ Follows(blocks) = 1 /\ ReadTo = 1
  BY <1>1 DEF Cohere, Numbered, Textual, Rising, Follows, ReadTo
<1>. QED  BY <1>1, <1>2, <1>3, <1>5, <1>6 DEF ChunksInv, Gathering

LEMMA ChunksPromise == ChunksInv => ChunksHold
<1>. SUFFICES ASSUME ChunksInv
              PROVE  ChunksHold
  OBVIOUS
<1>1. CASE loop = "lines"
  <2>1. chunks = <<>>
    BY <1>1 DEF ChunksInv, Gathering
  <2>2. DOMAIN chunks = {}
    BY <2>1
  <2>. QED  BY <1>1, <2>2 DEF ChunksHold, AllIndexed, SizeBounded, InSection
<1>2. CASE loop # "lines"
  <2>1. /\ ChunksTypeOK /\ document \in Documents /\ Cohere(blocks) /\ Chunking /\ ChunksFine /\ Indexed /\ InSection
        /\ chunks \in Seq([text : SizedTexts, heading : Seq(Nat)])
        /\ \A i \in DOMAIN chunks : Small(chunks[i].text)
    BY <1>2 DEF ChunksInv, Chunking, ChunksFine
  <2>2. SizeBounded
    <3>. SUFFICES ASSUME NEW i \in DOMAIN chunks
                  PROVE  4 * CostOf(chunks[i].text) <= 9 * (Target + Overlap + WordCost)
      BY DEF SizeBounded
    <3>. DEFINE text == chunks[i].text
    <3>1. text \in SizedTexts /\ text.words # <<>> /\ text.runes <= 9 * (Target + Overlap + WordCost)
      <4>1. text \in SizedTexts /\ Reads(text, Ends(i))
        BY <2>1, SentFacts
      <4>. QED  BY <2>1, <4>1 DEF Reads, Small
    <3>2. Target \in Nat \ {0} /\ Overlap \in Nat /\ WordCost \in Nat \ {0}
      BY <2>1, BoundFacts
    <3>. HIDE DEF text
    <3>3. CostOf(text) \in Nat /\ text.runes \in Nat /\ (4 * CostOf(text) <= text.runes \/ CostOf(text) = 1)
      BY <3>1, CostFacts DEF SizedTexts
    <3>4. 4 * CostOf(text) <= 9 * (Target + Overlap + WordCost)
      <4>. DEFINE cost == CostOf(text)  runes == text.runes
      <4>1. cost \in Nat /\ runes \in Nat /\ (4 * cost <= runes \/ cost = 1) /\ runes <= 9 * (Target + Overlap + WordCost)
        BY <3>1, <3>3
      <4>. HIDE DEF cost, runes
      <4>2. 4 * cost <= 9 * (Target + Overlap + WordCost)
        BY <3>2, <4>1
      <4>. QED  BY <4>2 DEF cost
    <3>. QED  BY <3>4 DEF text
  <2>3. \A i \in DOMAIN chunks :
          LET words == chunks[i].text.words
          IN  /\ words # <<>> /\ words = Passage(words[1], Ends(i))
              /\ words[1] <= Ends(i - 1) + 1 /\ Ends(i - 1) < Ends(i)
    BY <2>1 DEF Indexed, Reads
  <2>4. loop = "over" =>
          Reached = IF Len(document.lines) = 0 THEN 0 ELSE Behind(document.lines[Len(document.lines)]) - 1
    <3>. SUFFICES ASSUME loop = "over"
                  PROVE  Reached = IF Len(document.lines) = 0 THEN 0 ELSE Behind(document.lines[Len(document.lines)]) - 1
      OBVIOUS
    <3>1. seen = Len(blocks) /\ Reached = Consumed /\ Follows(blocks) = Follows(document.lines)
      BY <2>1 DEF Chunking
    <3>2. blocks \in Seq(Line) /\ document.lines \in Seq(Line)
      BY <2>1, DocumentFacts DEF ChunksTypeOK
    <3>3. Consumed = Follows(blocks) - 1
      <4>1. CASE blocks = <<>>
        BY <3>1, <4>1 DEF Consumed, Follows
      <4>2. CASE blocks # <<>>
        BY <3>1, <3>2, <4>2 DEF Consumed, Follows
      <4>. QED  BY <4>1, <4>2
    <3>4. CASE document.lines = <<>>
      BY <3>1, <3>3, <3>4 DEF Follows
    <3>5. CASE document.lines # <<>>
      BY <3>1, <3>2, <3>3, <3>5 DEF Follows
    <3>. QED  BY <3>4, <3>5
  <2>5. AllIndexed
    BY <2>3, <2>4 DEF AllIndexed, Reached
  <2>. QED  BY <2>1, <2>2, <2>5 DEF ChunksHold
<1>. QED  BY <1>1, <1>2

LEMMA ChunksRest ==
  ASSUME ChunksInv, UNCHANGED chunkVars
  PROVE  ChunksInv'
<1>1. UNCHANGED <<document, loop, seen, gathered, blocks, cut, chunks, current, curTok, heading, lastTail>>
  BY DEF chunkVars
<1>2. ChunksTypeOK /\ document \in Documents /\ Cohere(blocks)
  BY DEF ChunksInv
<1>3. ChunksTypeOK' /\ document' \in Documents /\ Cohere(blocks')
  BY <1>1, <1>2 DEF ChunksTypeOK
<1>4. CASE loop = "lines"
  BY <1>1, <1>3, <1>4 DEF ChunksInv, Gathering, ReadTo, EmptyText
<1>5. CASE loop # "lines"
  <2>1. Chunking
    BY <1>5 DEF ChunksInv
  <2>2. ChunksFine' /\ Reached' = Reached
    BY <1>1, <2>1, FineRests DEF Chunking
  <2>3. Consumed' = Consumed /\ WordCost' = WordCost /\ (NoneCut <=> NoneCut') /\ (Nested <=> Nested')
    BY <1>1, SameBlocks DEF Consumed
  <2>4. Filling'
    BY <1>1, <2>1, <2>2, <2>3 DEF Chunking, Filling, EmptyText, Small, Reads, Passage
  <2>5. Sectioned'
    <3>1. HeadingsTo(seen)' = HeadingsTo(seen)
      BY <1>1 DEF HeadingsTo
    <3>2. Nested' => Under(HeadingsTo(seen), heading)'
      <4>1. Nested' => Under(HeadingsTo(seen), heading)
        BY <2>1, <2>3 DEF Chunking, Sectioned
      <4>. QED  BY <1>1, <3>1, <4>1 DEF Under, Standing
    <3>. QED  BY <1>1, <2>1, <2>2, <2>3, <3>1, <3>2 DEF Chunking, Sectioned, EmptyText
  <2>6. loop \in CutLoops => Pieced(cut)' /\ Progress(cut, loop)'
    <3>1. loop \in CutLoops => Pieced(cut) /\ Progress(cut, loop)
      BY <2>1 DEF Chunking
    <3>2. Pieced(cut) => Pieced(cut)'
      <4>1. cut' = cut /\ Upto(cut)' = Upto(cut)
        BY <1>1, <2>2 DEF Upto, LastOf
      <4>2. Opened(cut) => Opened(cut)'
        BY <1>1, <2>3, <4>1 DEF Opened, PieceSmall, Reads, Passage
      <4>3. ASSUME Pieced(cut), NEW k \in DOMAIN cut.pieces
            PROVE  (/\ Reads(cut.pieces[k], LastOf(cut.pieces[k])) /\ PieceSmall(cut.pieces[k])
                    /\ cut.pieces[k].words[1] = (IF k = 1 THEN Reached ELSE LastOf(cut.pieces[k - 1])) + 1
                    /\ LastOf(cut.pieces[k]) < cut.word)'
        <5>1. /\ Reads(cut.pieces[k], LastOf(cut.pieces[k])) /\ PieceSmall(cut.pieces[k])
              /\ cut.pieces[k].words[1] = (IF k = 1 THEN Reached ELSE LastOf(cut.pieces[k - 1])) + 1
              /\ LastOf(cut.pieces[k]) < cut.word
          BY <4>3 DEF Pieced
        <5>2. PieceSmall(cut.pieces[k])'
          BY <1>1, <2>3, <5>1 DEF PieceSmall
        <5>. QED  BY <2>2, <4>1, <5>1, <5>2 DEF Reads, Passage, LastOf
      <4>. QED  BY <4>1, <4>2, <4>3 DEF Pieced, EmptyText
    <3>3. Progress(cut, loop) => Progress(cut, loop)'
      BY <1>1, <2>3 DEF Progress, Begin, Behind, EmptyText
    <3>. QED  BY <3>1, <3>2, <3>3
  <2>7. Chunking'
    BY <1>1, <2>1, <2>2, <2>3, <2>4, <2>5, <2>6 DEF Chunking, CutLoops
  <2>. QED  BY <1>1, <1>3, <1>5, <2>7 DEF ChunksInv
<1>. QED  BY <1>4, <1>5

LEMMA ChunksStep == ChunksInv /\ [ChunksNext]_chunkVars => ChunksInv'
<1>. SUFFICES ASSUME ChunksInv, [ChunksNext]_chunkVars
              PROVE  ChunksInv'
  OBVIOUS
<1>1. CASE LookAtLine \/ LinesEnd
  BY <1>1, LookAtLineKeeps, LinesEndKeeps
<1>2. CASE OpenSection \/ AddParagraph \/ CutParagraph \/ BlocksEnd
  BY <1>2, OpenSectionKeeps, AddParagraphKeeps, CutParagraphKeeps, BlocksEndKeeps
<1>3. CASE PackSentence \/ PackWord \/ WordsEnd \/ SentencesEnd
  BY <1>3, PackSentenceKeeps, PackWordKeeps, WordsEndKeeps, SentencesEndKeeps
<1>4. CASE EmitPiece \/ PiecesEnd
  BY <1>4, EmitPieceKeeps, PiecesEndKeeps
<1>5. CASE UNCHANGED chunkVars
  BY <1>5, ChunksRest
<1>. QED  BY <1>1, <1>2, <1>3, <1>4, <1>5 DEF ChunksNext

\* For every document, target and overlap: no word is lost or out of place on its
\* way to the chunks, no chunk is two and a quarter times as large as its target
\* and overlap allow, and each is filed under its headings (chunk.go ChunkText).
THEOREM ChunksKept == ChunksSpec => []ChunksHold
<1>1. ChunksInit => ChunksInv
  BY ChunksBegin
<1>2. ChunksInv /\ [ChunksNext]_chunkVars => ChunksInv'
  BY ChunksStep
<1>3. ChunksInv => ChunksHold
  BY ChunksPromise
<1>. QED  BY <1>1, <1>2, <1>3, PTL DEF ChunksSpec

\* Both keep their types, of which PartsTypeOK is checked on small values.
THEOREM PromptTypesKept == (ChatSpec => []ChatTypeOK) /\ (ChunksSpec => []ChunksTypeOK)
<1>1. ChatSpec => []ChatTypeOK
  <2>1. ChatIInv => ChatTypeOK
    BY DEF ChatIInv
  <2>. QED  BY ChatInitially, ChatStep, <2>1, PTL DEF ChatSpec
<1>2. ChunksSpec => []ChunksTypeOK
  <2>1. ChunksInv => ChunksTypeOK
    BY DEF ChunksInv
  <2>. QED  BY ChunksBegin, ChunksStep, <2>1, PTL DEF ChunksSpec
<1>. QED  BY <1>1, <1>2
=============================================================================
