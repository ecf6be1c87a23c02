---------------------------- MODULE MemoryContext ----------------------------
(* internal/memory/context.go, BuildContext: facts and search results become    *)
(* the lines of one <memory> block, each paid for out of a token budget. A text *)
(* is its size: [plain, wide], the runes the estimate counts four, and two, to  *)
(* a token.                                                                     *)
EXTENDS Integers, Sequences, FiniteSets

CONSTANTS
  MaxTokens, MaxFacts, MaxResults,   \* ContextOptions
  FactLists,      \* lists of facts, [key, size]; a bound
  ResultLists     \* lists of [chunk, source, print, score, age, label, body]; a bound

Size == [plain : Nat, wide : Nat]
ASSUME ContextAssumption ==
  /\ MaxTokens \in Nat /\ MaxFacts \in Nat /\ MaxResults \in Nat \* positive, by normalized
  /\ \A list \in FactLists : list \in Seq([key : STRING, size : Size])
  /\ \A list \in ResultLists :
       /\ list \in Seq([chunk : Nat, source : Nat, print : Nat, score : Nat, age : Nat, label : Size,
                        body : [words : Nat, each : Nat, wide : BOOLEAN]])

\* tokenCounter.tokens and EstimateTokens; a line is never empty.
Count(size) == size.plain \div 4 + size.wide \div 2
EstimateTokens(size) == IF Count(size) = 0 THEN 1 ELSE Count(size)

Plain(n) == [plain |-> n, wide |-> 0]
Plus(a, b) == [plain |-> a.plain + b.plain, wide |-> a.wide + b.wide]
Tags == Plain(18)            \* <memory>, line break, </memory>
FactHeader == Plain(34)
ResultHeader == Plain(16)

\* dedupeFacts: the first of a key, in the order given. Its place in a set of
\* positions counts those before it.
IsFirst(list, i) == \A j \in 1 .. i - 1 : list[j].key # list[i].key
Firsts(list) == {i \in DOMAIN list : IsFirst(list, i)}
Least(a, b) == IF a < b THEN a ELSE b
Place(S, i) == Cardinality({j \in S : j < i})

\* rankResults: score in hundredths with a tilt for age in days, 10000 standing
\* for a time that is not known; equals keep their order.
Tilted(r) ==
  r.score + (IF r.age < 7 THEN 5 ELSE IF r.age < 30 THEN 2 ELSE IF r.age \in 366 .. 9999 THEN -3 ELSE 0)
Ahead(list, i, j) == Tilted(list[i]) > Tilted(list[j]) \/ (Tilted(list[i]) = Tilted(list[j]) /\ i < j)
Rank(list, S, i) == Cardinality({j \in S : Ahead(list, j, i)})

\* Faulty: neither the opening nor the source of a chunk counts.
KeepsAny(list, kept, i) == \A j \in kept : list[j].chunk # list[i].chunk
\* dedupeResults: not a chunk or an opening seen before, two chunks of a source.
Keeps(list, kept, i) ==
  /\ \A j \in kept : list[j].chunk # list[i].chunk /\ list[j].print # list[i].print
  /\ Cardinality({j \in kept : list[j].source = list[i].source}) < 2

\* The results that are kept: each that those kept ahead of it allow.
KeptAhead(list, kept, i) == {j \in kept : Ahead(list, j, i)}
Distinct(list) == CHOOSE kept \in SUBSET DOMAIN list :
  \A i \in DOMAIN list : i \in kept <=> Keeps(list, KeptAhead(list, kept, i), i)

\* trimToTokens: the whole text, or the words that fit one token less and a mark.
Prefix(body, n) ==
  LET spaces == IF n = 0 THEN 0 ELSE n - 1
  IN  IF body.wide THEN [plain |-> spaces, wide |-> n * body.each] ELSE Plain(n * body.each + spaces)
Whole(body) == Prefix(body, body.words)
Fitting(body, limit) == {n \in 0 .. body.words : Count(Prefix(body, n)) <= limit}
Longest(body, limit) == CHOOSE n \in Fitting(body, limit) : \A m \in Fitting(body, limit) : m <= n
Cut(body, n) == IF n = 0 THEN Plain(0) ELSE Plus(Prefix(body, n), Plain(2))
Trim(body, limit) == IF EstimateTokens(Whole(body)) <= limit THEN Whole(body) ELSE Cut(body, Longest(body, limit - 1))

\* renderResult: 24 tokens are reserved for the line of provenance; five runes
\* surround it and the body.
Reserved == 24
Entry(r, left) == Plus(Plus(r.label, Plain(5)), Trim(r.body, left - Reserved))
Renders(r, left) == left >= Reserved + 20 /\ Trim(r.body, left - Reserved) # Plain(0)

VARIABLES
  facts, results,   \* what was found
  stage,            \* "open", "facts", "fact", "results", "result", "built"
  at,               \* lines of this stage already looked at
  budget,           \* tokens left
  size,             \* runes of the lines so far
  lines,            \* number of lines
  usedFacts,        \* number of facts shown
  usedResults,      \* the results shown, in their order
  dropped

contextVars == <<facts, results, stage, at, budget, size, lines, usedFacts, usedResults, dropped>>

ContextTypeOK ==
  /\ facts \in FactLists /\ results \in ResultLists
  /\ stage \in {"open", "facts", "fact", "results", "result", "built"}
  /\ at \in Nat /\ budget \in Nat /\ lines \in Nat /\ dropped \in Nat
  /\ size \in Size
  /\ usedFacts \in Nat /\ usedResults \in Seq(Nat)

ContextInit ==
  /\ facts \in FactLists /\ results \in ResultLists
  /\ stage = "open" /\ at = 0 /\ budget = MaxTokens /\ size = Plain(0) /\ lines = 0
  /\ usedFacts = 0 /\ usedResults = <<>> /\ dropped = 0

\* The closure spend of BuildContext.
Spend(text) == EstimateTokens(text) <= budget /\ budget' = budget - EstimateTokens(text)
Refused(text) == EstimateTokens(text) > budget /\ UNCHANGED budget
\* A line is joined to those before it.
Add(text) == size' = Plus(size, text) /\ lines' = lines + 1

Open ==
  /\ stage = "open"
  /\ \/ Spend(Tags) /\ stage' = "facts"
     \/ Refused(Tags) /\ stage' = "built"
  /\ UNCHANGED <<facts, results, at, size, lines, usedFacts, usedResults, dropped>>

OpenFacts ==
  /\ stage = "facts" /\ at' = 0
  /\ \/ facts # <<>> /\ Spend(FactHeader) /\ Add(FactHeader) /\ stage' = "fact"
     \/ facts # <<>> /\ Refused(FactHeader) /\ stage' = "results" /\ UNCHANGED <<size, lines>>
     \/ facts = <<>> /\ stage' = "results" /\ UNCHANGED <<budget, size, lines>>
  /\ UNCHANGED <<facts, results, usedFacts, usedResults, dropped>>

AddFact ==
  /\ stage = "fact" /\ at < MaxFacts
  /\ at' = at + 1
  /\ \E i \in Firsts(facts) : Place(Firsts(facts), i) = at /\ LET line == facts[i].size IN
       \/ Spend(line) /\ Add(line) /\ usedFacts' = usedFacts + 1 /\ UNCHANGED dropped
       \/ Refused(line) /\ dropped' = dropped + 1 /\ UNCHANGED <<size, lines, usedFacts>>
  /\ UNCHANGED <<facts, results, stage, usedResults>>

FactsDone ==
  /\ stage = "fact" /\ at >= Least(MaxFacts, Cardinality(Firsts(facts))) /\ stage' = "results"
  /\ UNCHANGED <<facts, results, at, budget, size, lines, usedFacts, usedResults, dropped>>

\* The results that have a place, and the one a place belongs to.
Shown == {i \in Distinct(results) : Rank(results, Distinct(results), i) < MaxResults}
Beyond == Cardinality(Distinct(results)) - Cardinality(Shown)
IsNext(i) == i \in Shown /\ Rank(results, Shown, i) = at

\* An empty line before the header, if there are lines, costs nothing.
OpenResults ==
  /\ stage = "results" /\ at' = 0
  /\ \/ /\ Shown # {} /\ Spend(ResultHeader) /\ stage' = "result" /\ UNCHANGED dropped
        /\ size' = Plus(size, ResultHeader)
        /\ lines' = IF lines > 0 THEN lines + 2 ELSE lines + 1
     \/ /\ Shown = {} \/ EstimateTokens(ResultHeader) > budget
        /\ stage' = "built" /\ dropped' = dropped + Beyond
        /\ UNCHANGED <<budget, size, lines>>
  /\ UNCHANGED <<facts, results, usedFacts, usedResults>>

AddResult ==
  /\ stage = "result"
  /\ at' = at + 1
  /\ \E i \in DOMAIN results : IsNext(i) /\
       \/ /\ Renders(results[i], budget)
          /\ Spend(Entry(results[i], budget)) /\ Add(Entry(results[i], budget))
          /\ usedResults' = Append(usedResults, i) /\ UNCHANGED dropped
       \/ /\ ~(Renders(results[i], budget) /\ EstimateTokens(Entry(results[i], budget)) <= budget)
          /\ dropped' = dropped + 1 /\ UNCHANGED <<budget, size, lines, usedResults>>
  /\ UNCHANGED <<facts, results, stage, usedFacts>>

ResultsDone ==
  /\ stage = "result" /\ at >= Cardinality(Shown) /\ stage' = "built"
  /\ dropped' = dropped + Beyond
  /\ UNCHANGED <<facts, results, at, budget, size, lines, usedFacts, usedResults>>

ContextNext ==
  Open \/ OpenFacts \/ AddFact \/ FactsDone \/ OpenResults \/ AddResult \/ ResultsDone
ContextSpec == ContextInit /\ [][ContextNext]_contextVars

\* The block, when there is something in it: the tags and the lines with their
\* line breaks.
Block == Plus(Plus(Tags, size), Plain(lines))
HasBlock == stage = "built" /\ (usedFacts > 0 \/ usedResults # <<>>)

\* What the lines cost was rounded down and their breaks were not counted: the
\* block exceeds the budget by three tokens for every two lines at most.
SmallOverrun == HasBlock => EstimateTokens(Block) <= MaxTokens + lines + (lines + 1) \div 2

\* What a chunk shows of itself fits what was left without the provenance.
TrimFits ==
  \A i \in DOMAIN results : stage = "result" /\ IsNext(i) /\ Renders(results[i], budget) =>
    Count(Trim(results[i].body, budget - Reserved)) <= budget - Reserved

\* One document cannot crowd out the others, no opening is shown twice, and what
\* is shown is in the order of its rank (context.go:246-311).
FairShare ==
  /\ \A i, j, k \in DOMAIN usedResults :
       i < j /\ j < k => ~(results[usedResults[i]].source = results[usedResults[j]].source
                          /\ results[usedResults[j]].source = results[usedResults[k]].source)
  /\ \A i, j \in DOMAIN usedResults : i < j =>
       /\ results[usedResults[i]].print # results[usedResults[j]].print
       /\ Tilted(results[usedResults[i]]) >= Tilted(results[usedResults[j]])

\* The block keeps to its budget and shares it out as documented (context.go).
ContextHolds == SmallOverrun /\ TrimFits /\ FairShare
=============================================================================
