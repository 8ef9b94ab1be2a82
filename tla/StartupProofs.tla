---------------------------- MODULE StartupProofs ----------------------------
(***************************************************************************)
(* Proofs about Startup, for any flags: any list of instruments, exchanges *)
(* and regions, and any number of times QuestDB goes or comes back.        *)
(***************************************************************************)
EXTENDS Startup, FiniteSetTheorems, WellFoundedInduction, TLAPS

\* The least-number principle, from the well-foundedness of < on Nat.
LEMMA LeastNatural ==
  ASSUME NEW T, T \subseteq Nat, T # {}
  PROVE  \E m \in T : \A k \in T : ~(k < m)
<1>1. PICK m \in T : \A k \in T : <<k, m>> \notin OpToRel(<, Nat)
  BY NatLessThanWellFounded, WFMin
<1>. QED
  BY <1>1 DEF OpToRel

-----------------------------------------------------------------------------
(***************************************************************************)
(* parse_instruments_list.  Its loop is a function that recurs over the    *)
(* number of parts read; that there is such a function, and what it has    *)
(* after n parts, is shown for one n after the other.                      *)
(***************************************************************************)
Round(parts, default, f, i) ==
  IF i = 0 THEN NothingParsed ELSE ParsePart(default, f[i - 1], parts[i])

Loop(parts, default) ==
  CHOOSE f : f = [i \in 0..Len(parts) |->
                    IF i = 0 THEN NothingParsed ELSE ParsePart(default, f[i - 1], parts[i])]

\* The list is parsed by the loop.
LEMMA ParseIsLoop ==
  ASSUME NEW parts, NEW default
  PROVE  ParseInstrumentsList(parts, default) = Loop(parts, default)[Len(parts)].pairs
  BY DEF ParseInstrumentsList, Loop

\* There is a loop for any number of parts.
LEMMA LoopExists ==
  ASSUME NEW parts, NEW default, NEW n \in Nat
  PROVE  \E f : f = [i \in 0..n |-> Round(parts, default, f, i)]
<1> DEFINE T == {k \in Nat : ~ \E f : f = [i \in 0..k |-> Round(parts, default, f, i)]}
<1>1. SUFFICES ASSUME T # {} PROVE FALSE
  OBVIOUS
<1>2. PICK m \in T : \A k \in T : ~(k < m)
  <2> HIDE DEF T
  <2>1. T \subseteq Nat
    BY DEF T
  <2>. QED
    BY <1>1, <2>1, LeastNatural
<1>3. CASE m = 0
  <2> DEFINE f == [i \in 0..0 |-> NothingParsed]
  <2>1. f = [i \in 0..0 |-> Round(parts, default, f, i)]
    BY DEF Round
  <2>. QED
    BY <1>3, <2>1
<1>4. CASE m # 0
  <2>1. m - 1 \in Nat /\ m - 1 < m
    BY <1>4
  <2>2. PICK f : f = [i \in 0..(m - 1) |-> Round(parts, default, f, i)]
    BY <1>2, <2>1
  <2> DEFINE g == [i \in 0..m |-> IF i = m THEN Round(parts, default, f, m) ELSE f[i]]
  <2>3. ASSUME NEW i \in 0..m PROVE g[i] = Round(parts, default, g, i)
    <3>1. i # 0 => i - 1 \in 0..(m - 1) /\ i - 1 \in 0..m /\ i - 1 # m
      BY <1>4
    <3>2. i # 0 => g[i - 1] = f[i - 1]
      BY <3>1
    <3>3. Round(parts, default, g, i) = Round(parts, default, f, i)
      BY <3>2 DEF Round
    <3>4. i # m => i \in 0..(m - 1)
      BY <1>4
    <3>5. i # m => f[i] = Round(parts, default, f, i)
      BY <2>2, <3>4
    <3>. QED
      BY <3>3, <3>5
  <2>4. g = [i \in 0..m |-> Round(parts, default, g, i)]
    BY <2>3
  <2>. QED
    BY <2>4
<1>. QED
  BY <1>3, <1>4

\* What the loop has after each part.
LEMMA LoopRound ==
  ASSUME NEW parts, NEW default, Len(parts) \in Nat, NEW i \in 0..Len(parts)
  PROVE  Loop(parts, default)[i] = Round(parts, default, Loop(parts, default), i)
<1> DEFINE f == Loop(parts, default)
<1>1. \E h : h = [k \in 0..Len(parts) |->
                    IF k = 0 THEN NothingParsed ELSE ParsePart(default, h[k - 1], parts[k])]
  <2>1. PICK h : h = [k \in 0..Len(parts) |-> Round(parts, default, h, k)]
    BY LoopExists
  <2>2. h = [k \in 0..Len(parts) |->
               IF k = 0 THEN NothingParsed ELSE ParsePart(default, h[k - 1], parts[k])]
    BY <2>1 DEF Round
  <2>. QED
    BY <2>2
<1>2. f = [k \in 0..Len(parts) |->
                    IF k = 0 THEN NothingParsed ELSE ParsePart(default, f[k - 1], parts[k])]
  BY <1>1 DEF Loop
<1>. QED
  BY <1>2 DEF Round

-----------------------------------------------------------------------------
\* A part was read that came with a symbol and its exchange.
Implied(parts, n) ==
  \E j \in 1..n : parts[j].symbol # NoSymbol /\ parts[j].at # NoExchange

\* The last symbol up to part i.
SymbolFor(parts, i) == parts[Max({j \in 1..i : parts[j].symbol # NoSymbol})].symbol

\* What the loop has after n parts: a pair for each symbol, no pair that no part
\* asks for, and of a documented list the pair of every part.
Right(parts, default, n, sofar) ==
  /\ sofar \in [pairs : Seq(InstrumentParts), implied : BOOLEAN]
  /\ sofar.implied = Implied(parts, n)
  /\ (\E j \in 1..n : parts[j].symbol # NoSymbol) =>
       /\ sofar.pairs # <<>>
       /\ Last(sofar.pairs).symbol = SymbolFor(parts, n)
  /\ \A i \in 1..n : parts[i].symbol # NoSymbol =>
       \E k \in 1..Len(sofar.pairs) : sofar.pairs[k] = Wanted(parts, default, i)
  /\ \A k \in 1..Len(sofar.pairs) :
       \E i \in 1..n : i \in Named(parts) /\ sofar.pairs[k] = Wanted(parts, default, i)
  /\ Documented(parts) =>
       /\ Len(sofar.pairs) = n
       /\ \A i \in 1..n : sofar.pairs[i] = Wanted(parts, default, i)

\* What part i asks for.
LEMMA WantedPair ==
  ASSUME NEW parts, NEW default, NEW i
  PROVE  Wanted(parts, default, i) =
           Part(SymbolFor(parts, i), IF parts[i].at = NoExchange THEN default ELSE parts[i].at)
  BY DEF Wanted, SymbolFor

\* The last symbol up to n is that of part n, if it has one.
LEMMA SymbolForNext ==
  ASSUME NEW parts \in Seq(InstrumentParts), NEW n \in 1..Len(parts)
  PROVE  /\ parts[n].symbol # NoSymbol => SymbolFor(parts, n) = parts[n].symbol
         /\ parts[n].symbol = NoSymbol => SymbolFor(parts, n) = SymbolFor(parts, n - 1)
<1> DEFINE With(k) == {j \in 1..k : parts[j].symbol # NoSymbol}
<1>1. ASSUME parts[n].symbol # NoSymbol PROVE Max(With(n)) = n
  <2>1. n \in With(n) /\ With(n) \subseteq 1..n
    BY <1>1
  <2>. QED
    BY <2>1 DEF Max
<1>2. ASSUME parts[n].symbol = NoSymbol PROVE With(n) = With(n - 1)
  BY <1>2
<1>. QED
  BY <1>1, <1>2 DEF SymbolFor

\* A round that appends the pair that is asked for.
LEMMA AppendPair ==
  ASSUME NEW parts \in Seq(InstrumentParts), NEW default \in STRING,
         NEW n \in 1..Len(parts), NEW before,
         Right(parts, default, n - 1, before),
         n \in Named(parts),
         Wanted(parts, default, n) \in InstrumentParts
  PROVE  Right(parts, default, n,
               [pairs   |-> Append(before.pairs, Wanted(parts, default, n)),
                implied |-> Implied(parts, n)])
<1> DEFINE old == before.pairs
           new == Append(old, Wanted(parts, default, n))
<1>0. old \in Seq(InstrumentParts)
  BY DEF Right
<1>1. /\ new \in Seq(InstrumentParts) /\ new # <<>>
      /\ Len(new) = Len(old) + 1 /\ Len(old) \in Nat
      /\ new[Len(new)] = Wanted(parts, default, n)
      /\ \A k \in 1..Len(old) : new[k] = old[k]
  BY <1>0
<1>2. \A i \in 1..n : i \in 1..(n - 1) \/ i = n
  OBVIOUS
<1>3. Last(new).symbol = SymbolFor(parts, n)
  BY <1>1, WantedPair DEF Last, Part
<1>4. ASSUME NEW i \in 1..n, parts[i].symbol # NoSymbol
      PROVE  \E k \in 1..Len(new) : new[k] = Wanted(parts, default, i)
  <2>1. CASE i = n
    BY <1>1, <2>1
  <2>2. CASE i \in 1..(n - 1)
    <3>1. PICK k \in 1..Len(old) : old[k] = Wanted(parts, default, i)
      BY <1>4, <2>2 DEF Right
    <3>. QED
      BY <1>1, <3>1
  <2>. QED
    BY <1>2, <2>1, <2>2
<1>5. ASSUME NEW k \in 1..Len(new)
      PROVE  \E i \in 1..n : i \in Named(parts) /\ new[k] = Wanted(parts, default, i)
  <2>1. CASE k = Len(new)
    BY <1>1, <2>1
  <2>2. CASE k # Len(new)
    <3>1. k \in 1..Len(old)
      BY <1>1, <2>2
    <3>2. PICK i \in 1..(n - 1) : i \in Named(parts) /\ old[k] = Wanted(parts, default, i)
      BY <3>1 DEF Right
    <3>. QED
      BY <1>1, <3>1, <3>2
  <2>. QED
    BY <2>1, <2>2
<1>6. ASSUME Documented(parts)
      PROVE  Len(new) = n /\ \A i \in 1..n : new[i] = Wanted(parts, default, i)
  <2>1. Len(old) = n - 1 /\ \A i \in 1..(n - 1) : old[i] = Wanted(parts, default, i)
    BY <1>6 DEF Right
  <2>2. Len(new) = n
    BY <1>1, <2>1
  <2>3. \A i \in 1..(n - 1) : new[i] = old[i]
    BY <1>1, <2>1
  <2> HIDE DEF old, new
  <2>. QED
    BY <1>1, <1>2, <2>1, <2>2, <2>3
<1> DEFINE after == [pairs |-> new, implied |-> Implied(parts, n)]
<1>7. after \in [pairs : Seq(InstrumentParts), implied : BOOLEAN]
  BY <1>1 DEF Implied
<1>8. after.pairs = new /\ after.implied = Implied(parts, n)
  OBVIOUS
<1>9. Right(parts, default, n, after)
  <2> HIDE DEF new, after
  <2>. QED
    BY <1>1, <1>3, <1>4, <1>5, <1>6, <1>7, <1>8 DEF Right
<1>. QED
  BY <1>9

\* A round that passes over a part, which is in no documented list.
LEMMA PassOver ==
  ASSUME NEW parts \in Seq(InstrumentParts), NEW default \in STRING,
         NEW n \in 1..Len(parts), NEW before,
         Right(parts, default, n - 1, before),
         parts[n].symbol = NoSymbol,
         ~(parts[n].at # NoExchange /\ Implied(parts, n - 1))
  PROVE  Right(parts, default, n, before)
<1>1. SymbolFor(parts, n) = SymbolFor(parts, n - 1)
  BY SymbolForNext
<1>2. \A i \in 1..n : i \in 1..(n - 1) \/ i = n
  OBVIOUS
<1>3. Implied(parts, n) = Implied(parts, n - 1)
  BY <1>2 DEF Implied
<1>4. ~ Documented(parts)
  <2>1. n \in DOMAIN parts
    OBVIOUS
  <2>. QED
    BY <2>1 DEF Documented, Implied
<1>5. \A i \in 1..(n - 1) : i \in 1..n
  OBVIOUS
<1>. QED
  BY <1>1, <1>2, <1>3, <1>4, <1>5 DEF Right

\* Each round does right.
LEMMA RoundRight ==
  ASSUME NEW parts \in Seq(InstrumentParts), NEW default \in STRING,
         NEW n \in 1..Len(parts), NEW before,
         Right(parts, default, n - 1, before)
  PROVE  Right(parts, default, n, ParsePart(default, before, parts[n]))
<1> DEFINE part  == parts[n]
           after == ParsePart(default, before, part)
           pair  == Wanted(parts, default, n)
<1>1. /\ part \in InstrumentParts /\ part.symbol \in Symbols /\ part.at \in STRING
      /\ n \in DOMAIN parts /\ n \in 1..n
  <2>1. parts[n] \in InstrumentParts /\ n \in DOMAIN parts
    OBVIOUS
  <2>. QED
    BY <2>1 DEF InstrumentParts
<1>2. before.implied = Implied(parts, n - 1)
      /\ before = [pairs |-> before.pairs, implied |-> before.implied]
      /\ before.pairs \in Seq(InstrumentParts)
  BY DEF Right
<1>3. \A j \in 1..n : j \in 1..(n - 1) \/ j = n
  OBVIOUS
<1>4. Implied(parts, n) <=> Implied(parts, n - 1) \/ (part.symbol # NoSymbol /\ part.at # NoExchange)
  BY <1>3 DEF Implied
<1>5. part.symbol # NoSymbol => n \in Named(parts)
  BY <1>1 DEF Named
<1>6. CASE part.symbol = NoSymbol /\ part.at # NoExchange /\ Implied(parts, n - 1)
  <2> DEFINE said == Last(before.pairs)
  <2>1. after = [before EXCEPT !.pairs = Append(@, Part(Last(@).symbol, part.at))]
    BY <1>2, <1>6 DEF ParsePart
  <2>2. said.symbol = SymbolFor(parts, n - 1) /\ before.pairs # <<>>
    BY <1>6 DEF Right, Implied
  <2>3. said \in InstrumentParts
    BY <1>2, <2>2 DEF Last
  <2>4. pair = Part(said.symbol, part.at)
    BY <1>6, <2>2, SymbolForNext, WantedPair
  <2>5. pair \in InstrumentParts
    BY <1>1, <2>3, <2>4 DEF Part, InstrumentParts
  <2>6. after = [pairs |-> Append(before.pairs, pair), implied |-> Implied(parts, n)]
    BY <1>2, <1>4, <1>6, <2>1, <2>4
  <2>7. n \in Named(parts)
    BY <1>1, <1>6 DEF Named, Implied
  <2>. QED
    BY <2>5, <2>6, <2>7, AppendPair
<1>7. CASE part.symbol = NoSymbol /\ ~(part.at # NoExchange /\ Implied(parts, n - 1))
  <2>1. after = before
    BY <1>2, <1>7 DEF ParsePart
  <2>. QED
    BY <1>7, <2>1, PassOver
<1>8. CASE part.symbol # NoSymbol /\ part.at # NoExchange
  <2>1. after = [pairs |-> Append(before.pairs, part), implied |-> TRUE]
    BY <1>8 DEF ParsePart
  <2>2. pair = part
    <3>1. part = Part(part.symbol, part.at)
      BY <1>1 DEF InstrumentParts, Part
    <3>. QED
      BY <1>8, <3>1, SymbolForNext, WantedPair
  <2>3. Implied(parts, n) = TRUE
    BY <1>3, <1>8 DEF Implied
  <2>4. after = [pairs |-> Append(before.pairs, pair), implied |-> Implied(parts, n)]
    BY <2>1, <2>2, <2>3
  <2>. QED
    BY <1>1, <1>5, <1>8, <2>2, <2>4, AppendPair
<1>9. CASE part.symbol # NoSymbol /\ part.at = NoExchange
  <2>1. after = [before EXCEPT !.pairs = Append(@, Part(part.symbol, default))]
    BY <1>9 DEF ParsePart
  <2>2. pair = Part(part.symbol, default)
    BY <1>9, SymbolForNext, WantedPair
  <2>3. pair \in InstrumentParts
    BY <1>1, <2>2 DEF Part, InstrumentParts
  <2>4. Implied(parts, n) = Implied(parts, n - 1)
    BY <1>3, <1>9 DEF Implied
  <2>5. after = [pairs |-> Append(before.pairs, pair), implied |-> Implied(parts, n)]
    BY <1>2, <2>1, <2>2, <2>4
  <2>. QED
    BY <1>5, <1>9, <2>3, <2>5, AppendPair
<1>. QED
  BY <1>6, <1>7, <1>8, <1>9

\* The loop does right after each part.
LEMMA LoopRight ==
  ASSUME NEW parts \in Seq(InstrumentParts), NEW default \in STRING,
         NEW n \in 0..Len(parts)
  PROVE  Right(parts, default, n, Loop(parts, default)[n])
<1> DEFINE f == Loop(parts, default)
           T == {k \in 0..Len(parts) : ~ Right(parts, default, k, f[k])}
<1>1. Len(parts) \in Nat
  OBVIOUS
<1>2. \A k \in 0..Len(parts) : f[k] = Round(parts, default, f, k)
  BY <1>1, LoopRound
<1> HIDE DEF f
<1>3. SUFFICES ASSUME T # {} PROVE FALSE
  BY DEF f
<1>4. PICK m \in T : \A k \in T : ~(k < m)
  <2>1. T \subseteq 0..Len(parts)
    BY Zenon
  <2>2. 0..Len(parts) \subseteq Nat
    BY <1>1
  <2> HIDE DEF T
  <2>. QED
    BY <1>3, <2>1, <2>2, LeastNatural
<1>5. CASE m = 0
  <2>1. f[0] = NothingParsed
    BY <1>2, <1>5 DEF Round
  <2>2. f[0] \in [pairs : Seq(InstrumentParts), implied : BOOLEAN]
        /\ f[0].pairs = <<>> /\ f[0].implied = FALSE
    BY <2>1 DEF NothingParsed
  <2>3. Len(f[0].pairs) = 0 /\ 1..0 = {}
    BY <2>2
  <2>4. Implied(parts, 0) = FALSE
    BY <2>3 DEF Implied
  <2>5. Right(parts, default, 0, f[0])
    BY <2>2, <2>3, <2>4 DEF Right
  <2>. QED
    BY <1>5, <2>5
<1>6. CASE m # 0
  <2>1. m \in 1..Len(parts) /\ m - 1 \in 0..Len(parts) /\ m - 1 < m
    BY <1>1, <1>6
  <2>2. Right(parts, default, m - 1, f[m - 1])
    BY <1>4, <2>1
  <2>3. f[m] = ParsePart(default, f[m - 1], parts[m])
    BY <1>2, <1>6 DEF Round
  <2>. QED
    BY <2>1, <2>2, <2>3, RoundRight
<1>. QED
  BY <1>5, <1>6

\* What --instruments means.
AreWanted(pairs, parts, default) ==
  /\ pairs \in Seq(InstrumentParts)
  /\ Documented(parts) =>
       /\ Len(pairs) = Len(parts)
       /\ \A i \in DOMAIN parts : pairs[i] = Wanted(parts, default, i)
  /\ \A i \in DOMAIN parts : parts[i].symbol # NoSymbol =>
       \E k \in DOMAIN pairs : pairs[k] = Wanted(parts, default, i)
  /\ \A k \in DOMAIN pairs : \E i \in Named(parts) : pairs[k] = Wanted(parts, default, i)

\* The list is parsed as it is meant.
LEMMA ParsedIsWanted ==
  ASSUME NEW parts \in Seq(InstrumentParts), NEW default \in STRING
  PROVE  AreWanted(ParseInstrumentsList(parts, default), parts, default)
<1> DEFINE pairs == ParseInstrumentsList(parts, default)
<1> DEFINE sofar == Loop(parts, default)[Len(parts)]
<1>1. Len(parts) \in 0..Len(parts) /\ DOMAIN parts = 1..Len(parts) /\ pairs = sofar.pairs
  BY ParseIsLoop
<1>2. Right(parts, default, Len(parts), sofar)
  BY <1>1, LoopRight
<1> HIDE DEF sofar
<1>3. pairs \in Seq(InstrumentParts)
  BY <1>1, <1>2 DEF Right
<1>4. \A S : \A q \in Seq(S) : DOMAIN q = 1..Len(q)
  OBVIOUS
<1>5. DOMAIN pairs = 1..Len(pairs)
  BY <1>3, <1>4
<1> HIDE DEF pairs
<1>6. AreWanted(pairs, parts, default)
  BY <1>1, <1>2, <1>3, <1>5 DEF Right, AreWanted
<1>. QED
  BY <1>6 DEF pairs

-----------------------------------------------------------------------------
(***************************************************************************)
(* The fallback of the quote currency, against the chain of ADR-021.       *)
(***************************************************************************)
\* The least of some places of a chain of three.
LEMMA MinOfThree ==
  ASSUME NEW S, S \subseteq 1..3
  PROVE  /\ 1 \in S => Min(S) = 1
         /\ 1 \notin S /\ 2 \in S => Min(S) = 2
         /\ 1 \notin S /\ 2 \notin S /\ 3 \in S => Min(S) = 3
         /\ 1 \notin S /\ 2 \notin S /\ 3 \notin S => S = {}
<1>1. ASSUME NEW m \in S, \A y \in S : m <= y
      PROVE  Min(S) = m
  <2>1. Min(S) \in S /\ \A y \in S : Min(S) <= y
    BY <1>1 DEF Min
  <2>2. m \in 1..3 /\ Min(S) \in 1..3
    BY <2>1
  <2>3. Min(S) <= m
    BY <2>1
  <2>4. m <= Min(S)
    BY <1>1, <2>1
  <2>. QED
    BY <2>2, <2>3, <2>4
<1>. QED
  BY <1>1

\* What the first of three currencies is that is there.
LEMMA QuoteOfThree ==
  ASSUME NEW t, NEW a, NEW b, NEW available, Chain(t) = <<t, a, b>>
  PROVE  Quote(t, available) = IF t \in available THEN t
                               ELSE IF a \in available THEN a
                               ELSE IF b \in available THEN b ELSE t
<1> DEFINE There == {i \in DOMAIN Chain(t) : Chain(t)[i] \in available}
<1>1. /\ There \subseteq 1..3
      /\ 1 \in There <=> t \in available
      /\ 2 \in There <=> a \in available
      /\ 3 \in There <=> b \in available
  OBVIOUS
<1>2. Chain(t)[1] = t /\ Chain(t)[2] = a /\ Chain(t)[3] = b
  OBVIOUS
<1>3. Quote(t, available) = IF There = {} THEN t ELSE Chain(t)[Min(There)]
  BY DEF Quote
<1> HIDE DEF There
<1>. QED
  BY <1>1, <1>2, <1>3, MinOfThree

\* A currency that is no dollar stands for itself.
LEMMA QuoteOfOther ==
  ASSUME NEW t, NEW available, Chain(t) = <<t>>
  PROVE  Quote(t, available) = t
<1> DEFINE There == {i \in DOMAIN Chain(t) : Chain(t)[i] \in available}
<1>1. There # {} => There = {1}
  OBVIOUS
<1>2. There # {} => Min(There) = 1
  BY <1>1 DEF Min
<1>. QED
  BY <1>2 DEF Quote

\* find_fallback_target finds the first currency of the chain that is there.
LEMMA FallbackIsQuote ==
  ASSUME NEW t, NEW available
  PROVE  /\ t \in available => Quote(t, available) = t
         /\ t \notin available =>
              FindFallbackTarget(t, available) = {Quote(t, available)} \ {t}
<1>1. CASE t = "USDC"
  <2>1. Chain(t) = <<t, "USDT", "USD">>
    BY <1>1 DEF Chain
  <2>. QED
    BY <1>1, <2>1, QuoteOfThree DEF FindFallbackTarget
<1>2. CASE t = "USDT"
  <2>1. Chain(t) = <<t, "USDC", "USD">>
    BY <1>2 DEF Chain
  <2>. QED
    BY <1>2, <2>1, QuoteOfThree DEF FindFallbackTarget
<1>3. CASE t = "USD"
  <2>1. Chain(t) = <<t, "USDT", "USDC">>
    BY <1>3 DEF Chain
  <2>. QED
    BY <1>3, <2>1, QuoteOfThree DEF FindFallbackTarget
<1>4. CASE t \notin {"USDC", "USDT", "USD"}
  <2>1. Chain(t) = <<t>>
    BY <1>4 DEF Chain
  <2>2. FindFallbackTarget(t, available) = {}
    BY <1>4 DEF FindFallbackTarget
  <2>. QED
    BY <2>1, <2>2, QuoteOfOther
<1>. QED
  BY <1>1, <1>2, <1>3, <1>4

\* resolve_one_instrument keeps what was typed as the identifier, the exchange
\* and the base, and takes the currency the chain says.
LEMMA ResolvedMarket ==
  ASSUME NEW part, part.symbol \in Symbols, NEW default,
         NEW a, a = Part(part.symbol, IF part.at = NoExchange THEN default ELSE part.at)
  PROVE  Runs(ResolveOneInstrument(part, default), a)
<1> DEFINE s         == part.symbol
           exchange  == IF part.at = NoExchange THEN default ELSE part.at
           r         == ResolveOneInstrument(part, default)
           available == IF s.sep = "" THEN {} ELSE Targets(s.base, exchange)
           found     == IF s.target \in available THEN {s.target}
                        ELSE FindFallbackTarget(s.target, available)
           written   == {Symbol(s.base, t, "-") : t \in found}
           pick      == CHOOSE w \in (IF written = {} THEN {s} ELSE written) : TRUE
<1>1. r = [symbol |-> FormatInstrument(pick, exchange), exchange |-> exchange,
           id |-> CliInstId(s)]
  BY DEF ResolveOneInstrument
<1>2. s \in Symbols
  OBVIOUS
<1>3. /\ found \subseteq {Quote(s.target, available)}
      /\ found = {} => Quote(s.target, available) = s.target
  <2> HIDE DEF available
  <2>1. CASE s.target \in available
    BY <2>1, FallbackIsQuote
  <2>2. CASE s.target \notin available
    <3>1. found = {Quote(s.target, available)} \ {s.target}
      BY <2>2, FallbackIsQuote
    <3> HIDE DEF found
    <3>. QED
      BY <3>1
  <2>. QED
    BY <2>1, <2>2
<1>4. s.sep # "" => available = Targets(s.base, exchange)
  OBVIOUS
<1>5. s.sep = "" => Quote(s.target, available) = s.target
  <2>1. ASSUME s.sep = "" PROVE found = {}
    BY <2>1 DEF FindFallbackTarget
  <2>. QED
    BY <1>3, <2>1
<1>6. (pick = s /\ found = {}) \/ pick = Symbol(s.base, Quote(s.target, available), "-")
  <2>1. CASE found = {}
    BY <2>1
  <2>2. CASE found # {}
    <3>1. found = {Quote(s.target, available)}
      BY <1>3, <2>2
    <3>2. written = {Symbol(s.base, Quote(s.target, available), "-")}
      <4> HIDE DEF found
      <4>. QED
        BY <3>1
    <3>. QED
      BY <3>2
  <2>. QED
    BY <2>1, <2>2
<1>7. /\ DOMAIN pick = {"base", "target", "sep"}
      /\ pick.base = s.base /\ pick.target = Quote(s.target, available)
  <2> HIDE DEF pick, found, available
  <2>. QED
    BY <1>2, <1>3, <1>6 DEF Symbols, Symbol
<1>8. FormatInstrument(pick, exchange).base = pick.base
      /\ FormatInstrument(pick, exchange).target = pick.target
  <2> HIDE DEF pick
  <2>. QED
    BY <1>7 DEF FormatInstrument
<1>9. a.symbol = s /\ a.at = exchange
  BY DEF Part
<1>10. Runs(r, a)
  <2> HIDE DEF pick, found, written, available, s, exchange, r
  <2>1. /\ r.id = CliInstId(s) /\ r.exchange = exchange
        /\ r.symbol = FormatInstrument(pick, exchange)
    BY <1>1
  <2>. QED
    BY <1>4, <1>5, <1>7, <1>8, <1>9, <2>1 DEF Runs, Market
<1>. QED
  BY <1>10

\* A pair of --instruments, which names its exchange.
LEMMA PairRuns ==
  ASSUME NEW a \in InstrumentParts
  PROVE  Runs(ResolveOneInstrument(Part(a.symbol, NoExchange), a.at), a)
<1> DEFINE p == Part(a.symbol, NoExchange)
<1>1. a.symbol \in Symbols /\ a.at \in STRING /\ a = Part(a.symbol, a.at)
  BY DEF InstrumentParts, Part
<1>2. p.symbol = a.symbol /\ p.at = NoExchange
  BY DEF Part
<1>3. a = Part(p.symbol, IF p.at = NoExchange THEN a.at ELSE p.at)
  BY <1>1, <1>2
<1> HIDE DEF p
<1>4. Runs(ResolveOneInstrument(p, a.at), a)
  BY <1>1, <1>2, <1>3, ResolvedMarket
<1>. QED
  BY <1>4 DEF p

\* --instruments.
LEMMA AllRun ==
  ASSUME NEW pairs \in Seq(InstrumentParts), NEW run,
         run = [i \in DOMAIN pairs |->
                  ResolveOneInstrument(Part(pairs[i].symbol, NoExchange), pairs[i].at)]
  PROVE  /\ Len(run) = Len(pairs) /\ DOMAIN run = DOMAIN pairs
         /\ \A i \in DOMAIN pairs : Runs(run[i], pairs[i])
<1>1. DOMAIN pairs = 1..Len(pairs) /\ Len(pairs) \in Nat
  OBVIOUS
<1>2. Len(run) = Len(pairs) /\ DOMAIN run = DOMAIN pairs
  BY <1>1
<1>3. ASSUME NEW i \in DOMAIN pairs PROVE Runs(run[i], pairs[i])
  <2>1. pairs[i] \in InstrumentParts
    BY <1>1, <1>3
  <2>2. run[i] = ResolveOneInstrument(Part(pairs[i].symbol, NoExchange), pairs[i].at)
    BY <1>3
  <2>. QED
    BY <2>1, <2>2, PairRuns
<1>. QED
  BY <1>2, <1>3

\* The markets of the table that a cell is about.
MarketsOf(c) ==
  {m \in COIN_ALIASES : NormalizeBase(m[1]) = c.base /\ m[3] = c.exchange}

\* check_fallback shows what the chain says.
LEMMA CellMarket ==
  ASSUME NEW base, NEW target, NEW exchange, NEW c, c = Cell(base, target, exchange)
  PROVE  c.shown.target = Quote(c.target, {m[2] : m \in MarketsOf(c)})
<1> DEFINE entries   == {m \in COIN_ALIASES : m[3] = exchange /\ NormalizeBase(m[1]) = base}
           available == {m[2] : m \in entries}
           exact     == {Symbol(m[1], target, "-") : m \in {e \in entries : e[2] = target}}
           fallback  == {Symbol(base, t, "-") : t \in FindFallbackTarget(target, available)}
           shown     == IF exact # {} THEN exact
                        ELSE IF fallback # {} THEN fallback ELSE {Symbol(base, target, "-")}
           pick      == CHOOSE s \in shown : TRUE
<1>1. /\ c.base = base /\ c.target = target /\ c.exchange = exchange
      /\ c.shown = FormatInstrument(pick, exchange)
  BY DEF Cell
<1>2. available = {m[2] : m \in MarketsOf(c)}
  <2>1. entries = MarketsOf(c)
    BY <1>1 DEF MarketsOf
  <2> HIDE DEF entries
  <2>. QED
    BY <2>1
<1>3. exact # {} <=> target \in available
  OBVIOUS
<1>4. ASSUME NEW w \in shown
      PROVE  DOMAIN w = {"base", "target", "sep"} /\ w.target = Quote(target, available)
  <2>1. CASE exact # {}
    <3>1. w \in exact /\ Quote(target, available) = target
      BY <1>3, <2>1, FallbackIsQuote
    <3>. QED
      BY <3>1 DEF Symbol
  <2>2. CASE exact = {} /\ fallback # {}
    <3>1. FindFallbackTarget(target, available) \subseteq {Quote(target, available)}
      BY <1>3, <2>2, FallbackIsQuote
    <3>2. PICK t \in FindFallbackTarget(target, available) : w = Symbol(base, t, "-")
      BY <2>2
    <3>. QED
      BY <3>1, <3>2 DEF Symbol
  <2>3. CASE exact = {} /\ fallback = {}
    <3>1. FindFallbackTarget(target, available) = {}
      BY <2>3
    <3>2. Quote(target, available) = target
      BY <1>3, <2>3, <3>1, FallbackIsQuote
    <3>. QED
      BY <2>3, <3>2 DEF Symbol
  <2>. QED
    BY <2>1, <2>2, <2>3
<1>5. shown # {}
  OBVIOUS
<1>6. DOMAIN pick = {"base", "target", "sep"} /\ pick.target = Quote(target, available)
  <2> HIDE DEF shown, available
  <2>. QED
    BY <1>4, <1>5
<1>7. FormatInstrument(pick, exchange).target = pick.target
  <2> HIDE DEF pick
  <2>. QED
    BY <1>6 DEF FormatInstrument
<1>. QED
  <2> HIDE DEF pick, available
  <2>. QED
    BY <1>1, <1>2, <1>6, <1>7

\* A base with one name at an exchange is listed there by the name it resolves to.
LEMMA CellTyped ==
  ASSUME NEW base, NormalizeBase(base) = base, NEW target, NEW exchange,
         NEW c, c = Cell(base, target, exchange),
         \A m \in MarketsOf(c) : m[1] = base
  PROVE  c.shown = ResolveOneInstrument(Part(Symbol(base, target, "-"), NoExchange),
                                        exchange).symbol
<1> DEFINE entries   == {m \in COIN_ALIASES : m[3] = exchange /\ NormalizeBase(m[1]) = base}
           available == {m[2] : m \in entries}
           exact     == {Symbol(m[1], target, "-") : m \in {e \in entries : e[2] = target}}
           fallback  == {Symbol(base, t, "-") : t \in FindFallbackTarget(target, available)}
           shown     == IF exact # {} THEN exact
                        ELSE IF fallback # {} THEN fallback ELSE {Symbol(base, target, "-")}
           found     == IF target \in available THEN {target}
                        ELSE FindFallbackTarget(target, available)
           written   == {Symbol(base, t, "-") : t \in found}
           typed     == IF written = {} THEN {Symbol(base, target, "-")} ELSE written
<1>1. /\ c.base = base /\ c.exchange = exchange
      /\ c.shown = FormatInstrument(CHOOSE s \in shown : TRUE, exchange)
  BY DEF Cell
<1>2. \A m \in entries : m[1] = base
  BY <1>1 DEF MarketsOf
<1>3. available = Targets(base, exchange)
  <2>1. entries = {m \in COIN_ALIASES : m[1] = base /\ m[3] = exchange}
    BY <1>2
  <2> HIDE DEF entries
  <2>. QED
    BY <2>1 DEF Targets
<1>4. ResolveOneInstrument(Part(Symbol(base, target, "-"), NoExchange), exchange).symbol
        = FormatInstrument(CHOOSE s \in typed : TRUE, exchange)
  <2> DEFINE part == Part(Symbol(base, target, "-"), NoExchange)
  <2>1. /\ part.at = NoExchange /\ part.symbol = Symbol(base, target, "-")
        /\ part.symbol.sep = "-" /\ part.symbol.base = base /\ part.symbol.target = target
    BY DEF Part, Symbol
  <2> HIDE DEF part, available
  <2>. QED
    BY <1>3, <2>1 DEF ResolveOneInstrument, part
<1>5. shown = typed
  <2>1. CASE target \in available
    <3>1. exact = {Symbol(base, target, "-")}
      BY <1>2, <2>1
    <3>2. typed = {Symbol(base, target, "-")}
      BY <2>1
    <3>. QED
      BY <3>1, <3>2
  <2>2. CASE target \notin available
    <3>1. exact = {}
      BY <2>2
    <3>2. written = fallback
      BY <2>2
    <3> HIDE DEF exact, written, fallback
    <3>. QED
      BY <3>1, <3>2
  <2>. QED
    BY <2>1, <2>2
<1>. QED
  <2> HIDE DEF shown, typed
  <2>. QED
    BY <1>1, <1>4, <1>5

-----------------------------------------------------------------------------
(***************************************************************************)
(* The inductive invariant: TypeOK, and what is behind main at each stage. *)
(***************************************************************************)
Stages ==
  /\ cli \in CommandLines
  /\ DOMAIN resolved = 1..Len(resolved) /\ Len(resolved) \in Nat
  /\ main \in {"begin", "connect", "resolve"} => resolved = <<>>
  /\ main \notin {"begin", "exited"} => ~ cli.list
  /\ main \in {"sender", "spawn"} => started < Len(resolved)
  /\ main = "wait" => started = Len(resolved)

\* What main printed or runs is what the flags say.
AsTyped ==
  /\ announced \subseteq InstrumentTable
  /\ main \notin {"begin", "connect", "resolve"} /\ ~ cli.list => resolved = ToRun

SInv == TypeOK /\ Stages /\ AsTyped

\* The instruments to run are a sequence, as the flags are well formed.
LEMMA ToRunSequence ==
  ASSUME cli \in CommandLines
  PROVE  DOMAIN ToRun = 1..Len(ToRun) /\ Len(ToRun) \in Nat
<1> DEFINE parts == CHOOSE l \in cli.instruments : TRUE
           pairs == ParseInstrumentsList(parts, cli.exchange)
<1>1. CASE cli.instruments = {}
  BY <1>1 DEF ToRun
<1>2. CASE cli.instruments # {}
  <2>1. parts \in Seq(InstrumentParts) /\ cli.exchange \in STRING
    BY <1>2, StartupAssumption
  <2>2. pairs \in Seq(InstrumentParts)
    BY <2>1, ParsedIsWanted DEF AreWanted
  <2> HIDE DEF pairs
  <2> DEFINE run == [i \in DOMAIN pairs |->
                       ResolveOneInstrument(Part(pairs[i].symbol, NoExchange), pairs[i].at)]
  <2>3. ToRun = run
    BY <1>2 DEF ToRun, pairs
  <2>4. DOMAIN run = 1..Len(pairs) /\ Len(pairs) \in Nat
    BY <2>2
  <2>5. Len(run) = Len(pairs)
    BY <2>4
  <2>. QED
    BY <2>3, <2>4, <2>5
<1>. QED
  BY <1>1, <1>2

\* The instruments main has begun with: they have an entry in /status.
Begun == {j \in DOMAIN resolved :
            j <= started \/ (j = started + 1 /\ main \in {"sender", "spawn"})}

\* The types of what is not a function of the instruments.
Scalars ==
  /\ main \in {"begin", "connect", "resolve", "status", "sender", "spawn", "wait", "exited"}
  /\ database \in BOOLEAN /\ connected \in BOOLEAN
  /\ changes \in 0..MaxChanges
  /\ announced # {} => cli.list
  /\ resolved # <<>> => ~ cli.list
  /\ started \in 0..Len(resolved) /\ awaited \in 0..started
  /\ server \in {"off", "serving", "failed"}

\* The tasks, those of them that have a sender, and those that are in /status.
Tasks ==
  /\ DOMAIN task = DOMAIN resolved
  /\ \A i \in DOMAIN task : task[i] \in {"new", "spawned", "running"} \cup Done
  /\ \A i \in DOMAIN task : task[i] = "new" <=> i > started

Senders ==
  senders \subseteq {i \in DOMAIN resolved :
                       i <= started \/ (i = started + 1 /\ main = "spawn")}

Entries ==
  /\ DOMAIN status = {KeyOf(resolved[i]) : i \in Begun}
  /\ \A k \in DOMAIN status : status[k] \in {"starting", "active", "inactive"}

\* These are TypeOK.
LEMMA TypeParts == TypeOK <=> Scalars /\ Tasks /\ Senders /\ Entries
  BY DEF TypeOK, Scalars, Tasks, Senders, Entries, Begun

\* At the start nothing is resolved.
LEMMA InitSInv == Init => SInv
<1> SUFFICES ASSUME Init PROVE SInv
  OBVIOUS
<1>1. resolved = <<>> /\ Len(resolved) = 0 /\ DOMAIN resolved = {} /\ 1..0 = {}
      /\ DOMAIN task = {} /\ DOMAIN status = {}
  BY DEF Init
<1>2. TypeOK
  <2>1. /\ main = "begin" /\ started = 0 /\ awaited = 0 /\ changes = 0 /\ server = "off"
        /\ senders = {} /\ announced = {} /\ resolved = <<>>
        /\ database \in BOOLEAN /\ connected = FALSE /\ MaxChanges \in Nat
    BY StartupAssumption DEF Init
  <2>2. Begun = {}
    BY <1>1 DEF Begun
  <2>3. Scalars
    <3>1. started \in 0..Len(resolved) /\ awaited \in 0..started /\ changes \in 0..MaxChanges
      BY <1>1, <2>1
    <3>. QED
      BY <2>1, <3>1 DEF Scalars
  <2>4. Tasks /\ Senders
    BY <1>1, <2>1 DEF Tasks, Senders
  <2>5. Entries
    BY <1>1, <2>2 DEF Entries
  <2>. QED
    BY <2>3, <2>4, <2>5, TypeParts
<1>3. Stages
  BY <1>1 DEF Init, Stages
<1>4. AsTyped
  BY DEF Init, AsTyped
<1>. QED
  BY <1>2, <1>3, <1>4 DEF SInv

\* Each step of main keeps the invariant.
LEMMA MainStages ==
  ASSUME SInv, Main
  PROVE  Stages' /\ AsTyped'
<1>. USE DEF SInv
<1>1. CASE List
  BY <1>1 DEF List, TypeOK, Stages, AsTyped, ToRun
<1>2. CASE Migrate
  BY <1>2 DEF Migrate, TypeOK, Stages, AsTyped, ToRun
<1>3. CASE Connect
  BY <1>3 DEF Connect, TypeOK, Stages, AsTyped, ToRun
<1>4. CASE Resolve
  <2>1. /\ resolved' = ToRun /\ cli' = cli /\ main = "resolve"
        /\ announced' = announced /\ main' \in {"exited", "status"}
        /\ started' = started
    BY <1>4 DEF Resolve
  <2>2. cli \in CommandLines /\ ~ cli.list
    BY <2>1 DEF Stages
  <2>3. DOMAIN ToRun = 1..Len(ToRun) /\ Len(ToRun) \in Nat
    BY <2>2, ToRunSequence
  <2>4. ToRun' = ToRun
    BY <2>1 DEF ToRun
  <2>. QED
    BY <2>1, <2>2, <2>3, <2>4 DEF Stages, AsTyped
<1>5. ASSUME /\ UNCHANGED <<cli, announced, resolved>>
             /\ main \in {"status", "sender", "spawn", "wait"}
      PROVE  AsTyped'
  BY <1>5 DEF Stages, AsTyped, ToRun
<1>6. CASE InsertStatus
  BY <1>5, <1>6 DEF InsertStatus, TypeOK, Stages
<1>7. CASE ConnectSender
  BY <1>5, <1>7 DEF ConnectSender, TypeOK, Stages
<1>8. CASE Spawn
  BY <1>5, <1>8 DEF Spawn, TypeOK, Stages
<1>9. CASE Serve
  BY <1>5, <1>9 DEF Serve, TypeOK, Stages
<1>10. CASE Await
  BY <1>5, <1>10 DEF Await, TypeOK, Stages
<1>. QED
  BY <1>1, <1>2, <1>3, <1>4, <1>6, <1>7, <1>8, <1>9, <1>10 DEF Main

\* Each step of a task does, and QuestDB's.
LEMMA OthersStages ==
  ASSUME SInv, UNCHANGED <<cli, main, announced, resolved, started>>
  PROVE  Stages' /\ AsTyped'
  BY DEF SInv, Stages, AsTyped, ToRun

\* The scalars keep their types.
LEMMA ScalarsStep ==
  ASSUME SInv, [Next]_vars
  PROVE  Scalars'
<1>0. Scalars /\ Stages /\ MaxChanges \in Nat
  BY TypeParts, StartupAssumption DEF SInv
<1>1. CASE List \/ Migrate \/ Connect
  BY <1>0, <1>1 DEF List, Migrate, Connect, Scalars, Stages
<1>2. CASE Resolve
  <2>1. resolved = <<>> /\ Len(resolved) = 0 /\ ~ cli.list
    BY <1>0, <1>2 DEF Resolve, Stages
  <2>2. started = 0 /\ awaited = 0 /\ started' = 0 /\ awaited' = 0
    BY <1>0, <1>2, <2>1 DEF Resolve, Scalars
  <2>3. Len(resolved') \in Nat
    BY <1>2, MainStages DEF Main, Stages
  <2>. QED
    BY <1>0, <1>2, <2>1, <2>2, <2>3 DEF Resolve, Scalars
<1>3. CASE InsertStatus \/ ConnectSender
  BY <1>0, <1>3 DEF InsertStatus, ConnectSender, Scalars
<1>4. CASE Spawn
  BY <1>0, <1>4 DEF Spawn, Scalars, Stages
<1>5. CASE Serve
  BY <1>0, <1>5 DEF Serve, Scalars
<1>6. CASE Await
  BY <1>0, <1>6 DEF Await, Scalars, Stages
<1>7. CASE Database
  BY <1>0, <1>7 DEF Database, Scalars
<1>8. ASSUME NEW i \in DOMAIN task, Task(i) PROVE Scalars'
  BY <1>0, <1>8 DEF Task, LookUp, UpdateStatusActive, End, Crash, Scalars
<1>9. CASE UNCHANGED vars
  BY <1>0, <1>9 DEF vars, Scalars
<1>. QED
  BY <1>1, <1>2, <1>3, <1>4, <1>5, <1>6, <1>7, <1>8, <1>9 DEF Next, Main

\* The tasks keep theirs: one that has not been started is new.
LEMMA TasksStep ==
  ASSUME SInv, [Next]_vars
  PROVE  Tasks'
<1>0. Tasks /\ Stages /\ Scalars
  BY TypeParts DEF SInv
<1>1. CASE Resolve
  <2>1. resolved = <<>> /\ Len(resolved) = 0
    BY <1>0, <1>1 DEF Resolve, Stages
  <2>2. started' = 0
    BY <1>0, <1>1, <2>1 DEF Resolve, Scalars
  <2>3. resolved' = ToRun /\ task' = [i \in DOMAIN ToRun |-> "new"]
    BY <1>1 DEF Resolve
  <2>4. DOMAIN resolved' = 1..Len(resolved') /\ Len(resolved') \in Nat
    BY <1>1, MainStages DEF Main, Stages
  <2>5. \A i \in DOMAIN resolved' : i > 0
    BY <2>4
  <2>. QED
    BY <2>2, <2>3, <2>5 DEF Tasks
<1>2. CASE Spawn
  <2>1. started + 1 \in DOMAIN task /\ started \in Nat
    BY <1>0, <1>2 DEF Spawn, Tasks, Stages, Scalars
  <2>2. \A i \in DOMAIN task : i \in Nat
    BY <1>0 DEF Tasks, Stages
  <2>. QED
    BY <1>0, <1>2, <2>1, <2>2 DEF Spawn, Tasks
<1>3. ASSUME NEW i \in DOMAIN task, LookUp(i) \/ End(i) \/ Crash(i) PROVE Tasks'
  <2>1. /\ task[i] \in {"spawned", "running"}
        /\ \E state \in {"running"} \cup Done : task' = [task EXCEPT ![i] = state]
        /\ UNCHANGED <<resolved, started>>
    BY <1>3 DEF LookUp, End, Crash, Running, Done
  <2>. QED
    BY <1>0, <2>1 DEF Tasks, Done
<1>4. CASE UNCHANGED <<resolved, task, started>>
  BY <1>0, <1>4 DEF Tasks
<1>. QED
  BY <1>1, <1>2, <1>3, <1>4 DEF Next, Main, Task, List, Migrate, Connect, InsertStatus,
     ConnectSender, Serve, Await, UpdateStatusActive, Database, vars

\* A sender is for a task that main starts or has started.
LEMMA SendersStep ==
  ASSUME SInv, [Next]_vars
  PROVE  Senders'
<1>0. Senders /\ Stages /\ Scalars
  BY TypeParts DEF SInv
<1>1. CASE Resolve
  <2>1. DOMAIN resolved = {}
    BY <1>0, <1>1 DEF Resolve, Stages
  <2>. QED
    BY <1>0, <1>1, <2>1 DEF Resolve, Senders
<1>2. CASE ConnectSender
  <2>1. started + 1 \in DOMAIN resolved
    BY <1>0, <1>2 DEF ConnectSender, Stages, Scalars
  <2>. QED
    BY <1>0, <1>2, <2>1 DEF ConnectSender, Senders
<1>3. CASE Spawn
  BY <1>0, <1>3 DEF Spawn, Senders, Stages, Scalars
<1>4. CASE /\ UNCHANGED <<senders, resolved, started>>
           /\ main' = main \/ main # "spawn"
  BY <1>0, <1>4 DEF Senders
<1>. QED
  BY <1>1, <1>2, <1>3, <1>4 DEF Next, Main, Task, List, Migrate, Connect, InsertStatus,
     Serve, Await, LookUp, End, Crash, UpdateStatusActive, Database, vars

\* An entry is there for each key main has begun with, and only for those.
LEMMA EntriesStep ==
  ASSUME SInv, [Next]_vars
  PROVE  Entries'
<1>0. Entries /\ Tasks /\ Stages /\ Scalars
  BY TypeParts DEF SInv
<1>1. CASE Resolve
  <2>1. DOMAIN resolved = {} /\ Len(resolved) = 0
    BY <1>0, <1>1 DEF Resolve, Stages
  <2>2. started = 0 /\ started' = 0 /\ main' \notin {"sender", "spawn"}
    BY <1>0, <1>1, <2>1 DEF Resolve, Scalars
  <2>3. DOMAIN resolved' = 1..Len(resolved') /\ Len(resolved') \in Nat
    BY <1>1, MainStages DEF Main, Stages
  <2>4. Begun = {} /\ Begun' = {}
    BY <2>1, <2>2, <2>3 DEF Begun
  <2>5. status' = status
    BY <1>1 DEF Resolve
  <2>. QED
    BY <1>0, <2>4, <2>5 DEF Entries
<1>2. CASE InsertStatus
  <2> DEFINE k == KeyOf(resolved[started + 1])
  <2>1. /\ main = "status" /\ main' = "sender" /\ status' = At(k, "starting")
        /\ UNCHANGED <<resolved, started>>
        /\ started \in Nat /\ started + 1 \in DOMAIN resolved
    BY <1>0, <1>2 DEF InsertStatus, Stages, Scalars
  <2>2. Begun' = Begun \cup {started + 1}
    BY <2>1 DEF Begun
  <2>3. {KeyOf(resolved'[i]) : i \in Begun'} = {KeyOf(resolved[i]) : i \in Begun} \cup {k}
    BY <2>1, <2>2
  <2> HIDE DEF k
  <2>4. /\ DOMAIN status' = DOMAIN status \cup {k} /\ status'[k] = "starting"
        /\ \A j \in DOMAIN status : j # k => status'[j] = status[j]
    BY <2>1 DEF At
  <2>. QED
    BY <1>0, <2>3, <2>4 DEF Entries
<1>3. CASE Spawn
  <2>1. Begun' = Begun
    BY <1>0, <1>3 DEF Spawn, Begun, Stages, Scalars
  <2>. QED
    BY <1>0, <1>3, <2>1 DEF Spawn, Entries
<1>4. ASSUME NEW i \in DOMAIN task, UpdateStatusActive(i) PROVE Entries'
  <2> DEFINE k == KeyOf(resolved[i])
  <2>1. PICK state \in {"active", "inactive"} : status' = At(k, state)
    BY <1>4 DEF UpdateStatusActive
  <2>2. UNCHANGED <<main, resolved, started>> /\ task[i] = "running"
    BY <1>4 DEF UpdateStatusActive, Running
  <2>6. i \in DOMAIN resolved /\ i \in Nat /\ started \in Nat
    <3>1. /\ DOMAIN task = 1..Len(resolved) /\ DOMAIN resolved = 1..Len(resolved)
          /\ Len(resolved) \in Nat /\ started \in 0..Len(resolved)
      BY <1>0 DEF Tasks, Stages, Scalars
    <3>2. i \in 1..Len(resolved)
      BY <1>4, <3>1
    <3>. QED
      BY <3>1, <3>2
  <2>3. i \in Begun
    BY <1>0, <2>2, <2>6 DEF Begun, Tasks
  <2>4. k \in DOMAIN status
    BY <1>0, <2>3 DEF Entries
  <2>5. Begun' = Begun
    BY <2>2 DEF Begun
  <2> HIDE DEF k
  <2>7. /\ DOMAIN status' = DOMAIN status \cup {k} /\ status'[k] = state
        /\ \A j \in DOMAIN status : j # k => status'[j] = status[j]
    BY <2>1 DEF At
  <2>. QED
    BY <1>0, <2>1, <2>2, <2>4, <2>5, <2>7 DEF Entries
<1>5. CASE /\ UNCHANGED <<status, resolved, started>>
           /\ main' = main \/ {main, main'} \cap {"sender", "spawn"} = {}
              \/ {main, main'} \subseteq {"sender", "spawn"}
  <2>1. Begun' = Begun
    BY <1>5 DEF Begun
  <2>. QED
    BY <1>0, <1>5, <2>1 DEF Entries
<1>. QED
  BY <1>1, <1>2, <1>3, <1>4, <1>5 DEF Next, Main, Task, List, Migrate, Connect,
     ConnectSender, Serve, Await, LookUp, End, Crash, Database, vars

\* Every step keeps the invariant.
LEMMA NextSInv == SInv /\ [Next]_vars => SInv'
<1> SUFFICES ASSUME SInv, [Next]_vars PROVE SInv'
  OBVIOUS
<1>1. TypeOK'
  BY ScalarsStep, TasksStep, SendersStep, EntriesStep, TypeParts, PTL
<1>2. Stages' /\ AsTyped'
  <2>1. CASE Main
    BY <2>1, MainStages
  <2>2. CASE UNCHANGED <<cli, main, announced, resolved, started>>
    BY <2>2, OthersStages
  <2>. QED
    BY <2>1, <2>2 DEF Next, Database, Task, LookUp, UpdateStatusActive, End, Crash, vars
<1>. QED
  BY <1>1, <1>2 DEF SInv

-----------------------------------------------------------------------------
(***************************************************************************)
(* The theorems.                                                           *)
(***************************************************************************)

\* The inductive invariant holds in every state of every behaviour.
THEOREM Inductive == Spec => []SInv
  BY InitSInv, NextSInv, PTL DEF Spec

\* Every state is well typed; the stages of main and of its tasks agree, and
\* /status lists the instruments main has begun with and no others.
THEOREM TypeCorrect == Spec => []TypeOK
<1>1. SInv => TypeOK
  BY DEF SInv
<1>. QED
  BY <1>1, Inductive, PTL

\* The instruments to run are those the flags ask for.
AsAsked(run) ==
  LET list == CHOOSE l \in cli.instruments : TRUE
      Asks(i) == Wanted(list, cli.exchange, i)
      Single  == Part(cli.instrument.symbol, IF cli.instrument.at = NoExchange
                                             THEN cli.exchange ELSE cli.instrument.at)
  IN  IF cli.instruments = {} THEN Len(run) = 1 /\ Runs(run[1], Single)
      ELSE /\ Documented(list) =>
                /\ Len(run) = Len(list)
                /\ \A i \in DOMAIN list : Runs(run[i], Asks(i))
           /\ \A i \in DOMAIN list : list[i].symbol # NoSymbol =>
                \E k \in DOMAIN run : Runs(run[k], Asks(i))
           /\ \A k \in DOMAIN run : \E i \in Named(list) : Runs(run[k], Asks(i))

LEMMA ResolvedAsAsked ==
  ASSUME cli \in CommandLines
  PROVE  AsAsked(ToRun)
<1>1. /\ cli.exchange \in STRING
      /\ cli.instrument \in InstrumentParts /\ cli.instruments \subseteq Seq(InstrumentParts)
  BY StartupAssumption
<1>2. CASE cli.instruments = {}
  <2> DEFINE r == ResolveOneInstrument(cli.instrument, cli.exchange)
             a == Part(cli.instrument.symbol, IF cli.instrument.at = NoExchange
                                              THEN cli.exchange ELSE cli.instrument.at)
  <2>1. ToRun = <<r>>
    BY <1>2 DEF ToRun
  <2>2. cli.instrument.symbol \in Symbols
    BY <1>1 DEF InstrumentParts
  <2>3. Runs(r, a)
    BY <2>2, ResolvedMarket
  <2>4. AsAsked(ToRun) <=> Len(ToRun) = 1 /\ Runs(ToRun[1], a)
    BY <1>2 DEF AsAsked
  <2> HIDE DEF r, a
  <2>. QED
    BY <2>1, <2>3, <2>4
<1>3. CASE cli.instruments # {}
  <2> DEFINE list    == CHOOSE l \in cli.instruments : TRUE
             pairs   == ParseInstrumentsList(list, cli.exchange)
             Asks(i) == Wanted(list, cli.exchange, i)
  <2>1. list \in Seq(InstrumentParts)
    BY <1>1, <1>3
  <2>2. /\ pairs \in Seq(InstrumentParts)
        /\ Documented(list) => /\ Len(pairs) = Len(list)
                               /\ \A i \in DOMAIN list : pairs[i] = Asks(i)
        /\ \A i \in DOMAIN list : list[i].symbol # NoSymbol =>
             \E k \in DOMAIN pairs : pairs[k] = Asks(i)
        /\ \A k \in DOMAIN pairs : \E i \in Named(list) : pairs[k] = Asks(i)
    <3> HIDE DEF list
    <3>1. AreWanted(pairs, list, cli.exchange)
      BY <1>1, <2>1, ParsedIsWanted
    <3> HIDE DEF pairs
    <3>. QED
      BY <3>1 DEF AreWanted
  <2>3. ToRun = [i \in DOMAIN pairs |->
                   ResolveOneInstrument(Part(pairs[i].symbol, NoExchange), pairs[i].at)]
    BY <1>3 DEF ToRun
  <2>4. AsAsked(ToRun) <=>
          /\ Documented(list) =>
               /\ Len(ToRun) = Len(list)
               /\ \A i \in DOMAIN list : Runs(ToRun[i], Asks(i))
          /\ \A i \in DOMAIN list : list[i].symbol # NoSymbol =>
               \E k \in DOMAIN ToRun : Runs(ToRun[k], Asks(i))
          /\ \A k \in DOMAIN ToRun : \E i \in Named(list) : Runs(ToRun[k], Asks(i))
    BY <1>3 DEF AsAsked
  <2> HIDE DEF pairs, list, Asks
  <2>5. /\ Len(ToRun) = Len(pairs) /\ DOMAIN ToRun = DOMAIN pairs
        /\ \A i \in DOMAIN pairs : Runs(ToRun[i], pairs[i])
    BY <2>2, <2>3, AllRun
  <2>6. Documented(list) => DOMAIN list = DOMAIN pairs
    BY <2>1, <2>2
  <2>. QED
    BY <2>2, <2>4, <2>5, <2>6
<1>. QED
  BY <1>2, <1>3

\* For any flags, a list in the formats of ADR-024 runs a client for each part, of any
\* other list nothing is left out but @exchange, each client is at its exchange and
\* with the first currency of the chain that is listed there; the listing says the
\* same of every pair.
THEOREM FollowsChainHolds == Spec => []FollowsChain
<1>1. SInv => FollowsChain
  <2> SUFFICES ASSUME SInv PROVE FollowsChain
    OBVIOUS
  <2>1. main \notin {"begin", "connect", "resolve"} /\ ~ cli.list => AsAsked(resolved)
    BY ResolvedAsAsked DEF SInv, Stages, AsTyped
  <2> DEFINE Typed(c) == ResolveOneInstrument(Part(Symbol(c.base, c.target, "-"), NoExchange),
                                              c.exchange)
  <2>2. ASSUME NEW c \in announced
        PROVE  /\ c.shown.target = Quote(c.target, {m[2] : m \in MarketsOf(c)})
               /\ (\A m \in MarketsOf(c) : m[1] = c.base) => c.shown = Typed(c).symbol
    <3>1. c \in InstrumentTable
      BY DEF SInv, AsTyped
    <3>2. PICK m \in COIN_ALIASES, exchange \in KnownExchanges :
                 c = Cell(NormalizeBase(m[1]), m[2], exchange)
      BY <3>1 DEF InstrumentTable
    <3>3. c.base = NormalizeBase(m[1]) /\ c.target = m[2] /\ c.exchange = exchange
      BY <3>2 DEF Cell
    <3>4. NormalizeBase(c.base) = c.base
      BY <3>3 DEF NormalizeBase
    <3>5. c = Cell(c.base, c.target, c.exchange)
      BY <3>2, <3>3
    <3>6. c.shown.target = Quote(c.target, {n[2] : n \in MarketsOf(c)})
      BY <3>5, CellMarket
    <3>7. (\A n \in MarketsOf(c) : n[1] = c.base) => c.shown = Typed(c).symbol
      BY <3>4, <3>5, CellTyped
    <3>. QED
      BY <3>6, <3>7
  <2>. QED
    BY <2>1, <2>2 DEF FollowsChain, AsAsked, MarketsOf
<1>. QED
  BY <1>1, Inductive, PTL

\* main sets the entry of a client back to "starting" only when it starts a twin
\* of that client: what a client has reported is kept otherwise.
THEOREM ResetByTwinHolds == Spec => ResetByTwinOnly
<1> DEFINE Kept == \A k \in DOMAIN status :
                     (status[k] # "starting" /\ status'[k] = "starting") =>
                       \E i \in 1..started :
                         /\ KeyOf(resolved[i]) = k
                         /\ KeyOf(resolved[started + 1]) = k
<1>1. ASSUME SInv, [Next]_vars PROVE Kept
  <2> SUFFICES ASSUME NEW k \in DOMAIN status, status[k] # "starting", status'[k] = "starting"
               PROVE  \E i \in 1..started : /\ KeyOf(resolved[i]) = k
                                            /\ KeyOf(resolved[started + 1]) = k
    OBVIOUS
  <2>0. Entries /\ Stages /\ Scalars
    BY <1>1, TypeParts DEF SInv
  <2>1. CASE InsertStatus
    <3> DEFINE new == KeyOf(resolved[started + 1])
    <3>1. main = "status" /\ status' = At(new, "starting")
      BY <2>1 DEF InsertStatus
    <3>2. k = new
      <4> HIDE DEF new
      <4>. QED
        BY <3>1 DEF At
    <3>3. PICK i \in Begun : k = KeyOf(resolved[i])
      BY <2>0 DEF Entries
    <3>4. i \in 1..started
      BY <2>0, <3>1, <3>3 DEF Begun, Stages, Scalars
    <3>. QED
      BY <3>2, <3>3, <3>4
  <2>2. ASSUME NEW i \in DOMAIN task, UpdateStatusActive(i) PROVE FALSE
    <3>1. PICK state \in {"active", "inactive"} : status' = At(KeyOf(resolved[i]), state)
      BY <2>2 DEF UpdateStatusActive
    <3>. QED
      BY <3>1 DEF At
  <2>3. CASE status' = status
    BY <2>3
  <2>. QED
    BY <1>1, <2>1, <2>2, <2>3 DEF Next, Main, Task, List, Migrate, Connect, Resolve,
       ConnectSender, Spawn, Serve, Await, LookUp, End, Crash, Database, vars
<1>. QED
  BY <1>1, Inductive, PTL DEF Spec, ResetByTwinOnly
=============================================================================
