----------------------- MODULE SnapshotResearch_proofs -----------------------
(***************************************************************************)
(* Machine-checked proofs about the backtests of SnapshotResearch: for any  *)
(* table of daily bars, they are chosen on earlier bars only, fit the       *)
(* account, and account for every change of the positions.                  *)
(***************************************************************************)
EXTENDS PitPublication, SumTheorems

(* Bars in a table of which no symbol has two on one day. *)
Charted(rows) ==
  /\ IsFiniteSet(rows) /\ rows \subseteq DailyBar
  /\ \A r, q \in rows : Key(r) = Key(q) => r = q

(* The last date of a finite set of them. *)
LEMMA LastIs ==
  ASSUME NEW S, \A x \in S : x \in Nat, IsFiniteSet(S), S # {}
  PROVE  Max(S) \in S /\ \A x \in S : x <= Max(S)
<1> DEFINE From(x) == {y \in S : x <= y}
           C == {From(x) : x \in S}
<1>0. C \subseteq SUBSET S /\ C # {}
  OBVIOUS
<1>1. PICK m \in C : \A t \in C : t \subseteq m => t = m
  <2> HIDE DEF C
  <2>1. QED  BY <1>0, SmallestSet
<1>2. PICK x \in S : m = From(x)
  BY DEF C
<1>3. ASSUME NEW y \in S
      PROVE  y <= x
  <2>1. SUFFICES ASSUME x < y PROVE FALSE
    OBVIOUS
  <2>2. From(y) \in C
    OBVIOUS
  <2>3. From(y) \subseteq From(x) /\ x \in From(x) /\ x \notin From(y)
    BY <2>1
  <2>4. From(y) = From(x)
    BY <1>1, <1>2, <2>2, <2>3
  <2>5. QED  BY <2>3, <2>4
<1>4. \E z \in S : \A y \in S : z >= y
  BY <1>3
<1>5. Max(S) = CHOOSE z \in S : \A y \in S : z >= y
  BY DEF Max
<1>6. QED  BY <1>4, <1>5

-----------------------------------------------------------------------------
(* Nothing but earlier bars. *)

(* Masking leaves the earlier bars, and the symbols of the day. *)
LEMMA MaskedIs ==
  ASSUME NEW rows, rows \subseteq DailyBar, NEW t \in Nat
  PROVE  /\ \A s : {r \in BarsOf(Masked(rows, t), s) : r.date < t} = {r \in BarsOf(rows, s) : r.date < t}
         /\ SymbolsIn(BarsOn(Masked(rows, t), t)) = SymbolsIn(BarsOn(rows, t))
<1> DEFINE past == {r \in rows : r.date < t}
           mask(r) == [r EXCEPT !.close = r.symbol * r.open, !.volume = 7]
           day == {mask(r) : r \in BarsOn(rows, t)}
<1>1. Masked(rows, t) = past \cup day
  BY DEF Masked
<1>2. ASSUME NEW r \in BarsOn(rows, t)
      PROVE  mask(r).date = t /\ mask(r).symbol = r.symbol
  BY <1>2 DEF BarsOn, DailyBar
<1>3. \A q \in day : q.date = t
  BY <1>2
<1>4. \A q \in past : q.date < t /\ q.date # t
  BY DEF DailyBar
<1>5. BarsOn(Masked(rows, t), t) = day
  <2> HIDE DEF past, day
  <2>1. QED  BY <1>1, <1>3, <1>4 DEF BarsOn
<1>6. SymbolsIn(day) = SymbolsIn(BarsOn(rows, t))
  <2> HIDE DEF mask
  <2>1. QED  BY <1>2 DEF SymbolsIn
<1>7. {q \in Masked(rows, t) : q.date < t} = past
  <2> HIDE DEF past, day
  <2>1. \A q \in day : ~(q.date < t)
    BY <1>3
  <2>2. QED  BY <1>1, <1>4, <2>1
<1> HIDE DEF past, day
<1>8. ASSUME NEW s
      PROVE  {r \in BarsOf(Masked(rows, t), s) : r.date < t} = {r \in BarsOf(rows, s) : r.date < t}
  <2>1. {r \in BarsOf(Masked(rows, t), s) : r.date < t}
          = {r \in {q \in Masked(rows, t) : q.date < t} : r.symbol = s}
    BY DEF BarsOf
  <2>2. {r \in BarsOf(rows, s) : r.date < t} = {r \in {q \in rows : q.date < t} : r.symbol = s}
    BY DEF BarsOf
  <2>3. {q \in rows : q.date < t} = past
    BY DEF past
  <2>4. QED  BY <1>7, <2>1, <2>2, <2>3
<1>9. QED  BY <1>5, <1>6, <1>8

(* Tables that agree on the earlier bars agree on what lies back from a day, *)
LEMMA SameBack ==
  ASSUME NEW rows, NEW other, NEW t,
         \A s : {r \in BarsOf(other, s) : r.date < t} = {r \in BarsOf(rows, s) : r.date < t}
  PROVE  \A s, n : Back(other, s, t, n) = Back(rows, s, t, n)
<1>1. \A r : Between(other, r, t) = Between(rows, r, t)
  <2>1. \A r, table : Between(table, r, t)
          = {x \in {q \in BarsOf(table, r.symbol) : q.date < t} : r.date < x.date}
    BY DEF Between
  <2>2. QED  BY <2>1
<1>2. ASSUME NEW s, NEW n
      PROVE  Back(other, s, t, n) = Back(rows, s, t, n)
  <2> DEFINE Of(table) == {r \in {q \in BarsOf(table, s) : q.date < t} :
                             Cardinality(Between(table, r, t)) = n}
  <2>1. Back(other, s, t, n) = Only(Of(other)) /\ Back(rows, s, t, n) = Only(Of(rows))
    <3>1. \A table : Of(table) = {r \in BarsOf(table, s) : r.date < t /\ Cardinality(Between(table, r, t)) = n}
      OBVIOUS
    <3> HIDE DEF Of
    <3>2. QED  BY <3>1 DEF Back
  <2>2. Of(other) = Of(rows)
    BY <1>1
  <2>3. QED  BY <2>1, <2>2
<1>3. QED  BY <1>2

(* so on its features, *)
LEMMA SameFeatures ==
  ASSUME NEW rows, NEW other, NEW t,
         \A s : {r \in BarsOf(other, s) : r.date < t} = {r \in BarsOf(rows, s) : r.date < t},
         SymbolsIn(BarsOn(other, t)) = SymbolsIn(BarsOn(rows, t))
  PROVE  Features(other, t) = Features(rows, t)
<1>1. \A s, n : Back(other, s, t, n) = Back(rows, s, t, n)
  BY SameBack
<1>2. \A s, n : LagReturn(other, s, t, n) = LagReturn(rows, s, t, n)
  BY <1>1 DEF LagReturn
<1>3. ASSUME NEW s
      PROVE  LagVolume(other, s, t) = LagVolume(rows, s, t)
  <2>1. [n \in 1..Lags |-> Back(other, s, t, n - 1).volume]
          = [n \in 1..Lags |-> Back(rows, s, t, n - 1).volume]
    BY <1>1
  <2>2. QED  BY <2>1 DEF LagVolume
<1>4. ASSUME NEW s
      PROVE  Spread(other, s, t) = Spread(rows, s, t)
  <2> DEFINE c(table) ==
        [n \in 1..Lags |-> Change(Back(table, s, t, n), Back(table, s, t, n - 1))]
             Of(f) ==
        Lags * SumFunctionOnSet([n \in 1..Lags |-> f[n] * f[n]], 1..Lags)
          - SumFunctionOnSet(f, 1..Lags) * SumFunctionOnSet(f, 1..Lags)
  <2>1. c(other) = c(rows)
    BY <1>1
  <2>2. Spread(other, s, t) = Of(c(other)) /\ Spread(rows, s, t) = Of(c(rows))
    BY DEF Spread
  <2> HIDE DEF c, Of
  <2>3. QED  BY <2>1, <2>2
<1>5. \A s : VolumeRatio(other, s, t) = VolumeRatio(rows, s, t)
  BY <1>1, <1>3 DEF VolumeRatio
<1>6. Featured(other, t) = Featured(rows, t)
  BY <1>3 DEF Featured
<1> DEFINE row(table, s) ==
      [symbol |-> s, one |-> LagReturn(table, s, t, 1), long |-> LagReturn(table, s, t, Lags),
       spread |-> Spread(table, s, t), ratio |-> VolumeRatio(table, s, t)]
<1>7. /\ Features(other, t) = {row(other, s) : s \in Featured(other, t)}
      /\ Features(rows, t) = {row(rows, s) : s \in Featured(rows, t)}
  <2>1. Features(other, t) = {row(other, s) : s \in Featured(other, t)}
    BY Zenon DEF Features
  <2>2. Features(rows, t) = {row(rows, s) : s \in Featured(rows, t)}
    BY Zenon DEF Features
  <2>3. QED  BY <2>1, <2>2
<1>8. \A s : row(other, s) = row(rows, s)
  BY <1>2, <1>4, <1>5
<1>9. QED
  <2> HIDE DEF row
  <2>1. QED  BY <1>6, <1>7, <1>8

(* There is one row of features, and one score, for each symbol that has features, *)
LEMMA FeaturesAre ==
  ASSUME NEW rows, NEW t
  PROVE  /\ \A f \in Features(rows, t) : f.symbol \in Featured(rows, t)
         /\ \A f, g \in Features(rows, t) : f.symbol = g.symbol => f = g
<1> DEFINE row(s) ==
      [symbol |-> s, one |-> LagReturn(rows, s, t, 1), long |-> LagReturn(rows, s, t, Lags),
       spread |-> Spread(rows, s, t), ratio |-> VolumeRatio(rows, s, t)]
<1>1. Features(rows, t) = {row(s) : s \in Featured(rows, t)}
  BY Zenon DEF Features
<1>2. \A s : row(s).symbol = s
  OBVIOUS
<1> HIDE DEF row
<1>3. QED  BY <1>1, <1>2

(* and the portfolio of a test day is what its features select. *)
LEMMA ChosenIs ==
  ASSUME NEW rows, rows \subseteq DailyBar, NEW t
  PROVE  Selected(Scored(Features(rows, t))) \subseteq SymbolsIn(BarsOn(rows, t))
<1>1. Selected(Scored(Features(rows, t))) \subseteq {f.symbol : f \in Scored(Features(rows, t))}
  BY DEF Selected
<1>2. \A f \in Scored(Features(rows, t)) : \E g \in Features(rows, t) : f.symbol = g.symbol
  BY DEF Scored
<1>3. Featured(rows, t) \subseteq SymbolsIn(BarsOn(rows, t))
  BY DEF Featured
<1>4. QED  BY <1>1, <1>2, <1>3, FeaturesAre

LEMMA LaggedHolds ==
  ASSUME NEW rows, rows \subseteq DailyBar
  PROVE  LaggedOnly(rows)
<1> SUFFICES ASSUME NEW t \in TestDays(rows)
    PROVE  Selected(Scored(Features(Masked(rows, t), t))) = {h.symbol : h \in Portfolio(rows, t)}
  BY DEF LaggedOnly
<1>1. t \in Nat
  BY DEF TestDays, DailyBar
<1>2. Features(Masked(rows, t), t) = Features(rows, t)
  BY <1>1, MaskedIs, SameFeatures
<1> DEFINE chosen == Selected(Scored(Features(rows, t)))
<1>3. chosen \subseteq SymbolsIn(BarsOn(rows, t))
  BY ChosenIs
<1> DEFINE held == {q \in BarsOn(rows, t) : q.symbol \in chosen}
<1>4. {r.symbol : r \in held} = chosen
  <2> HIDE DEF chosen
  <2>1. QED  BY <1>3 DEF SymbolsIn
<1>5. {h.symbol : h \in Portfolio(rows, t)} = {r.symbol : r \in held}
  <2> DEFINE part(r) ==
        [date |-> t, symbol |-> r.symbol, shares |-> Shares(r.open),
         worth |-> Shares(r.open) * r.open, gain |-> Shares(r.open) * (r.close - r.open)]
  <2>1. Portfolio(rows, t) = {part(r) : r \in held}
    BY DEF Portfolio
  <2>2. \A r : part(r).symbol = r.symbol
    OBVIOUS
  <2> HIDE DEF held, part
  <2>3. QED  BY <2>1, <2>2
<1>6. QED  BY <1>2, <1>4, <1>5

-----------------------------------------------------------------------------
(* What is bought and sold leads from one portfolio to the next. *)

LEMMA WorthSplits ==
  ASSUME NEW H, IsFiniteSet(H), \A h \in H : h.worth \in Int,
         NEW K, IsFiniteSet(K), \A h \in H : h.symbol \in K
  PROVE  /\ Worth(H) \in Int
         /\ \A s \in K : WorthOf(H, s) \in Int
         /\ Sigma([s \in K |-> WorthOf(H, s)], K) = Worth(H)
<1> DEFINE f == [h \in H |-> h.worth]
           key == [h \in H |-> h.symbol]
           Part(s) == {h \in H : key[h] = s}
<1>1. key \in [H -> K] /\ \A h \in H : f[h] \in Int
  OBVIOUS
<1>2. Worth(H) = Sigma(f, H)
  BY DEF Worth, Sigma
<1>3. ASSUME NEW s \in K
      PROVE  WorthOf(H, s) = Sigma(f, Part(s)) /\ Sigma(f, Part(s)) \in Int
  <2> DEFINE part == {h \in H : h.symbol = s}
             g == [h \in part |-> h.worth]
  <2>1. Part(s) = part /\ part \subseteq H /\ IsFiniteSet(part)
    BY FS_Subset
  <2>2. WorthOf(H, s) = Sigma(g, part)
    BY DEF WorthOf, Worth, Sigma
  <2>3. \A h \in part : f[h] \in Int /\ g[h] = f[h]
    OBVIOUS
  <2> HIDE DEF f, g, part, Part
  <2>4. Sigma(g, part) = Sigma(f, part) /\ Sigma(f, part) \in Int
    BY <2>1, <2>3, SigmaSame, SigmaInt
  <2>5. QED  BY <2>1, <2>2, <2>4
<1>4. [s \in K |-> WorthOf(H, s)] = [s \in K |-> Sigma(f, {h \in H : key[h] = s})]
  <2> HIDE DEF f, key
  <2>1. QED  BY <1>3
<1> HIDE DEF f, key
<1>5. Sigma([s \in K |-> Sigma(f, {h \in H : key[h] = s})], K) = Sigma(f, H)
  BY <1>1, SigmaSplit
<1>6. Sigma(f, H) \in Int
  BY <1>1, SigmaInt
<1>7. QED  BY <1>2, <1>3, <1>4, <1>5, <1>6

LEMMA TradesLead ==
  ASSUME NEW from, NEW to, IsFiniteSet(from), IsFiniteSet(to),
         \A h \in from \cup to : h.worth \in Int
  PROVE  Worth(to) = Worth(from) + Bought(from, to) - Bought(to, from)
<1> DEFINE K == {h.symbol : h \in from \cup to}
           a == [s \in K |-> WorthOf(from, s)]
           b == [s \in K |-> WorthOf(to, s)]
           buys == [s \in K |-> IF b[s] - a[s] > 0 THEN b[s] - a[s] ELSE 0]
           sells == [s \in K |-> IF a[s] - b[s] > 0 THEN a[s] - b[s] ELSE 0]
           both == [s \in K |-> b[s] + sells[s]]
<1>1. IsFiniteSet(K)
  <2> DEFINE f == [h \in from \cup to |-> h.symbol]
  <2>1. IsFiniteSet(from \cup to)
    BY FS_Union
  <2>2. f \in Surjection(from \cup to, K)
    BY DEF Surjection
  <2>3. QED  BY <2>1, <2>2, FS_Surjection
<1>2. \A h \in from \cup to : h.symbol \in K
  OBVIOUS
<1>3. /\ Worth(from) \in Int /\ Worth(to) \in Int
      /\ \A s \in K : WorthOf(from, s) \in Int /\ WorthOf(to, s) \in Int
      /\ Sigma(a, K) = Worth(from) /\ Sigma(b, K) = Worth(to)
  <2> HIDE DEF K
  <2>1. QED  BY <1>1, <1>2, WorthSplits
<1>4. Bought(from, to) = Sigma(buys, K)
  <2> DEFINE more == [s \in K |-> WorthOf(to, s) - WorthOf(from, s)]
  <2>1. Bought(from, to) = Sigma([s \in K |-> IF more[s] > 0 THEN more[s] ELSE 0], K)
    BY DEF Bought, Sigma
  <2>2. [s \in K |-> IF more[s] > 0 THEN more[s] ELSE 0] = buys
    <3> HIDE DEF K
    <3>1. QED  OBVIOUS
  <2>3. QED  BY <2>1, <2>2
<1>5. Bought(to, from) = Sigma(sells, K)
  <2> DEFINE L == {h.symbol : h \in to \cup from}
             more == [s \in L |-> WorthOf(from, s) - WorthOf(to, s)]
  <2>1. Bought(to, from) = Sigma([s \in L |-> IF more[s] > 0 THEN more[s] ELSE 0], L)
    BY DEF Bought, Sigma
  <2>2. L = K
    OBVIOUS
  <2>3. [s \in L |-> IF more[s] > 0 THEN more[s] ELSE 0] = sells
    <3> HIDE DEF K, L
    <3>1. QED  BY <2>2
  <2>4. QED  BY <2>1, <2>2, <2>3
<1> HIDE DEF K
<1>6. \A s \in K : /\ a[s] \in Int /\ b[s] \in Int /\ buys[s] \in Int /\ sells[s] \in Int
                   /\ both[s] = b[s] + sells[s] /\ both[s] = a[s] + buys[s]
  BY <1>3
<1> HIDE DEF a, b, buys, sells, both
<1>7. Sigma(both, K) = Sigma(b, K) + Sigma(sells, K)
  BY <1>1, <1>6, SigmaPlus
<1>8. Sigma(both, K) = Sigma(a, K) + Sigma(buys, K)
  BY <1>1, <1>6, SigmaPlus
<1>9. Sigma(sells, K) \in Int /\ Sigma(buys, K) \in Int
  BY <1>1, <1>6, SigmaInt
<1>10. QED  BY <1>3, <1>4, <1>5, <1>7, <1>8, <1>9

-----------------------------------------------------------------------------
(* The portfolio fits the account. *)

(* At most TopK of a finite set of scores have fewer than TopK that are better. *)
LEMMA FewSelected ==
  ASSUME NEW scored, IsFiniteSet(scored),
         \A f \in scored : f.symbol \in Nat /\ f.score \in Int,
         \A f, g \in scored : f.symbol = g.symbol => f = g
  PROVE  IsFiniteSet(Selected(scored)) /\ Cardinality(Selected(scored)) <= TopK
<1> DEFINE Over(x, g) == x.score > g.score \/ (x.score = g.score /\ x.symbol < g.symbol)
           Better(g) == {x \in scored : Over(x, g)}
           top == {g \in scored : Cardinality(Better(g)) < TopK}
           Worse(g) == {x \in top : Over(g, x)}
           C == {Worse(g) : g \in top}
           f == [g \in top |-> g.symbol]
<1>1. IsFiniteSet(top) /\ top \subseteq scored
  BY FS_Subset
<1>2. f \in Surjection(top, Selected(scored))
  <2>1. Selected(scored) = {g.symbol : g \in top}
    BY DEF Selected
  <2> HIDE DEF top
  <2>2. QED  BY <2>1 DEF Surjection
<1>3. IsFiniteSet(Selected(scored)) /\ Cardinality(Selected(scored)) <= Cardinality(top)
  <2> HIDE DEF top, f
  <2>1. QED  BY <1>1, <1>2, FS_Surjection
<1>4. Cardinality(top) \in Nat /\ Cardinality(Selected(scored)) \in Nat
  <2> HIDE DEF top
  <2>1. QED  BY <1>1, <1>3, FS_CardinalityType
<1>5. CASE top = {}
  <2>1. Cardinality(top) = 0
    BY <1>5, FS_EmptySet
  <2>2. QED  BY <1>3, <1>4, <2>1, ResearchAssumption
<1>6. CASE top # {}
  <2>1. C \subseteq SUBSET top /\ C # {}
    <3> HIDE DEF top, Over
    <3>1. QED  BY <1>6
  <2>2. PICK m \in C : \A u \in C : u \subseteq m => u = m
    <3> HIDE DEF C, top
    <3>1. QED  BY <1>1, <2>1, SmallestSet
  <2>3. PICK w \in top : m = Worse(w)
    BY DEF C
  <2>4. ASSUME NEW g \in top, NEW h \in top
        PROVE  /\ g = h \/ Over(g, h) \/ Over(h, g)
               /\ ~Over(g, g)
               /\ \A x \in top : Over(g, h) /\ Over(h, x) => Over(g, x)
    <3> HIDE DEF top
    <3>1. QED  BY <1>1, <2>4
  <2>5. ASSUME NEW v \in Worse(w)
        PROVE  FALSE
    <3>1. v \in top /\ Over(w, v)
      BY <2>5
    <3>2. Worse(v) \in C
      BY <3>1
    <3>3. Worse(v) \subseteq Worse(w) /\ v \notin Worse(v)
      <4> HIDE DEF Over, top
      <4>1. QED  BY <2>3, <2>4, <3>1
    <3>4. Worse(v) = Worse(w)
      <4> HIDE DEF Worse, C
      <4>1. QED  BY <2>2, <2>3, <3>2, <3>3
    <3>5. QED  BY <2>5, <3>3, <3>4
  <2>6. top \ {w} \subseteq Better(w)
    <3>1. ASSUME NEW g \in top, g # w
          PROVE  Over(g, w)
      <4>1. ~Over(w, g)
        BY <2>5, <3>1
      <4>2. QED
        <5> HIDE DEF Over, top
        <5>1. QED  BY <2>3, <2>4, <3>1, <4>1
    <3>2. QED
      <4> HIDE DEF Over, top
      <4>1. QED  BY <1>1, <3>1
  <2>7. IsFiniteSet(Better(w)) /\ Cardinality(Better(w)) \in Nat /\ Cardinality(Better(w)) < TopK
    <3>1. Better(w) \subseteq scored
      OBVIOUS
    <3>2. Cardinality(Better(w)) < TopK
      BY <2>3
    <3>3. QED
      <4> HIDE DEF Better
      <4>1. QED  BY <3>1, <3>2, FS_Subset, FS_CardinalityType
  <2>8. Cardinality(top \ {w}) <= Cardinality(Better(w))
    <3> HIDE DEF Better, top
    <3>1. QED  BY <2>6, <2>7, FS_Subset
  <2>9. Cardinality(top \ {w}) = Cardinality(top) - 1
    <3> HIDE DEF top
    <3>1. QED  BY <1>1, <2>3, FS_RemoveElement
  <2>10. Cardinality(top) <= TopK
    <3> HIDE DEF Better, top
    <3>1. QED  BY <1>4, <2>7, <2>8, <2>9, ResearchAssumption
  <2>11. QED
    <3> HIDE DEF top
    <3>1. QED  BY <1>3, <1>4, <2>10, ResearchAssumption
<1>7. QED  BY <1>5, <1>6

(* An equal part of the account buys no more than that part. *)
LEMMA WorthFits ==
  ASSUME NEW open \in Nat \ {0}
  PROVE  Shares(open) * open \in Nat /\ TopK * (Shares(open) * open) <= Account
<1> DEFINE m == TopK * open * Lot
           q == Account \div m
<1>1. TopK \in Nat \ {0} /\ Lot \in Nat \ {0} /\ Account \in Nat
  BY ResearchAssumption
<1>2. m \in Nat \ {0}
  <2>1. ASSUME NEW a \in Nat \ {0}, NEW b \in Nat \ {0} PROVE a * b \in Nat \ {0}
    BY <2>1
  <2>2. TopK * open \in Nat \ {0}
    BY <1>1, <2>1
  <2>3. QED  BY <1>1, <2>1, <2>2
<1>3. q \in Nat /\ m * q <= Account
  <2> HIDE DEF m
  <2>1. QED  BY <1>1, <1>2, SMTT(30)
<1>4. Shares(open) = q * Lot
  BY DEF Shares
<1> HIDE DEF q
<1>5. TopK * ((q * Lot) * open) = m * q
  BY <1>1, <1>3, SMTT(30)
<1>6. (q * Lot) * open \in Nat
  BY <1>1, <1>3, SMTT(30)
<1>7. QED  BY <1>3, <1>4, <1>5, <1>6

LEMMA ScoresAre ==
  ASSUME NEW rows, Charted(rows), NEW t
  PROVE  LET scored == Scored(Features(rows, t))
         IN /\ IsFiniteSet(scored)
            /\ \A f \in scored : f.symbol \in Nat /\ f.score \in Int
            /\ \A f, g \in scored : f.symbol = g.symbol => f = g
<1> DEFINE all == Features(rows, t)
           day == BarsOn(rows, t)
           score(f) == 5 * RankOf(all, "long", f) + 2 * RankOf(all, "one", f)
                         - 2 * RankOf(all, "spread", f) + RankOf(all, "ratio", f)
           row(f) == [symbol |-> f.symbol, score |-> score(f)]
<1>1. IsFiniteSet(day) /\ \A r \in day : r.symbol \in Nat
  BY FS_Subset DEF Charted, BarsOn, DailyBar
<1>2. IsFiniteSet(SymbolsIn(day)) /\ SymbolsIn(day) \subseteq Nat
  <2> DEFINE f == [r \in day |-> r.symbol]
  <2>1. f \in Surjection(day, SymbolsIn(day))
    <3> HIDE DEF day
    <3>1. QED  BY DEF Surjection, SymbolsIn
  <2>2. SymbolsIn(day) \subseteq Nat
    BY <1>1 DEF SymbolsIn
  <2> HIDE DEF day
  <2>3. QED  BY <1>1, <2>1, <2>2, FS_Surjection
<1>3. IsFiniteSet(Featured(rows, t)) /\ Featured(rows, t) \subseteq Nat
  <2>1. Featured(rows, t) \subseteq SymbolsIn(day)
    BY DEF Featured
  <2>2. QED  BY <1>2, <2>1, FS_Subset
<1>4. IsFiniteSet(all) /\ \A f \in all : f.symbol \in Nat
  <2> DEFINE f == [x \in all |-> x.symbol]
  <2>1. f \in Injection(all, Featured(rows, t))
    <3> HIDE DEF all
    <3>1. \A x \in all : x.symbol \in Featured(rows, t)
      BY FeaturesAre DEF all
    <3>2. \A x, y \in all : x.symbol = y.symbol => x = y
      BY FeaturesAre DEF all
    <3>3. QED  BY <3>1, <3>2 DEF Injection, IsInjective
  <2>2. IsFiniteSet(all)
    BY <1>3, <2>1, FS_Injection
  <2>3. QED  BY <1>3, <2>2, FeaturesAre
<1>5. ASSUME NEW feature, NEW f
      PROVE  RankOf(all, feature, f) \in Nat
  <2> HIDE DEF all
  <2>1. QED  BY <1>4, FS_Subset, FS_CardinalityType DEF RankOf
<1>6. \A f \in all : score(f) \in Int
  <2>1. ASSUME NEW f
        PROVE  /\ RankOf(all, "long", f) \in Nat /\ RankOf(all, "one", f) \in Nat
               /\ RankOf(all, "spread", f) \in Nat /\ RankOf(all, "ratio", f) \in Nat
    BY <1>5
  <2> HIDE DEF all
  <2>2. QED  BY <2>1
<1>7. Scored(all) = {row(f) : f \in all}
  BY Zenon DEF Scored
<1>8. \A f : row(f).symbol = f.symbol /\ row(f).score = score(f)
  OBVIOUS
<1>9. \A f, g \in all : f.symbol = g.symbol => f = g
  BY FeaturesAre
<1> HIDE DEF row, score, all
<1>10. IsFiniteSet(Scored(all))
  <2> DEFINE h == [f \in all |-> row(f)]
  <2>1. h \in Surjection(all, Scored(all))
    BY <1>7 DEF Surjection
  <2>2. QED  BY <1>4, <2>1, FS_Surjection
<1>11. QED  BY <1>4, <1>6, <1>7, <1>8, <1>9, <1>10 DEF all

LEMMA PortfolioIs ==
  ASSUME NEW rows, Charted(rows), NEW t
  PROVE  /\ IsFiniteSet(Portfolio(rows, t))
         /\ \A h \in Portfolio(rows, t) : h.date = t /\ h.worth \in Nat
         /\ Worth(Portfolio(rows, t)) <= Account
<1> DEFINE chosen == Selected(Scored(Features(rows, t)))
           held == {q \in BarsOn(rows, t) : q.symbol \in chosen}
           part(r) == [date |-> t, symbol |-> r.symbol, shares |-> Shares(r.open),
                       worth |-> Shares(r.open) * r.open,
                       gain |-> Shares(r.open) * (r.close - r.open)]
           book == Portfolio(rows, t)
<1>1. IsFiniteSet(chosen) /\ Cardinality(chosen) <= TopK
  BY ScoresAre, FewSelected
<1>2. book = {part(r) : r \in held}
  BY Zenon DEF Portfolio
<1>3. \A r \in held : part(r).date = t /\ part(r).worth = Shares(r.open) * r.open
  OBVIOUS
<1>4. IsFiniteSet(held) /\ \A r \in held : r.open \in Nat \ {0}
  <2>1. held \subseteq rows
    BY DEF BarsOn
  <2>2. \A r \in rows : r.open \in Nat \ {0}
    BY DEF Charted, DailyBar
  <2> HIDE DEF held
  <2>3. QED  BY <2>1, <2>2, FS_Subset DEF Charted
<1>5. Cardinality(held) <= Cardinality(chosen)
  <2> DEFINE f == [r \in held |-> r.symbol]
  <2>1. \A r, q \in held : r.symbol = q.symbol => r = q
    BY DEF Charted, BarsOn, Key
  <2>2. \A r \in held : r.symbol \in chosen
    OBVIOUS
  <2> HIDE DEF held, chosen
  <2>3. f \in Injection(held, chosen)
    BY <2>1, <2>2 DEF Injection, IsInjective
  <2>4. QED  BY <1>1, <2>3, FS_Injection
<1> HIDE DEF part, held, chosen
<1>6. IsFiniteSet(book) /\ Cardinality(book) <= Cardinality(held)
  <2> DEFINE f == [r \in held |-> part(r)]
  <2>1. f \in Surjection(held, book)
    BY <1>2 DEF Surjection
  <2> HIDE DEF f, book
  <2>2. QED  BY <1>4, <2>1, FS_Surjection
<1>7. \A h \in book : h.date = t /\ h.worth \in Nat /\ TopK * h.worth <= Account
  BY <1>2, <1>3, <1>4, WorthFits
<1>8. Cardinality(book) <= TopK
  <2> HIDE DEF book
  <2>1. QED  BY <1>1, <1>4, <1>5, <1>6, FS_CardinalityType, ResearchAssumption
<1> HIDE DEF book
<1>9. Worth(book) <= Account
  <2> DEFINE f == [h \in book |-> h.worth]
  <2>1. \A h \in book : f[h] \in Int /\ TopK * f[h] <= Account
    BY <1>7
  <2>2. Worth(book) = Sigma(f, book)
    BY DEF Worth, Sigma
  <2>3. TopK \in Nat \ {0} /\ Account \in Nat
    BY ResearchAssumption
  <2> HIDE DEF f
  <2>4. QED  BY <1>6, <1>8, <2>1, <2>2, <2>3, SigmaShares
<1>10. QED  BY <1>6, <1>7, <1>9 DEF book

LEMMA BalancedHolds ==
  ASSUME NEW rows, Charted(rows)
  PROVE  Balanced(Portfolios(rows), DayRows(Portfolios(rows)))
<1> DEFINE book == Portfolios(rows)
<1>1. TestDays(rows) \subseteq Nat /\ IsFiniteSet(TestDays(rows))
  <2> DEFINE dates == {r.date : r \in rows}
             f == [r \in rows |-> r.date]
  <2>1. f \in Surjection(rows, dates)
    BY DEF Surjection
  <2>2. IsFiniteSet(dates)
    BY <2>1, FS_Surjection DEF Charted
  <2>3. dates \subseteq Nat
    BY DEF Charted, DailyBar
  <2>4. TestDays(rows) \subseteq dates
    BY DEF TestDays
  <2>5. QED  BY <2>2, <2>3, <2>4, FS_Subset
<1>2. \A h : h \in book <=> \E t \in TestDays(rows) : h \in Portfolio(rows, t)
  BY DEF Portfolios
<1>3. \A t \in TestDays(rows) : \A h \in Portfolio(rows, t) : h.date = t
  BY PortfolioIs
<1> HIDE DEF book
<1>4. HeldDays(book) \subseteq TestDays(rows)
  BY <1>2, <1>3 DEF HeldDays
<1>5. ASSUME NEW t \in HeldDays(book)
      PROVE  Held(book, t) = Portfolio(rows, t)
  <2>1. t \in TestDays(rows)
    BY <1>4, <1>5
  <2>2. \A h : h \in Held(book, t) <=> h \in book /\ h.date = t
    BY DEF Held
  <2>3. QED  BY <1>2, <1>3, <2>1, <2>2
<1> SUFFICES ASSUME NEW t \in HeldDays(book),
                    NEW day, day = DayRow(book, t)
    PROVE  LET earlier == {h \in book : h.date < day.date}
               latest == {h \in earlier : \A x \in earlier : x.date <= h.date}
           IN /\ Worth(Held(book, day.date)) <= Account
              /\ Worth(Held(book, day.date)) = Worth(latest) + day.buy - day.sell
  BY DEF Balanced, DayRows, book
<1> DEFINE days == {x \in HeldDays(book) : x < t}
           earlier == {h \in book : h.date < t}
           latest == {h \in earlier : \A x \in earlier : x.date <= h.date}
<1>6. /\ day.date = t
      /\ day.buy = Bought(Before(book, t), Held(book, t))
      /\ day.sell = Bought(Held(book, t), Before(book, t))
  BY DEF DayRow
<1>7. \A x \in days : x \in Nat /\ x < t /\ x \in HeldDays(book)
  BY <1>1, <1>4
<1>8. IsFiniteSet(days)
  <2>1. days \subseteq TestDays(rows)
    BY <1>4
  <2>2. QED  BY <1>1, <2>1, FS_Subset
<1>9. /\ latest = Before(book, t)
      /\ Before(book, t) = {} \/ \E x \in HeldDays(book) : Before(book, t) = Portfolio(rows, x)
  <2>1. \A h \in book : h.date \in HeldDays(book) /\ h.date \in Nat
    BY <1>1, <1>4 DEF HeldDays
  <2>2. \A h \in earlier : h \in book /\ h.date \in days
    BY <2>1
  <2>3. CASE days = {}
    <3>1. earlier = {}
      BY <2>2, <2>3
    <3>2. QED  BY <2>3, <3>1 DEF Before
  <2>4. CASE days # {}
    <3> DEFINE last == Max(days)
    <3>1. last \in days /\ \A x \in days : x <= last
      <4> HIDE DEF days
      <4>1. QED  BY <1>7, <1>8, <2>4, LastIs
    <3>2. Before(book, t) = Held(book, last)
      BY <2>4 DEF Before
    <3> HIDE DEF last
    <3>3. PICK z \in book : z.date = last
      BY <1>7, <3>1 DEF HeldDays
    <3>4. z \in earlier /\ last \in Nat
      BY <1>7, <3>1, <3>3
    <3>5. ASSUME NEW h
          PROVE  h \in latest <=> h \in Held(book, last)
      <4>1. ASSUME h \in latest PROVE h \in Held(book, last)
        <5>1. h \in book /\ h.date \in Nat /\ h.date <= last /\ last <= h.date
          BY <2>1, <2>2, <3>1, <3>3, <3>4, <4>1
        <5>2. QED  BY <5>1, <3>4 DEF Held
      <4>2. ASSUME h \in Held(book, last) PROVE h \in latest
        <5>1. h \in book /\ h.date = last
          BY <4>2 DEF Held
        <5>2. h \in earlier
          BY <5>1, <3>1, <1>7
        <5>3. \A x \in earlier : x.date <= h.date
          <6> HIDE DEF days, earlier
          <6>1. QED  BY <2>2, <3>1, <5>1
        <5>4. QED  BY <5>2, <5>3
      <4>3. QED  BY <4>1, <4>2
    <3>6. latest = Held(book, last)
      <4> HIDE DEF latest
      <4>1. \A h \in latest : h \in Held(book, last)
        BY <3>5
      <4>2. \A h \in Held(book, last) : h \in latest
        BY <3>5
      <4>3. QED  BY <4>1, <4>2
    <3>7. last \in HeldDays(book)
      BY <1>7, <3>1
    <3>8. QED  BY <1>5, <3>2, <3>6, <3>7
  <2>5. QED  BY <2>3, <2>4
<1>10. /\ IsFiniteSet(Held(book, t)) /\ IsFiniteSet(Before(book, t))
       /\ \A h \in Before(book, t) \cup Held(book, t) : h.worth \in Int
       /\ Worth(Held(book, t)) <= Account
  BY <1>5, <1>9, PortfolioIs, FS_EmptySet
<1>11. Worth(Held(book, t)) = Worth(Before(book, t)) + day.buy - day.sell
  BY <1>6, <1>10, TradesLead
<1>12. QED  BY <1>6, <1>9, <1>10, <1>11
=============================================================================
