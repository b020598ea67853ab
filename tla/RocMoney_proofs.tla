--------------------------- MODULE RocMoney_proofs ---------------------------
(***************************************************************************)
(* The arithmetic of RocMoney for every amount, every split and prize      *)
(* lists of every length.  Sums are folds; what they are is proved by      *)
(* well-founded induction on the subsets of a finite set.                  *)
(***************************************************************************)
EXTENDS RocMoney, FiniteSetTheorems, TLAPS

-----------------------------------------------------------------------------
(* Sums over finite sets *)

\* Induction over finite sets: a set is good when every set is whose proper
\* subsets are.
LEMMA SubsetInduction ==
  ASSUME NEW S, IsFiniteSet(S), NEW Good,
         \A T \in SUBSET S : (\A U \in SUBSET T : U # T => U \in Good) => T \in Good
  PROVE  S \in Good
<1> DEFINE Subs == SUBSET S
           Bad == {T \in Subs : T \notin Good}
<1>1. IsWellFoundedOn(StrictSubsetOrdering(S), Subs)
  BY FS_FiniteSubsetsOfFinite, FS_StrictSubsetOrderingWellFounded, Zenon
<1>2. Bad \subseteq Subs
  OBVIOUS
<1>3. CASE Bad # {}
  <2> HIDE DEF Subs, Bad
  <2>1. PICK T \in Bad : \A U \in Bad : <<U, T>> \notin StrictSubsetOrdering(S)
    BY <1>1, <1>2, <1>3, WFMin, SMT
  <2> USE DEF Subs, Bad
  <2>2. \A U \in SUBSET T : U # T => U \in Good
    BY <2>1 DEF StrictSubsetOrdering
  <2> QED  BY <2>1, <2>2
<1> QED  BY <1>3

FirstOf(s) == CHOOSE x \in s : TRUE

IsSumFunction(f, S, g) ==
  g = [s \in SUBSET S |-> IF s = {} THEN 0 ELSE f[FirstOf(s)] + g[s \ {FirstOf(s)}]]

\* What MapThenSumSet evaluates: a function on the subsets that reads itself on
\* smaller ones.
LEMMA SumIsFunction == ASSUME NEW f, NEW S PROVE SumOver(f, S) = (CHOOSE g : IsSumFunction(f, S, g))[S]
BY DEF SumOver, MapThenSumSet, MapThenFoldSet, IsSumFunction, FirstOf

SumAsRead(f, s) == SumOver(f, s) = IF s = {} THEN 0 ELSE f[FirstOf(s)] + SumOver(f, s \ {FirstOf(s)})

\* The member a fold takes first is a member.
LEMMA FirstOfIn == ASSUME NEW s, s # {} PROVE FirstOf(s) \in s
BY DEF FirstOf

\* There is at most one such function.
LEMMA SumFunctionUnique ==
  ASSUME NEW f, NEW S, IsFiniteSet(S), NEW g, NEW h, IsSumFunction(f, S, g), IsSumFunction(f, S, h)
  PROVE  g[S] = h[S]
<1> DEFINE Good == {T \in SUBSET S : g[T] = h[T]}
<1>1. \A T \in SUBSET S : (\A U \in SUBSET T : U # T => U \in Good) => T \in Good
  <2> SUFFICES ASSUME NEW T \in SUBSET S, \A U \in SUBSET T : U # T => U \in Good
               PROVE  g[T] = h[T]
    OBVIOUS
  <2>1. /\ g[T] = IF T = {} THEN 0 ELSE f[FirstOf(T)] + g[T \ {FirstOf(T)}]
        /\ h[T] = IF T = {} THEN 0 ELSE f[FirstOf(T)] + h[T \ {FirstOf(T)}]
    BY DEF IsSumFunction
  <2>2. T # {} => g[T \ {FirstOf(T)}] = h[T \ {FirstOf(T)}]
    BY FirstOfIn
  <2> QED  BY <2>1, <2>2
<1> HIDE DEF Good
<1>2. S \in Good
  BY <1>1, SubsetInduction
<1> QED  BY <1>2 DEF Good

\* There is one, so a sum is what its recursive definition says.
LEMMA SumStep ==
  ASSUME NEW f, NEW S, IsFiniteSet(S)
  PROVE  SumAsRead(f, S)
<1> DEFINE Good == {T \in SUBSET S : SumAsRead(f, T)}
<1>1. \A T \in SUBSET S : (\A U \in SUBSET T : U # T => U \in Good) => T \in Good
  <2> SUFFICES ASSUME NEW T \in SUBSET S, \A U \in SUBSET T : U # T => U \in Good
               PROVE  SumAsRead(f, T)
    OBVIOUS
  <2> DEFINE F == [s \in SUBSET T |-> IF s = {} THEN 0 ELSE f[FirstOf(s)] + SumOver(f, s \ {FirstOf(s)})]
  <2>1. \A s \in SUBSET T : s # T => F[s] = SumOver(f, s)
    BY DEF SumAsRead
  <2>2. \A s \in SUBSET T : s # {} => F[s \ {FirstOf(s)}] = SumOver(f, s \ {FirstOf(s)})
    BY <2>1, FirstOfIn
  <2>3. IsSumFunction(f, T, F)
    BY <2>2 DEF IsSumFunction
  <2> HIDE DEF F
  <2>4. IsSumFunction(f, T, CHOOSE g : IsSumFunction(f, T, g))
    BY <2>3
  <2>5. IsFiniteSet(T)
    BY FS_Subset
  <2>6. SumOver(f, T) = F[T]
    BY <2>3, <2>4, <2>5, SumFunctionUnique, SumIsFunction
  <2> QED  BY <2>6 DEF F, SumAsRead
<1> HIDE DEF Good
<1>2. S \in Good
  BY <1>1, SubsetInduction
<1> QED  BY <1>2 DEF Good

\* Integer parts have an integer sum.
LEMMA SumType ==
  ASSUME NEW D, NEW f \in [D -> Int], NEW S \in SUBSET D, IsFiniteSet(S)
  PROVE  SumOver(f, S) \in Int
<1> DEFINE Good == {T \in SUBSET S : SumOver(f, T) \in Int}
<1>1. \A T \in SUBSET S : (\A U \in SUBSET T : U # T => U \in Good) => T \in Good
  <2> SUFFICES ASSUME NEW T \in SUBSET S, \A U \in SUBSET T : U # T => U \in Good
               PROVE  SumOver(f, T) \in Int
    OBVIOUS
  <2>1. SumAsRead(f, T)
    BY SumStep, FS_Subset
  <2>2. CASE T = {}
    BY <2>1, <2>2 DEF SumAsRead
  <2>3. CASE T # {}
    <3>1. FirstOf(T) \in T /\ f[FirstOf(T)] \in Int
      BY <2>3, FirstOfIn
    <3>2. SumOver(f, T \ {FirstOf(T)}) \in Int
      BY <3>1
    <3> QED  BY <2>1, <2>3, <3>1, <3>2 DEF SumAsRead
  <2> QED  BY <2>2, <2>3
<1> HIDE DEF Good
<1>2. S \in Good
  BY <1>1, SubsetInduction
<1> QED  BY <1>2 DEF Good

\* Any member can be taken out first, whatever order the fold takes.
LEMMA SumOut ==
  ASSUME NEW D, NEW f \in [D -> Int], NEW S \in SUBSET D, IsFiniteSet(S), NEW x \in S
  PROVE  SumOver(f, S) = f[x] + SumOver(f, S \ {x})
<1> DEFINE Good == {T \in SUBSET S : \A y \in T : SumOver(f, T) = f[y] + SumOver(f, T \ {y})}
<1>1. \A T \in SUBSET S : (\A U \in SUBSET T : U # T => U \in Good) => T \in Good
  <2> SUFFICES ASSUME NEW T \in SUBSET S, \A U \in SUBSET T : U # T => U \in Good, NEW y \in T
               PROVE  SumOver(f, T) = f[y] + SumOver(f, T \ {y})
    OBVIOUS
  <2> DEFINE z == FirstOf(T)
  <2>1. z \in T /\ f[z] \in Int /\ f[y] \in Int
    BY FirstOfIn
  <2>2. SumOver(f, T) = f[z] + SumOver(f, T \ {z})
    BY SumStep, FS_Subset DEF SumAsRead
  <2>3. CASE y = z
    BY <2>2, <2>3
  <2>4. CASE y # z
    <3>1. SumOver(f, T \ {z}) = f[y] + SumOver(f, (T \ {z}) \ {y})
      <4>1. T \ {z} \in Good /\ y \in T \ {z}
        BY <2>1, <2>4
      <4> QED  BY <4>1
    <3>2. SumOver(f, T \ {y}) = f[z] + SumOver(f, (T \ {y}) \ {z})
      <4>1. T \ {y} \in Good /\ z \in T \ {y}
        BY <2>1, <2>4
      <4> QED  BY <4>1
    <3>3. (T \ {z}) \ {y} = (T \ {y}) \ {z}
      OBVIOUS
    <3>4. SumOver(f, (T \ {y}) \ {z}) \in Int
      <4>1. IsFiniteSet((T \ {y}) \ {z}) /\ (T \ {y}) \ {z} \in SUBSET D
        BY FS_Subset
      <4> QED  BY <4>1, SumType
    <3> DEFINE rest == SumOver(f, (T \ {y}) \ {z})
    <3>5. /\ SumOver(f, T \ {z}) = f[y] + rest
          /\ SumOver(f, T \ {y}) = f[z] + rest
          /\ rest \in Int
      BY <3>1, <3>2, <3>3, <3>4
    <3>6. SumOver(f, T) = f[z] + SumOver(f, T \ {z})
      BY <2>2
    <3> HIDE DEF rest, z
    <3> QED  BY <2>1, <3>5, <3>6
  <2> QED  BY <2>3, <2>4
<1> HIDE DEF Good
<1>2. S \in Good
  BY <1>1, SubsetInduction
<1> QED  BY <1>2 DEF Good

\* Nothing adds up to nothing.
LEMMA SumEmpty == ASSUME NEW f PROVE SumOver(f, {}) = 0
BY SumStep, FS_EmptySet DEF SumAsRead

\* A sum depends on the members' parts only.
LEMMA SumSame ==
  ASSUME NEW f, NEW g, NEW S, IsFiniteSet(S), \A x \in S : f[x] = g[x]
  PROVE  SumOver(f, S) = SumOver(g, S)
<1> DEFINE Good == {T \in SUBSET S : SumOver(f, T) = SumOver(g, T)}
<1>1. \A T \in SUBSET S : (\A U \in SUBSET T : U # T => U \in Good) => T \in Good
  <2> SUFFICES ASSUME NEW T \in SUBSET S, \A U \in SUBSET T : U # T => U \in Good
               PROVE  SumOver(f, T) = SumOver(g, T)
    OBVIOUS
  <2>1. SumAsRead(f, T) /\ SumAsRead(g, T)
    BY SumStep, FS_Subset
  <2>2. T # {} => /\ f[FirstOf(T)] = g[FirstOf(T)]
                  /\ SumOver(f, T \ {FirstOf(T)}) = SumOver(g, T \ {FirstOf(T)})
    BY FirstOfIn
  <2> QED  BY <2>1, <2>2 DEF SumAsRead
<1> HIDE DEF Good
<1>2. S \in Good
  BY <1>1, SubsetInduction
<1> QED  BY <1>2 DEF Good

\* A larger part of every member makes a larger sum.
LEMMA SumMonotone ==
  ASSUME NEW D, NEW f \in [D -> Int], NEW g \in [D -> Int], NEW S \in SUBSET D, IsFiniteSet(S),
         \A x \in S : f[x] <= g[x]
  PROVE  SumOver(f, S) <= SumOver(g, S)
<1> DEFINE Good == {T \in SUBSET S : SumOver(f, T) <= SumOver(g, T)}
<1>1. \A T \in SUBSET S : (\A U \in SUBSET T : U # T => U \in Good) => T \in Good
  <2> SUFFICES ASSUME NEW T \in SUBSET S, \A U \in SUBSET T : U # T => U \in Good
               PROVE  SumOver(f, T) <= SumOver(g, T)
    OBVIOUS
  <2>1. SumAsRead(f, T) /\ SumAsRead(g, T)
    BY SumStep, FS_Subset
  <2>2. CASE T = {}
    BY <2>1, <2>2 DEF SumAsRead
  <2>3. CASE T # {}
    <3> DEFINE rest == T \ {FirstOf(T)}
    <3>1. FirstOf(T) \in T /\ rest \in SUBSET D /\ IsFiniteSet(rest)
      BY <2>3, FirstOfIn, FS_Subset
    <3>2. SumOver(f, rest) \in Int /\ SumOver(g, rest) \in Int
      BY <3>1, SumType
    <3>3. SumOver(f, rest) <= SumOver(g, rest)
      BY <3>1
    <3>4. f[FirstOf(T)] \in Int /\ g[FirstOf(T)] \in Int /\ f[FirstOf(T)] <= g[FirstOf(T)]
      BY <3>1
    <3>5. /\ SumOver(f, T) = f[FirstOf(T)] + SumOver(f, rest)
          /\ SumOver(g, T) = g[FirstOf(T)] + SumOver(g, rest)
      BY <2>1, <2>3 DEF SumAsRead
    <3> HIDE DEF rest
    <3> QED  BY <3>2, <3>3, <3>4, <3>5
  <2> QED  BY <2>2, <2>3
<1> HIDE DEF Good
<1>2. S \in Good
  BY <1>1, SubsetInduction
<1> QED  BY <1>2 DEF Good

\* Members with nothing do not count.
LEMMA SumZero ==
  ASSUME NEW f, NEW S, IsFiniteSet(S), \A x \in S : f[x] = 0
  PROVE  SumOver(f, S) = 0
<1> DEFINE Good == {T \in SUBSET S : SumOver(f, T) = 0}
<1>1. \A T \in SUBSET S : (\A U \in SUBSET T : U # T => U \in Good) => T \in Good
  <2> SUFFICES ASSUME NEW T \in SUBSET S, \A U \in SUBSET T : U # T => U \in Good
               PROVE  SumOver(f, T) = 0
    OBVIOUS
  <2>1. SumAsRead(f, T)
    BY SumStep, FS_Subset
  <2>2. T # {} => f[FirstOf(T)] = 0 /\ SumOver(f, T \ {FirstOf(T)}) = 0
    BY FirstOfIn
  <2> QED  BY <2>1, <2>2 DEF SumAsRead
<1> HIDE DEF Good
<1>2. S \in Good
  BY <1>1, SubsetInduction
<1> QED  BY <1>2 DEF Good

\* Natural parts have a natural sum.
LEMMA SumNat ==
  ASSUME NEW D, NEW f \in [D -> Nat], NEW S \in SUBSET D, IsFiniteSet(S)
  PROVE  SumOver(f, S) \in Nat
<1> DEFINE zero == [x \in D |-> 0]
<1>1. zero \in [D -> Int] /\ f \in [D -> Int] /\ \A x \in S : zero[x] = 0 /\ zero[x] <= f[x]
  OBVIOUS
<1> HIDE DEF zero
<1>2. SumOver(zero, S) = 0 /\ SumOver(zero, S) <= SumOver(f, S) /\ SumOver(f, S) \in Int
  BY <1>1, SumZero, SumMonotone, SumType
<1> QED  BY <1>2

\* Changing one member changes the sum by as much.
LEMMA SumUpdate ==
  ASSUME NEW D, NEW f \in [D -> Int], NEW g \in [D -> Int], NEW S \in SUBSET D, IsFiniteSet(S), NEW x \in S,
         \A y \in S \ {x} : g[y] = f[y]
  PROVE  SumOver(g, S) = SumOver(f, S) - f[x] + g[x]
<1>1. IsFiniteSet(S \ {x}) /\ S \ {x} \in SUBSET D
  BY FS_Subset
<1>2. SumOver(g, S \ {x}) = SumOver(f, S \ {x}) /\ SumOver(f, S \ {x}) \in Int
  BY <1>1, SumSame, SumType
<1>3. SumOver(g, S) = g[x] + SumOver(g, S \ {x}) /\ SumOver(f, S) = f[x] + SumOver(f, S \ {x})
  BY SumOut
<1>4. f[x] \in Int /\ g[x] \in Int
  OBVIOUS
<1> QED  BY <1>2, <1>3, <1>4

\* One more amount at the end of a list.
LEMMA TotalGrows ==
  ASSUME NEW N \in Nat, NEW a \in [1 .. N -> Int], NEW n \in 1 .. N
  PROVE  /\ Total(a, 0) = 0
         /\ Total(a, n) = Total(a, n - 1) + a[n]
         /\ Total(a, n) \in Int /\ Total(a, n - 1) \in Int
<1>1. IsFiniteSet(1 .. n) /\ IsFiniteSet(1 .. (n - 1))
  BY FS_Interval
<1>2. 1 .. n \in SUBSET (1 .. N) /\ 1 .. (n - 1) \in SUBSET (1 .. N) /\ n \in 1 .. n
  OBVIOUS
<1>3. (1 .. n) \ {n} = 1 .. (n - 1) /\ 1 .. 0 = {}
  OBVIOUS
<1>4. SumOver(a, 1 .. n) = a[n] + SumOver(a, 1 .. (n - 1))
  <2>1. SumOver(a, 1 .. n) = a[n] + SumOver(a, (1 .. n) \ {n})
    BY <1>1, <1>2, SumOut
  <2> QED  BY <1>3, <2>1
<1>5. SumOver(a, 1 .. n) \in Int /\ SumOver(a, 1 .. (n - 1)) \in Int /\ a[n] \in Int
  BY <1>1, <1>2, SumType
<1>6. SumOver(a, 1 .. 0) = 0
  BY <1>3, SumEmpty
<1> QED  BY <1>4, <1>5, <1>6 DEF Total

-----------------------------------------------------------------------------
(* Pay-ins *)

\* The split the code works with always covers the whole amount.
LEMMA NormalizedSplit ==
  ASSUME NEW s \in [Accounts -> Nat]
  PROVE  LET b == NormalizeSplit(s)
         IN  /\ b.pf \in Nat /\ b.op \in Nat /\ b.pl \in Nat
             /\ b.pf + b.op + b.pl = Bps
BY DEF NormalizeSplit, DefaultSplit, Accounts, Bps

\* Flooring a share takes at most the share.
LEMMA FlooredShare ==
  ASSUME NEW A \in Nat, NEW b \in Nat
  PROVE  /\ (A * b) \div Bps \in Nat
         /\ Bps * ((A * b) \div Bps) <= A * b
<1>1. A * b \in Nat
  OBVIOUS
<1> DEFINE x == A * b
<1>2. x \in Nat
  BY <1>1
<1> HIDE DEF x
<1>3. x \div 10000 \in Nat /\ 10000 * (x \div 10000) <= x
  BY <1>2
<1> QED  BY <1>3 DEF x, Bps

\* Two shares that together do not exceed the whole leave a non-negative rest.
LEMMA SharesFit ==
  ASSUME NEW A \in Nat, NEW b \in Nat, NEW c \in Nat, b + c <= Bps
  PROVE  (A * b) \div Bps + (A * c) \div Bps <= A
<1> DEFINE p == (A * b) \div Bps
           q == (A * c) \div Bps
<1>1. p \in Nat /\ q \in Nat /\ Bps * p <= A * b /\ Bps * q <= A * c
  BY FlooredShare
<1>2. A * b + A * c <= A * Bps
  <2> DEFINE d == Bps - (b + c)
  <2>1. d \in Nat /\ Bps = b + c + d
    BY DEF Bps
  <2>2. A * d \in Nat
    BY <2>1
  <2>3. A * (b + c + d) = A * b + A * c + A * d
    BY <2>1
  <2> QED  BY <2>1, <2>2, <2>3
<1> HIDE DEF p, q
<1>3. 10000 * (p + q) <= A * 10000
  BY <1>1, <1>2 DEF Bps
<1>4. p + q <= A
  BY <1>1, <1>3
<1> QED  BY <1>4 DEF p, q

\* The lines of a pay-in add up to it and none is negative: the Players Fund
\* takes what flooring leaves (splitAmountUsd).
THEOREM SplitIsWhole ==
  ASSUME NEW A \in Nat, NEW s \in [Accounts -> Nat]
  PROVE  LET parts == SplitAmount(A, s)
         IN  /\ \A a \in Accounts : parts[a] \in Nat
             /\ parts.pf + parts.op + parts.pl = A
<1> DEFINE b == NormalizeSplit(s)
           op == (A * b.op) \div Bps
           pl == (A * b.pl) \div Bps
<1>1. b.pf \in Nat /\ b.op \in Nat /\ b.pl \in Nat /\ b.op + b.pl <= Bps
  BY NormalizedSplit DEF Bps
<1> HIDE DEF b
<1>2. op \in Nat /\ pl \in Nat
  BY <1>1, FlooredShare
<1>3. op + pl <= A
  BY <1>1, SharesFit
<1>4. SplitAmount(A, s) = [pf |-> A - op - pl, op |-> op, pl |-> pl]
  BY DEF SplitAmount, b
<1> HIDE DEF op, pl
<1> QED  BY <1>2, <1>3, <1>4 DEF Accounts

\* The three prizes of a session are its fund, to the cent, and none is negative
\* (computePlaceAmounts on the structure createSession freezes).
THEOREM PrizesAreTheFund ==
  ASSUME NEW F \in Nat
  PROVE  /\ \A k \in 1 .. 3 : SessionPrizes(F)[k] \in Nat
         /\ SessionPrizes(F)[1] + SessionPrizes(F)[2] + SessionPrizes(F)[3] = F
<1> DEFINE first == (F * 5000) \div Bps
           second == (F * 3000) \div Bps
<1>1. first \in Nat /\ second \in Nat
  BY FlooredShare
<1>2. first + second <= F
  BY SharesFit DEF Bps
<1>3. SessionPrizes(F) = <<first, second, F - (first + second)>>
  <2>1. NonNegative(F) = F
    BY DEF NonNegative
  <2> HIDE DEF first, second
  <2>2. NonNegative(F - (first + second)) = F - (first + second)
    BY <1>1, <1>2 DEF NonNegative
  <2> QED  BY <2>1, <2>2 DEF SessionPrizes, first, second
<1> HIDE DEF first, second
<1> QED  BY <1>1, <1>2, <1>3

\* Shares of one amount add up to no more than the amount's share of their sum.
LEMMA SumOfShares ==
  ASSUME NEW D, NEW f \in [D -> Nat], NEW g \in [D -> Nat], NEW F \in Nat, NEW W \in Nat,
         NEW S \in SUBSET D, IsFiniteSet(S),
         \A x \in S : W * f[x] <= F * g[x]
  PROVE  W * SumOver(f, S) <= F * SumOver(g, S)
<1> DEFINE Good == {T \in SUBSET S : W * SumOver(f, T) <= F * SumOver(g, T)}
<1>1. \A T \in SUBSET S : (\A U \in SUBSET T : U # T => U \in Good) => T \in Good
  <2> SUFFICES ASSUME NEW T \in SUBSET S, \A U \in SUBSET T : U # T => U \in Good
               PROVE  W * SumOver(f, T) <= F * SumOver(g, T)
    OBVIOUS
  <2>1. SumAsRead(f, T) /\ SumAsRead(g, T)
    BY SumStep, FS_Subset
  <2>2. CASE T = {}
    BY <2>1, <2>2 DEF SumAsRead
  <2>3. CASE T # {}
    <3> DEFINE x == FirstOf(T)
               rest == T \ {x}
               p == SumOver(f, rest)
               q == SumOver(g, rest)
    <3>1. x \in T /\ rest \in SUBSET D /\ IsFiniteSet(rest)
      BY <2>3, FirstOfIn, FS_Subset
    <3>2. p \in Nat /\ q \in Nat
      BY <3>1, SumNat
    <3>3. W * p <= F * q
      BY <3>1
    <3>4. f[x] \in Nat /\ g[x] \in Nat /\ W * f[x] <= F * g[x]
      BY <3>1
    <3>5. SumOver(f, T) = f[x] + p /\ SumOver(g, T) = g[x] + q
      BY <2>1, <2>3 DEF SumAsRead
    <3> HIDE DEF p, q, x
    <3>6. W * (f[x] + p) = W * f[x] + W * p /\ F * (g[x] + q) = F * g[x] + F * q
      BY <3>2, <3>4
    <3>7. W * f[x] \in Nat /\ W * p \in Nat /\ F * g[x] \in Nat /\ F * q \in Nat
      BY <3>2, <3>4
    <3> QED  BY <3>3, <3>4, <3>5, <3>6, <3>7
  <2> QED  BY <2>2, <2>3
<1> HIDE DEF Good
<1>2. S \in Good
  BY <1>1, SubsetInduction
<1> QED  BY <1>2 DEF Good

\* The floored shares a fund is cut into.
Cut(F, bps, n) == [i \in 1 .. n |-> (F * bps[i]) \div Bps]

\* Of a list whose shares do not exceed the whole, the floored prizes up to any
\* place fit into the fund.
LEMMA FlooredPrizesFit ==
  ASSUME NEW n \in Nat, NEW m \in 0 .. n, NEW bps \in [1 .. n -> Nat], Total(bps, m) <= Bps, NEW F \in Nat
  PROVE  /\ Cut(F, bps, n) \in [1 .. n -> Nat]
         /\ Total(Cut(F, bps, n), m) \in Nat
         /\ Total(Cut(F, bps, n), m) <= F
<1> DEFINE cut == Cut(F, bps, n)
<1>1. cut \in [1 .. n -> Nat]
  BY FlooredShare DEF Cut
<1>2. IsFiniteSet(1 .. m) /\ 1 .. m \in SUBSET (1 .. n) /\ Bps \in Nat
  BY FS_Interval DEF Bps
<1>3. \A i \in 1 .. m : Bps * cut[i] <= F * bps[i]
  BY FlooredShare DEF Cut
<1> HIDE DEF cut
<1>4. Bps * Total(cut, m) <= F * Total(bps, m)
  BY <1>1, <1>2, <1>3, SumOfShares DEF Total
<1>5. Total(cut, m) \in Nat /\ Total(bps, m) \in Nat
  BY <1>1, <1>2, SumNat DEF Total
<1>6. F * Total(bps, m) <= F * Bps
  <2> DEFINE t == Total(bps, m)
             d == Bps - t
  <2>1. t \in Nat /\ d \in Nat /\ Bps = t + d
    BY <1>5 DEF Bps
  <2> HIDE DEF t, d
  <2>2. F * (t + d) = F * t + F * d /\ F * d \in Nat
    BY <2>1
  <2>3. F * t <= F * Bps
    BY <2>1, <2>2
  <2> QED  BY <2>3 DEF t
<1>7. Total(cut, m) <= F
  <2> DEFINE c == Total(cut, m)
  <2>1. c \in Nat /\ 10000 * c <= F * Total(bps, m) /\ F * Total(bps, m) <= F * 10000
    BY <1>4, <1>5, <1>6 DEF Bps
  <2>2. F * Total(bps, m) \in Nat
    BY <1>5
  <2> HIDE DEF c
  <2>3. 10000 * c <= 10000 * F
    BY <2>1, <2>2
  <2> QED  BY <2>1, <2>3 DEF c
<1> QED  BY <1>1, <1>5, <1>7 DEF cut

\* Prizes by percentage, for any number of places and any shares that do not
\* exceed the whole before the last place, are the fund to the cent, and none is
\* negative (PERCENT_OF_FUND of computePlaceAmounts).
THEOREM PercentagesAreTheFund ==
  ASSUME NEW n \in Nat \ {0}, NEW bps \in [1 .. n -> Nat], Len(bps) = n, Total(bps, n - 1) <= Bps,
         NEW fund \in Int
  PROVE  LET prizes == PercentOfFund(fund, bps)
         IN  /\ prizes \in [1 .. n -> Nat]
             /\ Total(prizes, n) = NonNegative(fund)
<1> DEFINE F == NonNegative(fund)
           cut == Cut(F, bps, n)
           rest == F - Total(cut, n - 1)
           prizes == [cut EXCEPT ![n] = rest]
<1>1. F \in Nat
  BY DEF NonNegative
<1> HIDE DEF F
<1>2. cut \in [1 .. n -> Nat] /\ Total(cut, n - 1) \in Nat /\ Total(cut, n - 1) <= F
  <2>1. n \in Nat /\ n - 1 \in 0 .. n
    OBVIOUS
  <2> QED  BY <1>1, <2>1, FlooredPrizesFit
<1>3. rest \in Nat /\ NonNegative(rest) = rest
  BY <1>1, <1>2 DEF NonNegative
<1>4. PercentOfFund(fund, bps) = prizes
  BY <1>3 DEF PercentOfFund, Cut, F
<1> HIDE DEF cut, rest
<1>5. prizes \in [1 .. n -> Nat] /\ prizes[n] = rest
  BY <1>2, <1>3
<1>6. Total(prizes, n - 1) = Total(cut, n - 1)
  <2>1. IsFiniteSet(1 .. (n - 1)) /\ \A i \in 1 .. (n - 1) : prizes[i] = cut[i]
    BY <1>2, FS_Interval
  <2> HIDE DEF prizes
  <2> QED  BY <2>1, SumSame DEF Total
<1> HIDE DEF prizes
<1>7. Total(prizes, n) = Total(prizes, n - 1) + prizes[n]
  <2>1. n \in Nat /\ n \in 1 .. n /\ prizes \in [1 .. n -> Int]
    BY <1>5
  <2> QED  BY <2>1, TotalGrows
<1>8. Total(prizes, n) = F
  BY <1>1, <1>2, <1>5, <1>6, <1>7 DEF rest
<1> QED  BY <1>4, <1>5, <1>8 DEF F

\* Fixed prizes of any number of places never exceed the fund, nor what was
\* announced: a shortfall under HOLD pays nobody, under SCALE everybody in
\* proportion (FIXED_CENTS of computePlaceAmounts).
THEOREM FixedPrizesFit ==
  ASSUME NEW n \in Nat \ {0}, NEW cents \in [1 .. n -> Nat], Len(cents) = n,
         NEW fund \in Int, NEW policy \in {"SCALE", "HOLD"}
  PROVE  LET prizes == FixedCents(fund, cents, policy)
         IN  /\ prizes \in [1 .. n -> Nat]
             /\ \A i \in 1 .. n : prizes[i] <= cents[i]
             /\ Total(prizes, n) <= NonNegative(fund)
<1> DEFINE F == NonNegative(fund)
           sum == Total(cents, n)
           prizes == FixedCents(fund, cents, policy)
<1>1. F \in Nat
  BY DEF NonNegative
<1>2. IsFiniteSet(1 .. n) /\ sum \in Nat
  <2>1. IsFiniteSet(1 .. n) /\ 1 .. n \in SUBSET (1 .. n)
    BY FS_Interval
  <2> QED  BY <2>1, SumNat DEF Total
<1>3. prizes = IF sum <= F THEN cents
               ELSE [i \in 1 .. n |-> IF policy = "HOLD" THEN 0 ELSE (cents[i] * F) \div sum]
  BY DEF FixedCents
<1> HIDE DEF F, sum, prizes
<1>4. CASE sum <= F
  BY <1>3, <1>4 DEF prizes, F, sum
<1>5. CASE ~(sum <= F) /\ policy = "HOLD"
  <2>1. prizes = [i \in 1 .. n |-> 0]
    BY <1>3, <1>5
  <2>2. Total(prizes, n) = 0
    BY <1>2, <2>1, SumZero DEF Total
  <2> QED  BY <1>1, <2>1, <2>2 DEF prizes, F
<1>6. CASE ~(sum <= F) /\ policy = "SCALE"
  <2>1. prizes = [i \in 1 .. n |-> (cents[i] * F) \div sum]
    BY <1>3, <1>6
  <2>2. sum > F /\ sum > 0
    BY <1>1, <1>2, <1>6
  <2>3. ASSUME NEW i \in 1 .. n
        PROVE  prizes[i] \in Nat /\ sum * prizes[i] <= F * cents[i] /\ prizes[i] <= cents[i]
    <3> DEFINE x == cents[i] * F
               q == x \div sum
    <3>1. x \in Nat /\ prizes[i] = q /\ cents[i] \in Nat
      BY <1>1, <2>1
    <3> HIDE DEF x
    <3>2. q \in Nat /\ sum * q <= x
      BY <1>2, <2>2, <3>1
    <3>3. x <= cents[i] * sum
      BY <1>1, <1>2, <2>2, <3>1 DEF x
    <3> HIDE DEF q
    <3>4. q <= cents[i]
      <4> DEFINE c == cents[i]
      <4>1. sum * q <= sum * c /\ c \in Nat
        BY <1>2, <3>1, <3>2, <3>3
      <4> HIDE DEF c
      <4>2. q <= c
        BY <1>2, <2>2, <3>2, <4>1
      <4> QED  BY <4>2 DEF c
    <3> QED  BY <1>1, <3>1, <3>2, <3>4 DEF x
  <2>4. prizes \in [1 .. n -> Nat]
    BY <2>1, <2>3
  <2>5. sum * Total(prizes, n) <= F * sum
    <3>1. 1 .. n \in SUBSET (1 .. n)
      OBVIOUS
    <3> QED  BY <1>1, <1>2, <2>3, <2>4, <3>1, SumOfShares DEF Total, sum
  <2>6. Total(prizes, n) \in Nat
    <3>1. 1 .. n \in SUBSET (1 .. n)
      OBVIOUS
    <3> QED  BY <1>2, <2>4, <3>1, SumNat DEF Total
  <2>7. Total(prizes, n) <= F
    <3> DEFINE t == Total(prizes, n)
    <3>1. t \in Nat /\ sum * t <= sum * F
      BY <1>1, <1>2, <2>5, <2>6
    <3> HIDE DEF t
    <3>2. t <= F
      BY <1>1, <1>2, <2>2, <3>1
    <3> QED  BY <3>2 DEF t
  <2> QED  BY <2>3, <2>4, <2>7 DEF prizes, F
<1> QED  BY <1>4, <1>5, <1>6

-----------------------------------------------------------------------------
(* What flooring leaves *)

\* Operator and platform get at most their share of a pay-in, the Players Fund at
\* least its own.
LEMMA SplitKeepsShares ==
  ASSUME NEW A \in Nat, NEW s \in [Accounts -> Nat]
  PROVE  /\ Bps * SplitAmount(A, s).op <= A * NormalizeSplit(s).op
         /\ Bps * SplitAmount(A, s).pl <= A * NormalizeSplit(s).pl
         /\ Bps * SplitAmount(A, s).pf >= A * NormalizeSplit(s).pf
<1> DEFINE b == NormalizeSplit(s)
           op == (A * b.op) \div Bps
           pl == (A * b.pl) \div Bps
<1>1. b.pf \in Nat /\ b.op \in Nat /\ b.pl \in Nat /\ b.pf + b.op + b.pl = Bps
  BY NormalizedSplit
<1>2. SplitAmount(A, s) = [pf |-> A - op - pl, op |-> op, pl |-> pl]
  BY DEF SplitAmount
<1> HIDE DEF b
<1>3. op \in Nat /\ pl \in Nat /\ Bps * op <= A * b.op /\ Bps * pl <= A * b.pl
  BY <1>1, FlooredShare
<1>4. A * Bps = A * b.pf + A * b.op + A * b.pl
  <2>1. A * (b.pf + b.op + b.pl) = A * b.pf + A * b.op + A * b.pl
    BY <1>1
  <2> QED  BY <1>1, <2>1
<1> HIDE DEF op, pl
<1>5. 10000 * (A - op - pl) >= A * b.pf
  <2> DEFINE x == A * b.pf
             y == A * b.op
             z == A * b.pl
  <2>1. x \in Nat /\ y \in Nat /\ z \in Nat /\ 10000 * A = x + y + z /\ 10000 * op <= y /\ 10000 * pl <= z
    BY <1>1, <1>3, <1>4 DEF Bps
  <2> HIDE DEF x, y, z
  <2>2. 10000 * (A - op - pl) >= x
    BY <1>3, <2>1
  <2> QED  BY <2>2 DEF x
<1> QED  BY <1>2, <1>3, <1>5 DEF Bps, b

\* Flooring loses less than one.
LEMMA FloorLosesLess ==
  ASSUME NEW x \in Nat, NEW m \in Nat, m > 0
  PROVE  x \div m \in Nat /\ x < m * (x \div m) + m
OBVIOUS

\* Parts that each lose less than one of W to flooring together lose less than
\* that for every part.
LEMMA SumOfFloors ==
  ASSUME NEW D, NEW f \in [D -> Nat], NEW g \in [D -> Nat], NEW F \in Nat, NEW W \in Nat,
         NEW S \in SUBSET D, IsFiniteSet(S),
         \A x \in S : F * g[x] <= W * f[x] + W - 1
  PROVE  F * SumOver(g, S) <= W * SumOver(f, S) + (W - 1) * Cardinality(S)
<1> DEFINE Good == {T \in SUBSET S : F * SumOver(g, T) <= W * SumOver(f, T) + (W - 1) * Cardinality(T)}
<1>1. \A T \in SUBSET S : (\A U \in SUBSET T : U # T => U \in Good) => T \in Good
  <2> SUFFICES ASSUME NEW T \in SUBSET S, \A U \in SUBSET T : U # T => U \in Good
               PROVE  F * SumOver(g, T) <= W * SumOver(f, T) + (W - 1) * Cardinality(T)
    OBVIOUS
  <2>1. SumAsRead(f, T) /\ SumAsRead(g, T) /\ IsFiniteSet(T)
    BY SumStep, FS_Subset
  <2>2. CASE T = {}
    BY <2>1, <2>2, FS_EmptySet DEF SumAsRead
  <2>3. CASE T # {}
    <3> DEFINE x == FirstOf(T)
               rest == T \ {x}
               p == SumOver(f, rest)
               q == SumOver(g, rest)
               c == Cardinality(rest)
    <3>1. x \in T /\ rest \in SUBSET D /\ IsFiniteSet(rest)
      BY <2>3, FirstOfIn, FS_Subset
    <3>2. p \in Nat /\ q \in Nat /\ c \in Nat
      BY <3>1, SumNat, FS_CardinalityType
    <3>3. F * q <= W * p + (W - 1) * c
      BY <3>1
    <3>4. f[x] \in Nat /\ g[x] \in Nat /\ F * g[x] <= W * f[x] + W - 1
      BY <3>1
    <3>5. SumOver(f, T) = f[x] + p /\ SumOver(g, T) = g[x] + q
      BY <2>1, <2>3 DEF SumAsRead
    <3>6. Cardinality(T) = c + 1
      <4>1. Cardinality(T) \in Nat
        BY <2>1, FS_CardinalityType
      <4>2. Cardinality(T \ {x}) = Cardinality(T) - 1
        <5> HIDE DEF x
        <5> QED  BY <2>1, <3>1, FS_RemoveElement
      <4> QED  BY <4>1, <4>2
    <3> HIDE DEF p, q, x, c
    <3>7. /\ W * (f[x] + p) = W * f[x] + W * p /\ F * (g[x] + q) = F * g[x] + F * q
          /\ (W - 1) * (c + 1) = (W - 1) * c + (W - 1)
      BY <3>2, <3>4
    <3>8. /\ W * f[x] \in Nat /\ W * p \in Nat /\ F * g[x] \in Nat /\ F * q \in Nat
          /\ (W - 1) * c \in Int
      BY <3>2, <3>4
    <3>9. F * (g[x] + q) <= W * (f[x] + p) + (W - 1) * (c + 1)
      BY <3>3, <3>4, <3>7, <3>8
    <3> QED  BY <3>5, <3>6, <3>9
  <2> QED  BY <2>2, <2>3
<1> HIDE DEF Good
<1>2. S \in Good
  BY <1>1, SubsetInduction
<1> QED  BY <1>2 DEF Good

\* Sums of lists of two and of three amounts.
LEMMA TotalOfThree ==
  ASSUME NEW a \in [1 .. 3 -> Int]
  PROVE  Total(a, 2) = a[1] + a[2] /\ Total(a, 3) = a[1] + a[2] + a[3]
<1>1. ASSUME NEW n \in 1 .. 3
      PROVE  Total(a, 0) = 0 /\ Total(a, n) = Total(a, n - 1) + a[n]
  <2>1. 3 \in Nat
    OBVIOUS
  <2> QED  BY <2>1, TotalGrows
<1>2. /\ Total(a, 0) = 0 /\ Total(a, 1) = Total(a, 0) + a[1]
      /\ Total(a, 2) = Total(a, 1) + a[2] /\ Total(a, 3) = Total(a, 2) + a[3]
  <2>1. 1 - 1 = 0 /\ 2 - 1 = 1 /\ 3 - 1 = 2 /\ 1 \in 1 .. 3 /\ 2 \in 1 .. 3 /\ 3 \in 1 .. 3
    OBVIOUS
  <2> QED  BY <1>1, <2>1
<1>3. a[1] \in Int /\ a[2] \in Int /\ a[3] \in Int
  OBVIOUS
<1> QED  BY <1>2, <1>3

\* The prizes a session writes out are those of the general computation.
LEMMA SessionAsGeneral ==
  ASSUME NEW fund \in Nat
  PROVE  SessionPrizes(fund) = PercentOfFund(fund, DefaultPlaces)
<1> DEFINE cut == [i \in 1 .. 3 |-> (fund * DefaultPlaces[i]) \div Bps]
           first == (fund * 5000) \div Bps
           second == (fund * 3000) \div Bps
           third == (fund * 2000) \div Bps
<1>1. first \in Nat /\ second \in Nat /\ third \in Nat
  BY FlooredShare
<1>2. cut \in [1 .. 3 -> Int] /\ cut[1] = first /\ cut[2] = second /\ cut[3] = third
  <2>1. DefaultPlaces[1] = 5000 /\ DefaultPlaces[2] = 3000 /\ DefaultPlaces[3] = 2000
    BY DEF DefaultPlaces
  <2>2. cut[1] = first /\ cut[2] = second /\ cut[3] = third
    BY <2>1
  <2>3. \A i \in 1 .. 3 : cut[i] \in Int
    <3> HIDE DEF cut, first, second, third
    <3> QED  BY <1>1, <2>2
  <2> QED  BY <2>2, <2>3
<1>3. Len(DefaultPlaces) = 3 /\ NonNegative(fund) = fund
  BY DEF DefaultPlaces, NonNegative
<1>4. PercentOfFund(fund, DefaultPlaces) = [cut EXCEPT ![3] = NonNegative(fund - Total(cut, 3 - 1))]
  BY <1>3 DEF PercentOfFund
<1>5. SessionPrizes(fund) = <<first, second, NonNegative(fund - (first + second))>>
  BY <1>3 DEF SessionPrizes
<1> HIDE DEF cut, first, second, third
<1>6. Total(cut, 3 - 1) = first + second
  BY <1>1, <1>2, TotalOfThree
<1>7. [cut EXCEPT ![3] = NonNegative(fund - (first + second))] = <<first, second, NonNegative(fund - (first + second))>>
  BY <1>1, <1>2
<1> QED  BY <1>4, <1>5, <1>6, <1>7

\* What a shortfall does to fixed prizes: under HOLD nobody is paid, under SCALE
\* less than one cent per place is lost to rounding.
LEMMA ShortfallOfFixed ==
  ASSUME NEW n \in Nat \ {0}, NEW cents \in [1 .. n -> Nat], Len(cents) = n, NEW F \in Nat,
         Total(cents, n) > F
  PROVE  /\ Total(FixedCents(F, cents, "HOLD"), n) = 0
         /\ F - Total(FixedCents(F, cents, "SCALE"), n) < n
<1> DEFINE sum == Total(cents, n)
           cut == [i \in 1 .. n |-> (cents[i] * F) \div sum]
<1>1. IsFiniteSet(1 .. n) /\ Cardinality(1 .. n) = n /\ 1 .. n \in SUBSET (1 .. n)
  BY FS_Interval
<1>2. sum \in Nat /\ sum > F /\ NonNegative(F) = F
  BY <1>1, SumNat DEF Total, NonNegative
<1>3. FixedCents(F, cents, "HOLD") = [i \in 1 .. n |-> 0]
  BY <1>2 DEF FixedCents
<1>4. FixedCents(F, cents, "SCALE") = cut
  BY <1>2 DEF FixedCents
<1> HIDE DEF sum
<1>5. Total(FixedCents(F, cents, "HOLD"), n) = 0
  BY <1>1, <1>3, SumZero DEF Total
<1>6. ASSUME NEW i \in 1 .. n
      PROVE  cut[i] \in Nat /\ F * cents[i] <= sum * cut[i] + sum - 1
  <2> DEFINE x == cents[i] * F
             q == x \div sum
  <2>1. x \in Nat /\ cut[i] = q /\ F * cents[i] = x /\ sum > 0
    BY <1>2
  <2> HIDE DEF x
  <2>2. q \in Nat /\ x < sum * q + sum
    BY <1>2, <2>1, FloorLosesLess
  <2> HIDE DEF q, cut
  <2>3. sum * q \in Nat
    BY <1>2, <2>2
  <2> QED  BY <1>2, <2>1, <2>2, <2>3
<1>7. cut \in [1 .. n -> Nat]
  BY <1>6
<1> HIDE DEF cut
<1>8. F * sum <= sum * Total(cut, n) + (sum - 1) * n
  <2>1. F * SumOver(cents, 1 .. n) <= sum * SumOver(cut, 1 .. n) + (sum - 1) * Cardinality(1 .. n)
    BY <1>1, <1>2, <1>6, <1>7, SumOfFloors
  <2> QED  BY <1>1, <2>1 DEF Total, sum
<1>9. Total(cut, n) \in Nat
  BY <1>1, <1>7, SumNat DEF Total
<1>10. F - Total(cut, n) < n
  <2> DEFINE t == Total(cut, n)
             d == F - t - n
  <2>1. t \in Nat /\ F * sum <= sum * t + (sum - 1) * n
    BY <1>8, <1>9
  <2> HIDE DEF t
  <2> SUFFICES ASSUME d >= 0 PROVE FALSE
    BY <2>1 DEF t
  <2>2. F = t + n + d /\ d \in Nat
    BY <2>1
  <2> HIDE DEF d
  <2>3. (t + n + d) * sum = sum * t + sum * n + sum * d /\ (sum - 1) * n = sum * n - n
    BY <1>2, <2>1, <2>2
  <2>4. sum * t \in Nat /\ sum * n \in Nat /\ sum * d \in Nat
    BY <1>2, <2>1, <2>2
  <2> QED  BY <2>1, <2>2, <2>3, <2>4
<1> QED  BY <1>4, <1>5, <1>10
=============================================================================
