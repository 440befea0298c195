------------------------- MODULE MsgEmulationProofs -------------------------
(***************************************************************************)
(* Theorems about MsgEmulation, for every set of threads and of programs,  *)
(* every number of slots and every size: the lists and the counts of the   *)
(* queues, and the queues that a call waits on.                            *)
(***************************************************************************)
EXTENDS MsgEmulation, SequenceTheorems, WellFoundedInduction, TLAPS

-----------------------------------------------------------------------------
(* Sums, as functions of their length: a recursive definition is used      *)
(* through the functions that satisfy it, step by step.                    *)

(* Induction over the natural numbers, for a set in place of a predicate.  *)
LEMMA NatSetInduction ==
  ASSUME NEW S, 0 \in S, \A n \in Nat : n \in S => n + 1 \in S
  PROVE  Nat \subseteq S
<1> DEFINE T == Nat \ S
           R == OpToRel(<, Nat)
<1> SUFFICES ASSUME T # {} PROVE FALSE
  OBVIOUS
<1>1. IsWellFoundedOn(R, Nat)
  BY NatLessThanWellFounded
<1>2. T \subseteq Nat
  OBVIOUS
<1> HIDE DEF T, R
<1>3. PICK x \in T : \A y \in T : ~ (<<y, x>> \in R)
  BY <1>1, <1>2, WFMin
<1> USE DEF T, R
<1>4. x \in Nat \ {0}
  OBVIOUS
<1>5. x - 1 \in T
  BY <1>4
<1>6. <<x - 1, x>> \in R
  BY <1>4 DEF OpToRel
<1> QED BY <1>3, <1>5, <1>6

(* A function defined step by step from its value at 0.                    *)
StepsOf(f, S, base, n, step) ==
  f \in [0 .. n -> S] /\ f[0] = base /\ \A k \in 1 .. n : f[k] = step[<<k, f[k - 1]>>]

(* Such a function exists, whatever the steps are.                         *)
LEMMA StepByStep ==
  ASSUME NEW S, NEW base \in S, NEW n \in Nat, NEW step \in [(1 .. n) \X S -> S]
  PROVE  \E f : StepsOf(f, S, base, n, step)
<1> DEFINE Good(j) == j <= n => \E f \in [0 .. j -> S] :
             f[0] = base /\ \A k \in 1 .. j : f[k] = step[<<k, f[k - 1]>>]
           G == {j \in Nat : Good(j)}
<1>1. 0 \in G
  <2> DEFINE f == [k \in 0 .. 0 |-> base]
  <2>1. f \in [0 .. 0 -> S] /\ f[0] = base
    OBVIOUS
  <2>2. \A k \in 1 .. 0 : f[k] = step[<<k, f[k - 1]>>]
    OBVIOUS
  <2> HIDE DEF f
  <2> QED BY <2>1, <2>2
<1>2. ASSUME NEW j \in Nat, j \in G PROVE j + 1 \in G
  <2> SUFFICES ASSUME j + 1 <= n PROVE Good(j + 1)
    OBVIOUS
  <2>1. PICK f \in [0 .. j -> S] :
          f[0] = base /\ \A k \in 1 .. j : f[k] = step[<<k, f[k - 1]>>]
    BY <1>2
  <2> DEFINE g == [k \in 0 .. j + 1 |-> IF k = j + 1 THEN step[<<k, f[j]>>] ELSE f[k]]
  <2>2. step[<<j + 1, f[j]>>] \in S
    <3>1. <<j + 1, f[j]>> \in (1 .. n) \X S
      OBVIOUS
    <3> QED BY <3>1
  <2>3. g \in [0 .. j + 1 -> S]
    BY <2>2
  <2>4. g[0] = base
    BY <2>1
  <2>5. ASSUME NEW k \in 1 .. j + 1 PROVE g[k] = step[<<k, g[k - 1]>>]
    <3>1. CASE k = j + 1
      BY <3>1
    <3>2. CASE k # j + 1
      BY <2>1, <3>2
    <3> QED BY <3>1, <3>2
  <2> QED BY <2>3, <2>4, <2>5
<1>3. Nat \subseteq G
  <2> HIDE DEF G
  <2> QED BY <1>1, <1>2, NatSetInduction
<1> QED BY <1>3 DEF StepsOf

-----------------------------------------------------------------------------
(* The sums of the first k numbers, for every k.                           *)
Sums(sums, numbers, n) ==
  /\ sums \in [0 .. n -> Int] /\ sums[0] = 0
  /\ \A k \in 1 .. n : sums[k] = sums[k - 1] + numbers[k]

(* Numbers have sums.                                                      *)
LEMMA SumsExist ==
  ASSUME NEW n \in Nat, NEW numbers, \A k \in 1 .. n : numbers[k] \in Int
  PROVE  \E sums : Sums(sums, numbers, n)
<1> DEFINE step == [p \in (1 .. n) \X Int |-> p[2] + numbers[p[1]]]
<1>1. step \in [(1 .. n) \X Int -> Int]
  OBVIOUS
<1>2. \A k \in 1 .. n, s \in Int : step[<<k, s>>] = s + numbers[k]
  OBVIOUS
<1> HIDE DEF step
<1>3. PICK f : StepsOf(f, Int, 0, n, step)
  <2>1. 0 \in Int
    OBVIOUS
  <2> QED BY <1>1, <2>1, StepByStep
<1>4. \A k \in 1 .. n : f[k] = f[k - 1] + numbers[k]
  <2> TAKE k \in 1 .. n
  <2>1. f[k - 1] \in Int
    BY <1>3 DEF StepsOf
  <2>2. step[<<k, f[k - 1]>>] = f[k - 1] + numbers[k]
    BY <1>2, <2>1
  <2> QED BY <1>3, <2>2 DEF StepsOf
<1>5. Sums(f, numbers, n)
  BY <1>3, <1>4 DEF StepsOf, Sums
<1> QED BY <1>5

(* Total is the last of any sums that are taken one number at a time.      *)
LEMMA TotalIs ==
  ASSUME NEW n \in Nat, NEW numbers, \A k \in 1 .. n : numbers[k] \in Int,
         NEW sums, sums[0] = 0, \A k \in 1 .. n : sums[k] = sums[k - 1] + numbers[k]
  PROVE  Total(numbers, n) = sums[n]
<1> DEFINE Is(g) == g = [k \in 0 .. n |-> IF k = 0 THEN 0 ELSE g[k - 1] + numbers[k]]
           upTo == CHOOSE g : Is(g)
<1>1. PICK f : Sums(f, numbers, n)
  BY SumsExist
<1>2. Is(f)
  BY <1>1 DEF Sums
<1>3. Is(upTo)
  BY <1>2
<1>4. Total(numbers, n) = upTo[n]
  BY DEF Total
<1>5. upTo[0] = 0 /\ \A k \in 1 .. n : upTo[k] = upTo[k - 1] + numbers[k]
  <2> HIDE DEF upTo
  <2> QED BY <1>3
<1> DEFINE T == {j \in Nat : j <= n => upTo[j] = sums[j]}
<1>6. 0 \in T
  BY <1>5
<1>7. ASSUME NEW j \in Nat, j \in T PROVE j + 1 \in T
  <2> HIDE DEF upTo
  <2> SUFFICES ASSUME j + 1 <= n PROVE upTo[j + 1] = sums[j + 1]
    OBVIOUS
  <2>1. upTo[j] = sums[j] /\ j + 1 \in 1 .. n /\ (j + 1) - 1 = j
    BY <1>7
  <2> QED BY <1>5, <2>1
<1>8. Nat \subseteq T
  <2> HIDE DEF T
  <2> QED BY <1>6, <1>7, NatSetInduction
<1> QED BY <1>4, <1>8

(* Total is the last sum, and an integer.                                  *)
LEMMA TotalOfSums ==
  ASSUME NEW n \in Nat, NEW numbers, \A k \in 1 .. n : numbers[k] \in Int,
         NEW sums, Sums(sums, numbers, n)
  PROVE  Total(numbers, n) = sums[n] /\ Total(numbers, n) \in Int
<1>1. /\ sums[0] = 0 /\ \A k \in 1 .. n : sums[k] = sums[k - 1] + numbers[k]
      /\ sums[n] \in Int
  BY DEF Sums
<1>2. Total(numbers, n) = sums[n]
  BY <1>1, TotalIs
<1> QED BY <1>1, <1>2

(* Zeros.                                                                  *)
LEMMA TotalOfZeros ==
  ASSUME NEW n \in Nat, NEW numbers, \A k \in 1 .. n : numbers[k] = 0
  PROVE  Total(numbers, n) = 0
<1> DEFINE f == [k \in 0 .. n |-> 0]
<1>1. f[0] = 0 /\ \A k \in 1 .. n : f[k] = f[k - 1] + numbers[k]
  OBVIOUS
<1>2. \A k \in 1 .. n : numbers[k] \in Int
  OBVIOUS
<1>3. f[n] = 0
  OBVIOUS
<1> HIDE DEF f
<1>4. Total(numbers, n) = f[n]
  BY <1>1, <1>2, TotalIs
<1> QED BY <1>3, <1>4

(* One number more.                                                        *)
LEMMA TotalOfMore ==
  ASSUME NEW n \in Nat, NEW numbers, NEW more,
         \A k \in 1 .. n : numbers[k] \in Int /\ more[k] = numbers[k],
         more[n + 1] \in Int
  PROVE  Total(more, n + 1) = Total(numbers, n) + more[n + 1]
<1>1. PICK f : Sums(f, numbers, n)
  BY SumsExist
<1> DEFINE g == [k \in 0 .. n + 1 |-> IF k = n + 1 THEN f[n] + more[n + 1] ELSE f[k]]
<1>2. g[0] = 0 /\ \A k \in 1 .. n + 1 : g[k] = g[k - 1] + more[k]
  <2>1. g[0] = 0
    BY <1>1 DEF Sums
  <2>2. ASSUME NEW k \in 1 .. n PROVE g[k] = g[k - 1] + more[k]
    BY <1>1 DEF Sums
  <2>3. g[n + 1] = g[(n + 1) - 1] + more[n + 1]
    OBVIOUS
  <2>4. \A k \in 1 .. n + 1 : k \in 1 .. n \/ k = n + 1
    OBVIOUS
  <2> HIDE DEF g
  <2> QED BY <2>1, <2>2, <2>3, <2>4
<1>3. g[n + 1] = f[n] + more[n + 1]
  OBVIOUS
<1>4. \A k \in 1 .. n + 1 : more[k] \in Int
  OBVIOUS
<1> HIDE DEF g
<1>5. Total(more, n + 1) = g[n + 1]
  BY <1>2, <1>4, TotalIs
<1>6. \A k \in 1 .. n : numbers[k] \in Int
  OBVIOUS
<1>7. Total(numbers, n) = f[n]
  BY <1>1, <1>6, TotalOfSums
<1> QED BY <1>3, <1>5, <1>7

(* One number changed.                                                     *)
LEMMA TotalOfChanged ==
  ASSUME NEW n \in Nat, NEW numbers, NEW changed, NEW i \in 1 .. n,
         \A k \in 1 .. n : numbers[k] \in Int /\ changed[k] \in Int,
         \A k \in (1 .. n) \ {i} : changed[k] = numbers[k]
  PROVE  Total(changed, n) = Total(numbers, n) + changed[i] - numbers[i]
<1>1. PICK f : Sums(f, numbers, n)
  BY SumsExist
<1> DEFINE g == [k \in 0 .. n |-> IF k < i THEN f[k] ELSE f[k] + (changed[i] - numbers[i])]
<1>2. g[0] = 0 /\ \A k \in 1 .. n : g[k] = g[k - 1] + changed[k]
  <2>1. g[0] = 0
    BY <1>1 DEF Sums
  <2>2. ASSUME NEW k \in 1 .. n PROVE g[k] = g[k - 1] + changed[k]
    <3>1. f[k] = f[k - 1] + numbers[k] /\ f[k] \in Int /\ f[k - 1] \in Int
      BY <1>1 DEF Sums
    <3>2. g[k] = IF k < i THEN f[k] ELSE f[k] + (changed[i] - numbers[i])
      OBVIOUS
    <3>3. g[k - 1] = IF k - 1 < i THEN f[k - 1] ELSE f[k - 1] + (changed[i] - numbers[i])
      OBVIOUS
    <3> HIDE DEF g
    <3>4. CASE k < i
      BY <3>1, <3>2, <3>3, <3>4
    <3>5. CASE k = i
      BY <3>1, <3>2, <3>3, <3>5
    <3>6. CASE k > i
      BY <3>1, <3>2, <3>3, <3>6
    <3> QED BY <3>4, <3>5, <3>6
  <2> QED BY <2>1, <2>2
<1>3. g[n] = f[n] + (changed[i] - numbers[i]) /\ f[n] \in Int
  BY <1>1 DEF Sums
<1> HIDE DEF g
<1>4. Total(changed, n) = g[n]
  BY <1>2, TotalIs
<1>5. Total(numbers, n) = f[n]
  BY <1>1, TotalOfSums
<1> QED BY <1>3, <1>4, <1>5

(* The numbers that are left when the i-th is taken out.                   *)
Without(fewer, numbers, n, i) ==
  \A k \in 1 .. n - 1 : fewer[k] = IF k < i THEN numbers[k] ELSE numbers[k + 1]

(* One number left out.                                                    *)
LEMMA TotalWithout ==
  ASSUME NEW n \in Nat \ {0}, NEW numbers, NEW fewer, NEW i \in 1 .. n,
         \A k \in 1 .. n : numbers[k] \in Int, Without(fewer, numbers, n, i)
  PROVE  Total(fewer, n - 1) = Total(numbers, n) - numbers[i]
<1>0. \A k \in 1 .. n - 1 : fewer[k] = IF k < i THEN numbers[k] ELSE numbers[k + 1]
  BY DEF Without
<1>1. PICK f : Sums(f, numbers, n)
  BY SumsExist
<1> DEFINE g == [k \in 0 .. n - 1 |-> IF k < i THEN f[k] ELSE f[k + 1] - numbers[i]]
<1>2. g[0] = 0 /\ \A k \in 1 .. n - 1 : g[k] = g[k - 1] + fewer[k]
  <2>1. g[0] = 0
    BY <1>1 DEF Sums
  <2>2. ASSUME NEW k \in 1 .. n - 1 PROVE g[k] = g[k - 1] + fewer[k]
    <3>1. /\ f[k] = f[k - 1] + numbers[k] /\ f[k] \in Int /\ f[k - 1] \in Int
          /\ f[k + 1] = f[k] + numbers[k + 1] /\ f[k + 1] \in Int
      <4>1. k \in 1 .. n /\ k + 1 \in 1 .. n /\ k - 1 \in 0 .. n /\ (k + 1) - 1 = k
        OBVIOUS
      <4> QED BY <1>1, <4>1 DEF Sums
    <3>2. g[k] = IF k < i THEN f[k] ELSE f[k + 1] - numbers[i]
      OBVIOUS
    <3>3. g[k - 1] = IF k - 1 < i THEN f[k - 1] ELSE f[k] - numbers[i]
      <4>1. k - 1 \in 0 .. n - 1 /\ (k - 1) + 1 = k
        OBVIOUS
      <4> QED BY <4>1
    <3>4. /\ fewer[k] = IF k < i THEN numbers[k] ELSE numbers[k + 1]
          /\ numbers[k] \in Int /\ numbers[k + 1] \in Int /\ numbers[i] \in Int
      BY <1>0
    <3> HIDE DEF g
    <3>5. CASE k < i
      BY <3>1, <3>2, <3>3, <3>4, <3>5
    <3>6. CASE k = i
      BY <3>1, <3>2, <3>3, <3>4, <3>6
    <3>7. CASE k > i
      BY <3>1, <3>2, <3>3, <3>4, <3>7
    <3> QED BY <3>5, <3>6, <3>7
  <2> QED BY <2>1, <2>2
<1>3. g[n - 1] = f[n] - numbers[i] /\ f[n] \in Int
  <2>1. f[n] = f[n - 1] + numbers[n] /\ f[n] \in Int /\ f[n - 1] \in Int /\ n - 1 \in 0 .. n - 1
        /\ (n - 1) + 1 = n
    BY <1>1 DEF Sums
  <2>2. CASE n - 1 < i
    BY <2>1, <2>2
  <2>3. CASE n - 1 >= i
    BY <2>1, <2>3
  <2> QED BY <2>2, <2>3
<1> HIDE DEF g
<1>4. Total(fewer, n - 1) = g[n - 1]
  <2>1. \A k \in 1 .. n - 1 : fewer[k] \in Int
    BY <1>0
  <2>2. n - 1 \in Nat
    OBVIOUS
  <2> QED BY <1>2, <2>1, <2>2, TotalIs
<1>5. Total(numbers, n) = f[n]
  BY <1>1, TotalOfSums
<1> QED BY <1>3, <1>4, <1>5

-----------------------------------------------------------------------------
(* The messages of one type of a list.                                     *)

(* What is chosen of the first k elements, for every k.                    *)
Chooses(picks, s, n, type) ==
  /\ picks[0] = <<>>
  /\ \A k \in 1 .. n :
       picks[k] = IF s[k].type = type THEN Append(picks[k - 1], s[k]) ELSE picks[k - 1]

ChoosesUpTo(picks, s, n, type, last) == Chooses(picks, s, n, type) /\ picks[n] = last

Picks(picks, s, n, type, S) == picks \in [0 .. n -> Seq(S)] /\ Chooses(picks, s, n, type)

(* The messages of a list can be chosen one after the other.               *)
LEMMA PicksExist ==
  ASSUME NEW S, NEW n \in Nat, NEW s, \A k \in 1 .. n : s[k] \in S, NEW type
  PROVE  \E picks : Picks(picks, s, n, type, S)
<1> DEFINE L == Seq(S)
           step == [p \in (1 .. n) \X L |->
                      IF s[p[1]].type = type THEN Append(p[2], s[p[1]]) ELSE p[2]]
<1>1. <<>> \in L
  BY EmptySeq
<1>2. \A k \in 1 .. n, l \in L : Append(l, s[k]) \in L
  BY AppendProperties
<1>3. step \in [(1 .. n) \X L -> L]
  <2> HIDE DEF L
  <2> QED BY <1>2
<1>4. \A k \in 1 .. n, l \in L :
        step[<<k, l>>] = IF s[k].type = type THEN Append(l, s[k]) ELSE l
  <2> HIDE DEF L
  <2> QED OBVIOUS
<1> HIDE DEF step, L
<1>5. PICK f : StepsOf(f, L, <<>>, n, step)
  BY <1>1, <1>3, StepByStep
<1>6. Chooses(f, s, n, type)
  <2>1. ASSUME NEW k \in 1 .. n
        PROVE  f[k] = IF s[k].type = type THEN Append(f[k - 1], s[k]) ELSE f[k - 1]
    <3>1. f[k - 1] \in L /\ f[k] = step[<<k, f[k - 1]>>]
      BY <1>5 DEF StepsOf
    <3> QED BY <1>4, <3>1
  <2>2. f[0] = <<>>
    BY <1>5 DEF StepsOf
  <2> QED BY <2>1, <2>2 DEF Chooses
<1>7. Picks(f, s, n, type, S)
  BY <1>5, <1>6 DEF StepsOf, Picks, L
<1> QED BY <1>7

(* Two ways to choose them end with the same messages.                     *)
LEMMA ChosenAlike ==
  ASSUME NEW n \in Nat, NEW s, NEW type, NEW f, NEW g,
         Chooses(f, s, n, type), Chooses(g, s, n, type)
  PROVE  f[n] = g[n]
<1> DEFINE T == {j \in Nat : j <= n => f[j] = g[j]}
<1>1. 0 \in T
  BY DEF Chooses
<1>2. ASSUME NEW j \in Nat, j \in T PROVE j + 1 \in T
  <2> SUFFICES ASSUME j + 1 <= n PROVE f[j + 1] = g[j + 1]
    OBVIOUS
  <2>1. f[j] = g[j] /\ j + 1 \in 1 .. n /\ (j + 1) - 1 = j
    BY <1>2
  <2>2. /\ f[j + 1] = IF s[j + 1].type = type THEN Append(f[j], s[j + 1]) ELSE f[j]
        /\ g[j + 1] = IF s[j + 1].type = type THEN Append(g[j], s[j + 1]) ELSE g[j]
    BY <2>1 DEF Chooses
  <2> QED BY <2>1, <2>2
<1>3. Nat \subseteq T
  <2> HIDE DEF T
  <2> QED BY <1>1, <1>2, NatSetInduction
<1> QED BY <1>3

(* OfType is the last of any choices that are made message by message.     *)
LEMMA OfTypeIs ==
  ASSUME NEW S, NEW s \in Seq(S), NEW n \in Nat, n = Len(s), NEW type, NEW picks,
         Chooses(picks, s, n, type)
  PROVE  OfType(s, type) = picks[n] /\ OfType(s, type) \in Seq(S)
<1> DEFINE Is(g) == g = [k \in 0 .. Len(s) |->
                          IF k = 0 THEN <<>>
                          ELSE IF s[k].type = type THEN Append(g[k - 1], s[k]) ELSE g[k - 1]]
           upTo == CHOOSE g : Is(g)
<1>1. \A k \in 1 .. n : s[k] \in S
  BY ElementOfSeq
<1>2. PICK f : Picks(f, s, n, type, S)
  BY <1>1, PicksExist
<1>3. Is(f)
  <2> DEFINE F == [k \in 0 .. n |->
                     IF k = 0 THEN <<>>
                     ELSE IF s[k].type = type THEN Append(f[k - 1], s[k]) ELSE f[k - 1]]
  <2>1. f = [k \in 0 .. n |-> f[k]]
    BY <1>2 DEF Picks
  <2>2. ASSUME NEW k \in 0 .. n PROVE f[k] = F[k]
    <3>1. f[0] = <<>>
      BY <1>2 DEF Picks, Chooses
    <3>2. ASSUME k # 0
          PROVE  f[k] = IF s[k].type = type THEN Append(f[k - 1], s[k]) ELSE f[k - 1]
      <4>1. k \in 1 .. n
        BY <3>2
      <4> QED BY <1>2, <4>1 DEF Picks, Chooses
    <3> QED BY <3>1, <3>2
  <2>3. F = [k \in 0 .. n |-> F[k]]
    OBVIOUS
  <2> HIDE DEF F
  <2>4. f = F
    BY <2>1, <2>2, <2>3
  <2> QED BY <2>4 DEF F
<1>4. Is(upTo)
  <2> HIDE DEF Is
  <2> QED BY <1>3
<1>5. OfType(s, type) = upTo[n]
  BY DEF OfType
<1>6. Chooses(upTo, s, n, type)
  <2> HIDE DEF upTo
  <2>1. upTo = [k \in 0 .. n |->
                     IF k = 0 THEN <<>>
                     ELSE IF s[k].type = type THEN Append(upTo[k - 1], s[k]) ELSE upTo[k - 1]]
    BY <1>4
  <2>2. upTo[0] = <<>>
    BY <2>1
  <2>3. ASSUME NEW k \in 1 .. n
        PROVE  upTo[k] = IF s[k].type = type THEN Append(upTo[k - 1], s[k]) ELSE upTo[k - 1]
    <3>1. k \in 0 .. n /\ k # 0
      OBVIOUS
    <3> QED BY <2>1, <3>1
  <2> QED BY <2>2, <2>3 DEF Chooses
<1> HIDE DEF upTo
<1>7. upTo[n] = picks[n] /\ upTo[n] = f[n]
  BY <1>2, <1>6, ChosenAlike DEF Picks
<1>8. f[n] \in Seq(S)
  BY <1>2 DEF Picks
<1> QED BY <1>5, <1>7, <1>8

(* No message of the type.                                                 *)
LEMMA OfTypeNone ==
  ASSUME NEW S, NEW s \in Seq(S), NEW type, \A n \in 1 .. Len(s) : s[n].type # type
  PROVE  OfType(s, type) = <<>>
<1> DEFINE f == [n \in 0 .. Len(s) |-> <<>>]
<1>1. Len(s) \in Nat
  BY LenProperties
<1>2. f[0] = <<>> /\ f[Len(s)] = <<>>
      /\ \A n \in 1 .. Len(s) : f[n] = f[n - 1]
  BY <1>1
<1> HIDE DEF f
<1>3. Chooses(f, s, Len(s), type)
  BY <1>2 DEF Chooses
<1>4. OfType(s, type) = f[Len(s)]
  BY <1>1, <1>3, OfTypeIs
<1> QED BY <1>2, <1>4

(* One message.                                                            *)
LEMMA OfTypeOne ==
  ASSUME NEW S, NEW m \in S, NEW type
  PROVE  OfType(<<m>>, type) = IF m.type = type THEN <<m>> ELSE <<>>
<1> DEFINE f == [n \in 0 .. 1 |-> IF n = 1 /\ m.type = type THEN <<m>> ELSE <<>>]
           s == <<m>>
<1>1. s \in Seq(S) /\ 1 = Len(s) /\ s[1] = m
  OBVIOUS
<1>2. f[0] = <<>> /\ f[1] = IF m.type = type THEN <<m>> ELSE <<>>
  OBVIOUS
<1>3. Append(<<>>, m) = <<m>>
  OBVIOUS
<1> HIDE DEF f, s
<1>4. Chooses(f, s, 1, type)
  <2>1. ASSUME NEW k \in 1 .. 1
        PROVE  f[k] = IF s[k].type = type THEN Append(f[k - 1], s[k]) ELSE f[k - 1]
    <3>1. k = 1 /\ k - 1 = 0
      OBVIOUS
    <3> QED BY <1>1, <1>2, <1>3, <3>1
  <2> QED BY <1>2, <2>1 DEF Chooses
<1>5. OfType(s, type) = f[1]
  <2> DEFINE n == 1
  <2>1. n \in Nat /\ n = Len(s) /\ Chooses(f, s, n, type)
    BY <1>1, <1>4
  <2> HIDE DEF n
  <2>2. OfType(s, type) = f[n]
    BY <1>1, <2>1, OfTypeIs
  <2> QED BY <2>2 DEF n
<1> QED BY <1>2, <1>5 DEF s

(* The messages of one type in a sequence are those of its parts.          *)
LEMMA ChosenConcat ==
  ASSUME NEW S, NEW n \in Nat, NEW l \in Nat, NEW s, NEW r, NEW c, NEW type, NEW f, NEW h,
         \A k \in 1 .. n : c[k] = s[k],
         \A k \in 1 .. l : c[n + k] = r[k] /\ r[k] \in S,
         Picks(f, s, n, type, S), Picks(h, r, l, type, S)
  PROVE  \E g : ChoosesUpTo(g, c, n + l, type, f[n] \o h[l])
<1> DEFINE g == [k \in 0 .. n + l |-> IF k <= n THEN f[k] ELSE f[n] \o h[k - n]]
<1>1. f[n] \in Seq(S) /\ h[0] = <<>> /\ f[0] = <<>> /\ \A k \in 0 .. l : h[k] \in Seq(S)
  BY DEF Picks, Chooses
<1>2. f[n] \o h[0] = f[n]
  BY <1>1, ConcatEmptySeq
<1>3. \A k \in 0 .. n : g[k] = f[k]
  OBVIOUS
<1>4. ASSUME NEW k \in 0 .. l PROVE g[n + k] = f[n] \o h[k]
  <2>1. CASE k = 0
    BY <1>2, <1>3, <2>1
  <2>2. CASE k # 0
    <3>1. n + k \in 0 .. n + l /\ ~(n + k <= n) /\ (n + k) - n = k
      BY <2>2
    <3>2. g[n + k] = IF n + k <= n THEN f[n + k] ELSE f[n] \o h[(n + k) - n]
      BY <3>1
    <3> HIDE DEF g
    <3> QED BY <3>1, <3>2
  <2> QED BY <2>1, <2>2
<1> HIDE DEF g
<1>5. ASSUME NEW k \in 1 .. n + l
      PROVE  g[k] = IF c[k].type = type THEN Append(g[k - 1], c[k]) ELSE g[k - 1]
  <2>1. CASE k \in 1 .. n
    <3>1. f[k] = IF s[k].type = type THEN Append(f[k - 1], s[k]) ELSE f[k - 1]
      BY <2>1 DEF Picks, Chooses
    <3>2. k - 1 \in 0 .. n /\ k \in 0 .. n
      BY <2>1
    <3>3. g[k] = f[k] /\ g[k - 1] = f[k - 1] /\ c[k] = s[k]
      BY <1>3, <2>1, <3>2
    <3> QED BY <3>1, <3>3
  <2>2. CASE k \in n + 1 .. n + l
    <3>1. PICK j \in 1 .. l : j - 1 \in 0 .. l /\ j \in 0 .. l /\ k = n + j /\ k - 1 = n + (j - 1)
      <4>1. k - n \in 1 .. l /\ (k - n) - 1 \in 0 .. l /\ k = n + (k - n)
            /\ k - 1 = n + ((k - n) - 1)
        BY <2>2
      <4> QED BY <4>1
    <3>2. h[j] = IF r[j].type = type THEN Append(h[j - 1], r[j]) ELSE h[j - 1]
      BY <3>1 DEF Picks, Chooses
    <3>3. h[j - 1] \in Seq(S) /\ r[j] \in S
      BY <1>1, <3>1
    <3>4. f[n] \o Append(h[j - 1], r[j]) = Append(f[n] \o h[j - 1], r[j])
      <4>1. \A x \in Seq(S), y \in Seq(S), z \in S : x \o Append(y, z) = Append(x \o y, z)
        OBVIOUS
      <4> QED BY <1>1, <3>3, <4>1
    <3>5. g[n + j] = f[n] \o h[j]
      BY <1>4, <3>1
    <3>6. g[n + (j - 1)] = f[n] \o h[j - 1]
      BY <1>4, <3>1
    <3>7. c[n + j] = r[j]
      OBVIOUS
    <3> QED BY <3>1, <3>2, <3>4, <3>5, <3>6, <3>7
  <2> QED BY <2>1, <2>2
<1>6. g[0] = <<>>
  BY <1>1, <1>3
<1>7. g[n + l] = f[n] \o h[l]
  <2>1. l \in 0 .. l
    OBVIOUS
  <2> QED BY <1>4, <2>1
<1>8. Chooses(g, c, n + l, type)
  BY <1>5, <1>6 DEF Chooses
<1> QED BY <1>7, <1>8 DEF ChoosesUpTo

(* The messages of one type of two lists that are joined.                  *)
LEMMA OfTypeConcat ==
  ASSUME NEW S, NEW s \in Seq(S), NEW r \in Seq(S), NEW type
  PROVE  OfType(s \o r, type) = OfType(s, type) \o OfType(r, type)
<1>1. PICK n \in Nat, l \in Nat : n = Len(s) /\ l = Len(r)
  BY LenProperties
<1>2. (\A k \in 1 .. n : s[k] \in S) /\ \A k \in 1 .. l : r[k] \in S
  BY <1>1, ElementOfSeq
<1>3. PICK f : Picks(f, s, n, type, S)
  BY <1>2, PicksExist
<1>4. PICK h : Picks(h, r, l, type, S)
  BY <1>2, PicksExist
<1> DEFINE c == s \o r
<1>5. c \in Seq(S) /\ Len(c) = n + l /\ n + l \in Nat
  BY <1>1, ConcatProperties
<1>6. \A k \in 1 .. Len(s) + Len(r) : c[k] = IF k <= Len(s) THEN s[k] ELSE r[k - Len(s)]
  BY ConcatProperties
<1> HIDE DEF c
<1>7. \A k \in 1 .. n : c[k] = s[k]
  BY <1>1, <1>6
<1>8. \A k \in 1 .. l : c[n + k] = r[k]
  <2> TAKE k \in 1 .. l
  <2>1. n + k \in 1 .. n + l /\ ~(n + k <= n) /\ (n + k) - n = k
    BY <1>1
  <2> QED BY <1>1, <1>6, <2>1
<1>9. PICK g : ChoosesUpTo(g, c, n + l, type, f[n] \o h[l])
  BY <1>2, <1>3, <1>4, <1>7, <1>8, ChosenConcat
<1>10. OfType(c, type) = g[n + l]
  <2> DEFINE m == n + l
  <2>1. m \in Nat /\ m = Len(c) /\ Chooses(g, c, m, type)
    BY <1>5, <1>9 DEF ChoosesUpTo
  <2> HIDE DEF m
  <2>2. OfType(c, type) = g[m]
    BY <1>5, <2>1, OfTypeIs
  <2> QED BY <2>2 DEF m
<1>11. OfType(s, type) = f[n]
  BY <1>1, <1>3, OfTypeIs DEF Picks
<1>12. OfType(r, type) = h[l]
  BY <1>1, <1>4, OfTypeIs DEF Picks
<1> QED BY <1>9, <1>10, <1>11, <1>12 DEF c, ChoosesUpTo

(* What OfType chooses are messages of the list.                           *)
LEMMA OfTypeTyped ==
  ASSUME NEW S, NEW s \in Seq(S), NEW type
  PROVE  OfType(s, type) \in Seq(S)
<1>1. PICK n \in Nat : n = Len(s)
  BY LenProperties
<1>2. \A k \in 1 .. n : s[k] \in S
  BY <1>1, ElementOfSeq
<1>3. PICK f : Picks(f, s, n, type, S)
  BY <1>2, PicksExist
<1> QED BY <1>1, <1>3, OfTypeIs DEF Picks

-----------------------------------------------------------------------------
(* The queues of the table and what the helpers do to them.                *)

Messages == [type : Int, mlength : Nat, from : Threads, left : Nat]

(* A well-formed queue, and a table of them.                               *)
IsQueue(q) ==
  /\ q = [key |-> q.key, msg_busy |-> q.msg_busy, cuid |-> q.cuid, uid |-> q.uid, gid |-> q.gid,
          mode |-> q.mode, msgs |-> q.msgs, msg_cbytes |-> q.msg_cbytes, msg_qnum |-> q.msg_qnum,
          msg_qbytes |-> q.msg_qbytes]
  /\ q.msg_busy \in BOOLEAN /\ q.msgs \in Seq(Messages)
  /\ q.msg_cbytes \in Int /\ q.msg_qnum \in Int /\ q.msg_qbytes \in Nat

IsTable(m) == m = [i \in Slots |-> m[i]] /\ \A i \in Slots : IsQueue(m[i])

(* Two states of a queue with the same messages, counts and limit.         *)
SameLists(q, r) ==
  /\ r.key = q.key /\ r.msgs = q.msgs
  /\ r.msg_cbytes = q.msg_cbytes /\ r.msg_qnum = q.msg_qnum

-----------------------------------------------------------------------------

(* What the proofs use of the sizes.                                       *)
LEMMA LongSizeIsNat == LongSize \in Nat /\ LongSize > 0 /\ MQ_MAX_BYTES_IN_QUEUE \in Nat
                       /\ MSG_MAX_NUMBER_QUEUES \in Nat
BY MsgEmulationAssumption

(* A table with another queue in one slot.                                 *)
WithRow(m, i, q) == [m EXCEPT ![i] = q]

(* A table with another queue in one slot is a table.                      *)
LEMMA RowChanged ==
  ASSUME NEW m, IsTable(m), NEW i \in Slots, NEW q, IsQueue(q)
  PROVE  /\ IsTable(WithRow(m, i, q)) /\ WithRow(m, i, q)[i] = q
         /\ \A j \in Slots \ {i} : WithRow(m, i, q)[j] = m[j]
<1>1. m = [j \in Slots |-> m[j]]
  BY DEF IsTable
<1> DEFINE c == WithRow(m, i, q)
<1>2. c = [j \in Slots |-> IF j = i THEN q ELSE m[j]]
  BY <1>1 DEF WithRow
<1>3. \A j \in Slots : IsQueue(m[j])
  BY DEF IsTable
<1> HIDE DEF c
<1>4. c = [j \in Slots |-> c[j]]
  BY <1>2
<1>5. c[i] = q /\ \A j \in Slots \ {i} : c[j] = m[j]
  BY <1>2
<1>6. \A j \in Slots : IsQueue(c[j])
  BY <1>3, <1>5
<1> QED BY <1>4, <1>5, <1>6 DEF c, IsTable

(* The flag of a queue says nothing about its list and counts.             *)
LEMMA BusyChanged ==
  ASSUME NEW q, IsQueue(q), NEW b \in BOOLEAN
  PROVE  LET c == [q EXCEPT !.msg_busy = b]
         IN  /\ IsQueue(c) /\ SameLists(q, c) /\ c.msg_busy = b /\ c.msg_qbytes = q.msg_qbytes
BY DEF IsQueue, SameLists

(* A queue with other counts.                                              *)
WithCounts(q, b, n) == [q EXCEPT !.msg_cbytes = b, !.msg_qnum = n]

(* The counts of a queue say nothing about its list.                       *)
LEMMA CountsChanged ==
  ASSUME NEW q, IsQueue(q), NEW b \in Int, NEW n \in Int, NEW r, r = WithCounts(q, b, n)
  PROVE  /\ IsQueue(r) /\ r.key = q.key /\ r.msgs = q.msgs
         /\ r.msg_busy = q.msg_busy /\ r.msg_qbytes = q.msg_qbytes
         /\ r.msg_cbytes = b /\ r.msg_qnum = n
<1> HIDE DEF Messages
<1> DEFINE d == [q EXCEPT !.msg_cbytes = b]
           c == [d EXCEPT !.msg_qnum = n]
<1>1. /\ IsQueue(d) /\ d.key = q.key /\ d.msgs = q.msgs
      /\ d.msg_busy = q.msg_busy /\ d.msg_qbytes = q.msg_qbytes /\ d.msg_cbytes = b
  BY DEF IsQueue
<1>2. r = c
  BY DEF WithCounts
<1> HIDE DEF d
<1>3. /\ IsQueue(c) /\ c.key = d.key /\ c.msgs = d.msgs /\ c.msg_qnum = n
      /\ c.msg_busy = d.msg_busy /\ c.msg_qbytes = d.msg_qbytes /\ c.msg_cbytes = d.msg_cbytes
  BY <1>1 DEF IsQueue
<1> HIDE DEF c
<1> QED BY <1>1, <1>2, <1>3

(* What update_status() does to a queue.                                   *)
LEMMA StatusUpdated ==
  ASSUME NEW q, IsQueue(q), NEW n \in Int
  PROVE  LET c == update_status(q, n)
         IN  /\ IsQueue(c) /\ c.key = q.key /\ c.msgs = q.msgs
             /\ c.msg_busy = q.msg_busy /\ c.msg_qbytes = q.msg_qbytes
             /\ c.msg_cbytes = q.msg_cbytes + Bytes(n)
             /\ c.msg_qnum = IF n > 0 THEN q.msg_qnum + 1
                             ELSE IF n < 0 THEN q.msg_qnum - 1 ELSE q.msg_qnum
<1> DEFINE b == q.msg_cbytes + Bytes(n)
           k == IF n > 0 THEN q.msg_qnum + 1 ELSE IF n < 0 THEN q.msg_qnum - 1 ELSE q.msg_qnum
<1>1. q.msg_cbytes \in Int /\ q.msg_qnum \in Int
  BY DEF IsQueue
<1>2. b \in Int /\ k \in Int
  BY <1>1, LongSizeIsNat DEF Bytes
<1>3. update_status(q, n) = WithCounts(q, b, k)
  BY DEF update_status, WithCounts
<1> HIDE DEF b, k
<1> DEFINE c == update_status(q, n)
<1> HIDE DEF c
<1>4. /\ IsQueue(c) /\ c.key = q.key /\ c.msgs = q.msgs
      /\ c.msg_busy = q.msg_busy /\ c.msg_qbytes = q.msg_qbytes
      /\ c.msg_cbytes = b /\ c.msg_qnum = k
  <2>1. c = WithCounts(q, b, k)
    BY <1>3 DEF c
  <2> QED BY <1>2, <2>1, CountsChanged
<1> QED BY <1>4 DEF b, k, c

(* The list of a queue says nothing about its counts.                      *)
LEMMA ListChanged ==
  ASSUME NEW q, IsQueue(q), NEW l \in Seq(Messages)
  PROVE  LET c == [q EXCEPT !.msgs = l]
         IN  /\ IsQueue(c) /\ c.key = q.key /\ c.msgs = l
             /\ c.msg_busy = q.msg_busy /\ c.msg_qbytes = q.msg_qbytes
             /\ c.msg_cbytes = q.msg_cbytes /\ c.msg_qnum = q.msg_qnum
<1> HIDE DEF Messages
<1> QED BY DEF IsQueue

(* What PlaceMessageInQueue() does to a queue.                             *)
LEMMA MessagePlaced ==
  ASSUME NEW q, IsQueue(q), NEW m \in Messages
  PROVE  LET c == PlaceMessageInQueue(q, m)
         IN  /\ IsQueue(c) /\ c.key = q.key /\ c.msgs = Append(q.msgs, m)
             /\ c.msg_busy = q.msg_busy /\ c.msg_qbytes = q.msg_qbytes
             /\ c.msg_cbytes = q.msg_cbytes /\ c.msg_qnum = q.msg_qnum
<1> DEFINE l == Append(q.msgs, m)
<1>1. l \in Seq(Messages)
  BY AppendProperties DEF IsQueue
<1>2. PlaceMessageInQueue(q, m) = [q EXCEPT !.msgs = l]
  BY DEF PlaceMessageInQueue
<1> HIDE DEF l
<1>3. LET c == [q EXCEPT !.msgs = l]
      IN  /\ IsQueue(c) /\ c.key = q.key /\ c.msgs = l
          /\ c.msg_busy = q.msg_busy /\ c.msg_qbytes = q.msg_qbytes
          /\ c.msg_cbytes = q.msg_cbytes /\ c.msg_qnum = q.msg_qnum
  BY <1>1, ListChanged
<1> QED BY <1>2, <1>3 DEF l

(* Two lists joined: their length and their elements.                      *)
LEMMA Joined ==
  ASSUME NEW S, NEW s \in Seq(S), NEW r \in Seq(S), NEW n, NEW l, n = Len(s), l = Len(r)
  PROVE  /\ s \o r \in Seq(S) /\ Len(s \o r) = n + l
         /\ \A k \in 1 .. n + l : (s \o r)[k] = IF k <= n THEN s[k] ELSE r[k - n]
BY ConcatProperties

(* The parts before and after the n-th element.                            *)
CutAt(s, n, before, after) ==
  /\ s = before \o (<<s[n]>> \o after) /\ RemoveAt(s, n) = before \o after
  /\ Len(before) = n - 1 /\ \A k \in 1 .. n - 1 : before[k] = s[k]

(* A list without one element: the part before it, the part after it.      *)
LEMMA OneRemoved ==
  ASSUME NEW S, NEW s \in Seq(S), NEW n \in 1 .. Len(s)
  PROVE  /\ \E before \in Seq(S), after \in Seq(S) : CutAt(s, n, before, after)
         /\ RemoveAt(s, n) \in Seq(S)
         /\ Len(s) \in Nat \ {0} /\ Len(RemoveAt(s, n)) = Len(s) - 1
         /\ \A k \in 1 .. Len(s) - 1 :
              RemoveAt(s, n)[k] = IF k < n THEN s[k] ELSE s[k + 1]
<1> DEFINE b == SubSeq(s, 1, n - 1)  a == SubSeq(s, n + 1, Len(s))
<1>1. PICK l \in Nat : l = Len(s) /\ l \in Nat \ {0} /\ n \in 1 .. l /\ \A k \in 1 .. l : s[k] \in S
  BY LenProperties, ElementOfSeq
<1>2. b \in Seq(S) /\ Len(b) = n - 1 /\ \A k \in 1 .. n - 1 : b[k] = s[k]
  <2>1. n - 1 \in Nat /\ \A k \in 1 .. n - 1 : k \in 1 .. l
    BY <1>1
  <2> QED BY <1>1, <2>1
<1>3. a \in Seq(S) /\ Len(a) = l - n /\ \A k \in 1 .. l - n : a[k] = s[n + k]
  <2>1. l - n \in Nat /\ \A k \in n + 1 .. l : k \in 1 .. l
    BY <1>1
  <2> QED BY <1>1, <2>1
<1> HIDE DEF a, b
<1>4. RemoveAt(s, n) = b \o a
  BY DEF RemoveAt, a, b
<1> DEFINE r == b \o a  o == <<s[n]>>  e == o \o a  w == b \o e
<1>5. r \in Seq(S) /\ Len(r) = l - 1
      /\ \A k \in 1 .. l - 1 : r[k] = IF k <= n - 1 THEN b[k] ELSE a[k - (n - 1)]
  <2>1. (n - 1) + (l - n) = l - 1
    BY <1>1
  <2> DEFINE i == n - 1  j == l - n
  <2>2. i = Len(b) /\ j = Len(a)
    BY <1>2, <1>3
  <2> HIDE DEF i, j
  <2>3. r \in Seq(S) /\ Len(r) = i + j
        /\ \A k \in 1 .. i + j : r[k] = IF k <= i THEN b[k] ELSE a[k - i]
    BY <1>2, <1>3, <2>2, Joined
  <2> QED BY <2>1, <2>3 DEF i, j
<1>6. \A k \in 1 .. l - 1 : r[k] = IF k < n THEN s[k] ELSE s[k + 1]
  <2> TAKE k \in 1 .. l - 1
  <2> HIDE DEF r
  <2>1. CASE k <= n - 1
    BY <1>1, <1>2, <1>5, <2>1
  <2>2. CASE k > n - 1
    <3>1. k - (n - 1) \in 1 .. l - n /\ n + (k - (n - 1)) = k + 1
      BY <1>1, <2>2
    <3> QED BY <1>1, <1>3, <1>5, <2>2, <3>1
  <2> QED BY <1>1, <2>1, <2>2
<1>7. e \in Seq(S) /\ Len(e) = (l - n) + 1
      /\ \A k \in 1 .. (l - n) + 1 : e[k] = IF k <= 1 THEN s[n] ELSE a[k - 1]
  <2>1. o \in Seq(S) /\ Len(o) = 1 /\ o[1] = s[n]
    BY <1>1
  <2> HIDE DEF o
  <2> DEFINE i == 1  j == l - n
  <2>4. i = Len(o) /\ j = Len(a) /\ o \in Seq(S) /\ a \in Seq(S)
    BY <1>3, <2>1
  <2> HIDE DEF i, j
  <2>5. e \in Seq(S) /\ Len(e) = i + j
        /\ \A k \in 1 .. i + j : e[k] = IF k <= i THEN o[k] ELSE a[k - i]
    BY <2>4, Joined
  <2> HIDE DEF e
  <2>2. e \in Seq(S) /\ Len(e) = 1 + (l - n)
        /\ \A k \in 1 .. 1 + (l - n) : e[k] = IF k <= 1 THEN o[k] ELSE a[k - 1]
    BY <2>5 DEF i, j
  <2>3. \A k \in 1 .. 1 + (l - n) : k <= 1 => k = 1
    OBVIOUS
  <2> QED BY <1>1, <2>1, <2>2, <2>3
<1> HIDE DEF e
<1>8. w \in Seq(S) /\ Len(w) = l
      /\ \A k \in 1 .. l : w[k] = IF k <= n - 1 THEN b[k] ELSE e[k - (n - 1)]
  <2>1. (n - 1) + ((l - n) + 1) = l
    BY <1>1
  <2> DEFINE i == n - 1  j == (l - n) + 1
  <2>2. i = Len(b) /\ j = Len(e) /\ b \in Seq(S) /\ e \in Seq(S)
    BY <1>2, <1>7
  <2> HIDE DEF i, j
  <2>3. w \in Seq(S) /\ Len(w) = i + j
        /\ \A k \in 1 .. i + j : w[k] = IF k <= i THEN b[k] ELSE e[k - i]
    BY <2>2, Joined
  <2> QED BY <2>1, <2>3 DEF i, j
<1> HIDE DEF w
<1>9. \A k \in 1 .. l : w[k] = s[k]
  <2> TAKE k \in 1 .. l
  <2>1. CASE k <= n - 1
    BY <1>1, <1>2, <1>8, <2>1
  <2>2. CASE k = n
    <3>1. k - (n - 1) = 1 /\ ~(k <= n - 1) /\ 1 \in 1 .. (l - n) + 1
      BY <1>1, <2>2
    <3> QED BY <1>7, <1>8, <2>2, <3>1
  <2>3. CASE k > n
    <3>1. /\ k - (n - 1) \in 1 .. (l - n) + 1 /\ ~(k - (n - 1) <= 1) /\ ~(k <= n - 1)
          /\ (k - (n - 1)) - 1 \in 1 .. l - n /\ n + ((k - (n - 1)) - 1) = k
      BY <1>1, <2>3
    <3>2. w[k] = e[k - (n - 1)]
      BY <1>8, <3>1
    <3>3. e[k - (n - 1)] = a[(k - (n - 1)) - 1]
      BY <1>7, <3>1
    <3>4. a[(k - (n - 1)) - 1] = s[n + ((k - (n - 1)) - 1)]
      BY <1>3, <3>1
    <3> QED BY <3>1, <3>2, <3>3, <3>4
  <2> QED BY <1>1, <2>1, <2>2, <2>3
<1>10. s = w
  BY <1>1, <1>8, <1>9, SeqEqual
<1>11. CutAt(s, n, b, a)
  BY <1>2, <1>4, <1>10 DEF CutAt, w, e
<1> QED BY <1>1, <1>2, <1>3, <1>4, <1>5, <1>6, <1>11

(* What GetMessageFromQueue() does to a queue.                             *)
LEMMA MessageTaken ==
  ASSUME NEW q, IsQueue(q), NEW n \in 1 .. Len(q.msgs)
  PROVE  LET c == GetMessageFromQueue(q, n)
         IN  /\ IsQueue(c) /\ c.key = q.key /\ c.msgs = RemoveAt(q.msgs, n)
             /\ c.msg_busy = q.msg_busy /\ c.msg_qbytes = q.msg_qbytes
             /\ c.msg_cbytes = q.msg_cbytes /\ c.msg_qnum = q.msg_qnum
<1> DEFINE l == RemoveAt(q.msgs, n)
<1>1. q.msgs \in Seq(Messages)
  BY DEF IsQueue
<1>2. l \in Seq(Messages)
  BY <1>1, OneRemoved
<1>3. GetMessageFromQueue(q, n) = [q EXCEPT !.msgs = l]
  BY DEF GetMessageFromQueue
<1> HIDE DEF l
<1>4. LET c == [q EXCEPT !.msgs = l]
      IN  /\ IsQueue(c) /\ c.key = q.key /\ c.msgs = l
          /\ c.msg_busy = q.msg_busy /\ c.msg_qbytes = q.msg_qbytes
          /\ c.msg_cbytes = q.msg_cbytes /\ c.msg_qnum = q.msg_qnum
  BY <1>2, ListChanged
<1> QED BY <1>3, <1>4 DEF l

(* What msgq_remove() leaves in a slot.                                    *)
LEMMA EmptySlotIs ==
  /\ IsQueue(EmptySlot) /\ EmptySlot.key = NoKey /\ EmptySlot.msg_busy = FALSE
  /\ EmptySlot.msgs = <<>> /\ EmptySlot.msg_cbytes = 0 /\ EmptySlot.msg_qnum = 0
  /\ EmptySlot.msg_qbytes = 0
<1>1. <<>> \in Seq(Messages)
  BY EmptySeq
<1> HIDE DEF Messages
<1> QED BY <1>1 DEF EmptySlot, IsQueue

(* A queue that msgget() has just created.                                 *)
NewQueue(q, key) ==
  /\ IsQueue(q) /\ q.key = key /\ q.msg_busy = FALSE
  /\ q.msgs = <<>> /\ q.msg_cbytes = 0 /\ q.msg_qnum = 0

(* What msgq_add() puts in a slot.                                         *)
LEMMA NewQueueIs ==
  ASSUME NEW t, NEW key, NEW msgflg
  PROVE  NewQueue(msgq_add(t, key, msgflg), key)
<1>1. <<>> \in Seq(Messages)
  BY EmptySeq
<1> HIDE DEF Messages
<1> DEFINE m == msgflg \ {<<"IPC", "CREAT">>, <<"IPC", "EXCL">>}
           u == ids[t].uid
           g == ids[t].gid
<1>2. msgq_add(t, key, msgflg) =
        [EmptySlot EXCEPT !.key = key, !.cuid = u, !.uid = u, !.gid = g,
                          !.mode = m, !.msg_qbytes = MQ_MAX_BYTES_IN_QUEUE]
  BY DEF msgq_add
<1> HIDE DEF m, u, g
<1>3. msgq_add(t, key, msgflg) =
        [key |-> key, msg_busy |-> FALSE, cuid |-> u, uid |-> u,
         gid |-> g, mode |-> m,
         msgs |-> <<>>, msg_cbytes |-> 0, msg_qnum |-> 0, msg_qbytes |-> MQ_MAX_BYTES_IN_QUEUE]
  BY <1>2 DEF EmptySlot
<1> QED BY <1>1, <1>3, LongSizeIsNat DEF IsQueue, NewQueue

(* Where the limit of a queue is 0 nothing fits.                           *)
LEMMA NothingFits ==
  ASSUME NEW q, IsQueue(q), NEW total \in Int, NEW n \in Nat,
         q.msg_cbytes = 0, q.msg_qbytes = 0
  PROVE  ~not_full(q, total, n, 0)
<1>1. Min({0, 0 \div 4}) = 0
  BY DEF Min
<1> QED BY <1>1, LongSizeIsNat DEF not_full

-----------------------------------------------------------------------------
(* The invariant about who waits on what, and the effects of a step.       *)

WaitStates == {"nothing", "q_guard", "e_qnf", "e_qne", "e_q_not_busy"}

(* The state is well formed.                                               *)
TypeInv ==
  /\ IsTable(mq) /\ b_current \in Int
  /\ sent \in [Slots -> Seq(Messages)] /\ got \in [Slots -> Seq(Messages)]
  /\ script \in [Threads -> Seq(AllCalls)] /\ id \in [Threads -> Int]
  /\ waits \in [Threads -> WaitStates]

(* A call that waits is one that can, on a queue of the table.             *)
Waiting ==
  \A t \in Threads : waits[t] # "nothing" =>
    /\ script[t] # <<>> /\ id[t] \in Slots
    /\ Call(t).op \in {"msgsnd", "msgrcv", "msgctl"}
    /\ Call(t).op = "msgctl" => Call(t).cmd = "IPC_RMID"
    /\ Call(t).op = "msgrcv" => ~Call(t).nowait

(* A queue that no two calls have shared is busy with the one call that    *)
(* waits on it.                                                            *)
BusyWhileUsed ==
  \A i \in Slots \ shared : \A t \in WaitingOn(i) :
    mq[i].msg_busy /\ mq[i].key # NoKey /\ WaitingOn(i) = {t}

(* A slot without a queue holds nothing.                                   *)
FreeIsEmpty ==
  \A i \in Slots : mq[i].key = NoKey =>
    mq[i].msgs = <<>> /\ mq[i].msg_cbytes = 0 /\ mq[i].msg_qnum = 0 /\ mq[i].msg_qbytes = 0

UseInv == TypeInv /\ Waiting /\ BusyWhileUsed /\ FreeIsEmpty

-----------------------------------------------------------------------------
(* The effects a step can have on the lists and counts.                    *)

(* What a step leaves alone: one slot, or all slots but one.               *)
SameSlot(j) == SameLists(mq[j], mq'[j]) /\ sent'[j] = sent[j] /\ got'[j] = got[j]

OthersSame(i) == \A j \in Slots \ {i} : SameSlot(j)

(* Nothing changes; or only the counts, when a call has asked in vain.     *)
KeptStep == (\A j \in Slots : SameSlot(j)) /\ b_current' = b_current /\ irregular' = irregular

MissedStep ==
  /\ \A j \in Slots : /\ mq'[j].key = mq[j].key /\ mq'[j].msgs = mq[j].msgs
                      /\ sent'[j] = sent[j] /\ got'[j] = got[j]
  /\ irregular' # {}

(* One message more at the end of a list, and of what was sent.            *)
SentStep(i, m) ==
  /\ OthersSame(i) /\ mq'[i].key = mq[i].key
  /\ mq'[i].msgs = Append(mq[i].msgs, m) /\ sent'[i] = Append(sent[i], m) /\ got'[i] = got[i]
  /\ \/ irregular' # {}
     \/ /\ irregular' = irregular /\ m.mlength > 0
        /\ mq'[i].msg_cbytes = mq[i].msg_cbytes + (m.mlength + LongSize)
        /\ b_current' = b_current + (m.mlength + LongSize)
        /\ mq'[i].msg_qnum = mq[i].msg_qnum + 1

(* One message less in a list, the first of its type, and one more in what *)
(* was taken.                                                              *)
TakenStep(i, n) ==
  LET m == mq[i].msgs[n]
  IN  /\ OthersSame(i) /\ mq'[i].key = mq[i].key
      /\ n \in 1 .. Len(mq[i].msgs) /\ \A k \in 1 .. n - 1 : mq[i].msgs[k].type # m.type
      /\ mq'[i].msgs = RemoveAt(mq[i].msgs, n) /\ got'[i] = Append(got[i], m) /\ sent'[i] = sent[i]
      /\ \/ irregular' # {}
         \/ /\ irregular' = irregular
            /\ mq'[i].msg_cbytes = mq[i].msg_cbytes - (m.mlength + LongSize)
            /\ b_current' = b_current - (m.mlength + LongSize)
            /\ mq'[i].msg_qnum = mq[i].msg_qnum - 1

(* A slot becomes empty; a slot gets a new queue.                          *)
RemovedStep(i) ==
  /\ OthersSame(i) /\ mq'[i] = EmptySlot /\ b_current' = b_current
  /\ irregular' # {} \/ (irregular' = irregular /\ mq[i].msg_cbytes = 0)

CreatedStep(i) ==
  /\ OthersSame(i) /\ mq[i].key = NoKey
  /\ mq'[i].msgs = <<>> /\ mq'[i].msg_cbytes = 0 /\ mq'[i].msg_qnum = 0
  /\ sent'[i] = <<>> /\ got'[i] = <<>> /\ b_current' = b_current /\ irregular' = irregular

DataStep ==
  \/ KeptStep \/ MissedStep
  \/ \E i \in Slots : \/ RemovedStep(i) \/ CreatedStep(i)
                      \/ \E m \in Messages : SentStep(i, m)
                      \/ \E n \in Nat : TakenStep(i, n)

-----------------------------------------------------------------------------
(* How a call ends or waits: what becomes of the scripts and of waits.     *)

(* A step ends the call of t, or leaves it waiting; the others wait on.    *)
OthersStand(t) ==
  \A o \in Threads \ {t} : /\ script'[o] = script[o] /\ id'[o] = id[o]
                           /\ waits'[o] = "nothing" <=> waits[o] = "nothing"

Gone(t) ==
  /\ script' \in [Threads -> Seq(AllCalls)] /\ waits' \in [Threads -> WaitStates]
  /\ OthersStand(t) /\ waits'[t] = "nothing"

Held(t) ==
  /\ script' = script /\ waits' \in [Threads -> WaitStates] /\ id' = id
  /\ OthersStand(t) /\ waits'[t] # "nothing"

(* A script without its current call is a script.                          *)
LEMMA TailTyped ==
  ASSUME TypeInv, NEW t \in Threads, script[t] # <<>>
  PROVE  [script EXCEPT ![t] = Tail(@)] \in [Threads -> Seq(AllCalls)]
<1>1. script[t] \in Seq(AllCalls) /\ script \in [Threads -> Seq(AllCalls)]
  BY DEF TypeInv
<1>2. Tail(script[t]) \in Seq(AllCalls)
  BY <1>1, HeadTailProperties
<1> QED BY <1>1, <1>2

(* A call that returns is gone, whoever it wakes.                          *)
LEMMA ReturnsGone ==
  ASSUME TypeInv, NEW t \in Threads, script[t] # <<>>, NEW cvs, "nothing" \notin cvs,
         Returns(t, cvs), \A o \in Threads \ {t} : id'[o] = id[o]
  PROVE  Gone(t)
<1>1. script' \in [Threads -> Seq(AllCalls)]
      /\ \A o \in Threads \ {t} : script'[o] = script[o]
  <2>1. script \in [Threads -> Seq(AllCalls)]
    BY DEF TypeInv
  <2>2. script' = [script EXCEPT ![t] = Tail(@)]
    BY DEF Returns
  <2> QED BY <2>1, <2>2, TailTyped
<1>2. waits \in [Threads -> WaitStates]
      /\ waits' = [Broadcast(cvs) EXCEPT ![t] = "nothing"]
  BY DEF TypeInv, Returns
<1>3. waits' = [o \in Threads |-> IF o = t THEN "nothing"
                                  ELSE IF waits[o] \in cvs THEN "q_guard" ELSE waits[o]]
  BY <1>2 DEF Broadcast
<1>4. waits' \in [Threads -> WaitStates] /\ waits'[t] = "nothing"
      /\ \A o \in Threads \ {t} : waits'[o] = "nothing" <=> waits[o] = "nothing"
  BY <1>2, <1>3 DEF WaitStates
<1> QED BY <1>1, <1>4 DEF Gone, OthersStand

(* A call that waits on a condition variable is held.                      *)
LEMMA WaitsHeld ==
  ASSUME TypeInv, NEW t \in Threads, NEW cv \in WaitStates \ {"nothing"}, WaitsOn(t, cv), id' = id
  PROVE  Held(t)
<1>1. waits' = [waits EXCEPT ![t] = cv] /\ script' = script /\ waits \in [Threads -> WaitStates]
  BY DEF WaitsOn, TypeInv
<1>2. waits' \in [Threads -> WaitStates] /\ waits'[t] = cv
      /\ \A o \in Threads \ {t} : waits'[o] = waits[o]
  BY <1>1
<1> QED BY <1>1, <1>2 DEF Held, OthersStand

(* A thread whose call is gone waits on no queue; for the others nothing   *)
(* changes.                                                                *)
LEMMA GoneStops ==
  ASSUME Waiting, NEW t \in Threads, Gone(t)
  PROVE  Waiting' /\ \A i : WaitingOn(i)' = WaitingOn(i) \ {t}
<1>1. ASSUME NEW o \in Threads, waits'[o] # "nothing"
      PROVE  /\ o # t /\ script'[o] = script[o] /\ id'[o] = id[o] /\ waits[o] # "nothing"
             /\ Call(o)' = Call(o)
  BY <1>1 DEF Gone, OthersStand, Call
<1>2. Waiting'
  BY <1>1 DEF Waiting
<1>3. ASSUME NEW i PROVE WaitingOn(i)' = WaitingOn(i) \ {t}
  <2>1. ASSUME NEW o \in Threads \ {t}
        PROVE  /\ waits'[o] = "nothing" <=> waits[o] = "nothing"
               /\ id'[o] = id[o] /\ Call(o)' = Call(o)
    BY DEF Gone, OthersStand, Call
  <2>2. waits'[t] = "nothing"
    BY DEF Gone
  <2> QED BY <2>1, <2>2 DEF WaitingOn
<1> QED BY <1>2, <1>3

(* A thread whose call is held waits on its queue if it sends or receives. *)
LEMMA HeldWaits ==
  ASSUME Waiting, NEW t \in Threads, Held(t), script[t] # <<>>, id[t] \in Slots,
         Call(t).op \in {"msgsnd", "msgrcv", "msgctl"},
         Call(t).op = "msgctl" => Call(t).cmd = "IPC_RMID",
         Call(t).op = "msgrcv" => ~Call(t).nowait
  PROVE  /\ Waiting'
         /\ \A i : WaitingOn(i)' = IF i = id[t] /\ Call(t).op \in {"msgsnd", "msgrcv"}
                                   THEN WaitingOn(i) \cup {t} ELSE WaitingOn(i) \ {t}
<1>1. ASSUME NEW o \in Threads
      PROVE  /\ script'[o] = script[o] /\ id'[o] = id[o] /\ Call(o)' = Call(o)
             /\ o # t => (waits'[o] = "nothing" <=> waits[o] = "nothing")
  BY <1>1 DEF Held, OthersStand, Call
<1>2. Waiting'
  BY <1>1 DEF Waiting
<1>3. waits'[t] # "nothing"
  BY DEF Held
<1>4. ASSUME NEW i
      PROVE  WaitingOn(i)' = IF i = id[t] /\ Call(t).op \in {"msgsnd", "msgrcv"}
                             THEN WaitingOn(i) \cup {t} ELSE WaitingOn(i) \ {t}
  BY <1>1, <1>3 DEF WaitingOn
<1> QED BY <1>2, <1>4

-----------------------------------------------------------------------------
(* The busy flag of the queue a call uses.                                 *)

(* msgsnd() and msgrcv() leave: only a queue that is shared loses its flag *)
(* early.                                                                  *)
LEMMA UserGone ==
  ASSUME Waiting, BusyWhileUsed, NEW t \in Threads, Gone(t),
         Call(t).op \in {"msgsnd", "msgrcv"}, Uses(t, id[t]),
         \A j \in Slots \ {id[t]} : mq'[j] = mq[j]
  PROVE  Waiting' /\ BusyWhileUsed'
<1> DEFINE i == id[t]
<1>1. Waiting' /\ \A j : WaitingOn(j)' = WaitingOn(j) \ {t}
  BY GoneStops
<1>2. shared \subseteq shared' /\ (Begins(t) /\ mq[i].msg_busy => i \in shared')
  BY DEF Uses
<1>3. ASSUME NEW j \in Slots \ shared', NEW o \in WaitingOn(j)'
      PROVE  mq'[j].msg_busy /\ mq'[j].key # NoKey /\ WaitingOn(j)' = {o}
  <2>1. o \in WaitingOn(j) /\ o # t /\ j \in Slots \ shared
    BY <1>1, <1>2
  <2>2. mq[j].msg_busy /\ mq[j].key # NoKey /\ WaitingOn(j) = {o}
    BY <2>1 DEF BusyWhileUsed
  <2>3. CASE j = i
    <3>1. ~Begins(t)
      BY <1>2, <2>2, <2>3
    <3>2. t \in WaitingOn(j)
      BY <2>3, <3>1 DEF WaitingOn, Begins
    <3> QED BY <2>1, <2>2, <3>2
  <2>4. CASE j # i
    BY <1>1, <2>1, <2>2, <2>4
  <2> QED BY <2>3, <2>4
<1> QED BY <1>1, <1>3 DEF BusyWhileUsed

(* msgsnd() and msgrcv() wait: the queue is busy with them alone, or       *)
(* shared.                                                                 *)
LEMMA UserHeld ==
  ASSUME Waiting, BusyWhileUsed, NEW t \in Threads, Held(t), script[t] # <<>>, id[t] \in Slots,
         Call(t).op \in {"msgsnd", "msgrcv"}, Call(t).op = "msgrcv" => ~Call(t).nowait,
         Uses(t, id[t]), \A j \in Slots \ {id[t]} : mq'[j] = mq[j],
         mq'[id[t]].msg_busy = IF Begins(t) THEN TRUE ELSE mq[id[t]].msg_busy,
         mq'[id[t]].key = mq[id[t]].key, Begins(t) => mq[id[t]].key # NoKey
  PROVE  Waiting' /\ BusyWhileUsed'
<1> DEFINE i == id[t]
<1>1. /\ Waiting' /\ WaitingOn(i)' = WaitingOn(i) \cup {t}
      /\ \A j : j # i => WaitingOn(j)' = WaitingOn(j) \ {t}
  <2>1. Call(t).op \in {"msgsnd", "msgrcv", "msgctl"} /\ Call(t).op # "msgctl"
    OBVIOUS
  <2>2. /\ Waiting'
        /\ \A j : WaitingOn(j)' = IF j = id[t] /\ Call(t).op \in {"msgsnd", "msgrcv"}
                                  THEN WaitingOn(j) \cup {t} ELSE WaitingOn(j) \ {t}
    BY <2>1, HeldWaits
  <2>3. id' = id
    BY DEF Held
  <2>4. \A j : j # i => WaitingOn(j)' = WaitingOn(j) \ {t}
    BY <2>2
  <2>5. WaitingOn(i)' = WaitingOn(i) \cup {t}
    BY <2>2, <2>3
  <2> QED BY <2>2, <2>4, <2>5
<1>2. shared \subseteq shared' /\ (Begins(t) /\ mq[i].msg_busy => i \in shared')
  BY DEF Uses
<1>3. ASSUME NEW j \in Slots \ shared', NEW o \in WaitingOn(j)'
      PROVE  mq'[j].msg_busy /\ mq'[j].key # NoKey /\ WaitingOn(j)' = {o}
  <2>1. CASE j = i
    <3>1. CASE Begins(t)
      <4>1. WaitingOn(i) = {}
        BY <1>2, <2>1, <3>1 DEF BusyWhileUsed
      <4> QED BY <1>1, <2>1, <3>1, <4>1
    <3>2. CASE ~Begins(t)
      <4>1. t \in WaitingOn(i)
        BY <3>2 DEF WaitingOn, Begins
      <4>2. mq[i].msg_busy /\ mq[i].key # NoKey /\ WaitingOn(i) = {t}
        BY <1>2, <2>1, <4>1 DEF BusyWhileUsed
      <4> QED BY <1>1, <2>1, <3>2, <4>2
    <3> QED BY <3>1, <3>2
  <2>2. CASE j # i
    <3>1. o \in WaitingOn(j) /\ o # t /\ j \in Slots \ shared
      BY <1>1, <1>2, <2>2
    <3>2. mq[j].msg_busy /\ mq[j].key # NoKey /\ WaitingOn(j) = {o}
      BY <3>1 DEF BusyWhileUsed
    <3> QED BY <1>1, <2>2, <3>1, <3>2
  <2> QED BY <2>1, <2>2
<1> QED BY <1>1, <1>3 DEF BusyWhileUsed

-----------------------------------------------------------------------------
(* What Min picks.                                                         *)
LEMMA MinIs ==
  ASSUME NEW M, M \subseteq Nat, M # {}
  PROVE  Min(M) \in M /\ \A k \in M : Min(M) <= k
<1> DEFINE R == OpToRel(<, Nat)
<1>1. IsWellFoundedOn(R, Nat)
  BY NatLessThanWellFounded
<1> HIDE DEF R
<1>2. PICK x \in M : \A y \in M : ~ (<<y, x>> \in R)
  BY <1>1, WFMin
<1> USE DEF R
<1>3. \A k \in M : x <= k
  <2> TAKE k \in M
  <2>1. k \in Nat /\ x \in Nat
    OBVIOUS
  <2>2. ~(k < x)
    BY <1>2, <2>1 DEF OpToRel
  <2> QED BY <2>1, <2>2
<1> QED BY <1>3 DEF Min

(* The smaller of two numbers.                                             *)
LEMMA MinOfTwo ==
  ASSUME NEW a \in Nat, NEW b \in Nat
  PROVE  Min({a, b}) = IF a <= b THEN a ELSE b
<1>1. Min({a, b}) \in {a, b} /\ Min({a, b}) <= a /\ Min({a, b}) <= b
  BY MinIs
<1> QED BY <1>1

-----------------------------------------------------------------------------
(* msgsnd().                                                               *)

(* The arguments of a call.                                                *)
LEMMA CallIs ==
  ASSUME TypeInv, NEW t \in Threads, script[t] # <<>>
  PROVE  /\ Call(t) \in AllCalls /\ Len(script[t]) \in Nat
         /\ Call(t).op \in {"msgsnd", "msgrcv"} => Call(t).type \in Int /\ Call(t).msgsz \in Nat
         /\ Call(t).op = "msgctl" => (Call(t).cmd = "IPC_SET" => Call(t).msg_qbytes \in Nat)
<1>1. script[t] \in Seq(AllCalls)
  BY DEF TypeInv
<1>2. Call(t) \in AllCalls
  BY <1>1, HeadTailProperties DEF Call
<1>3. Len(script[t]) \in Nat
  BY <1>1, LenProperties
<1> QED BY <1>2, <1>3, ProgramsAssumption

(* A step that changes the flag of a slot, or of no slot, and nothing      *)
(* else.                                                                   *)
LEMMA FlagChanged ==
  ASSUME IsTable(mq), NEW i, NEW b \in BOOLEAN, mq' = [mq EXCEPT ![i].msg_busy = b]
  PROVE  /\ IsTable(mq)' /\ \A j \in Slots \ {i} : mq'[j] = mq[j]
         /\ \A j \in Slots : /\ SameLists(mq[j], mq'[j]) /\ mq'[j].key = mq[j].key
                             /\ mq'[j].msg_qbytes = mq[j].msg_qbytes
         /\ i \in Slots => mq'[i].msg_busy = b
<1> DEFINE q == [mq[i] EXCEPT !.msg_busy = b]
<1>1. mq' = [mq EXCEPT ![i] = q]
  OBVIOUS
<1>2. CASE i \in Slots
  <2>1. IsQueue(mq[i])
    BY <1>2 DEF IsTable
  <2>2. IsQueue(q) /\ SameLists(mq[i], q) /\ q.msg_busy = b /\ q.msg_qbytes = mq[i].msg_qbytes
    BY <2>1, BusyChanged
  <2> HIDE DEF q
  <2>3. IsTable(mq') /\ mq'[i] = q /\ \A j \in Slots \ {i} : mq'[j] = mq[j]
    <3> DEFINE c == WithRow(mq, i, q)
    <3>1. IsTable(c) /\ c[i] = q /\ \A j \in Slots \ {i} : c[j] = mq[j]
      BY <1>2, <2>2, RowChanged
    <3>2. mq' = c
      BY <1>1 DEF WithRow
    <3> HIDE DEF c
    <3> QED BY <3>1, <3>2
  <2>4. IsTable(mq)'
    BY <2>3 DEF IsTable
  <2> QED BY <2>2, <2>3, <2>4 DEF SameLists
<1>3. CASE i \notin Slots
  <2> HIDE DEF q
  <2>1. mq = [j \in Slots |-> mq[j]]
    BY DEF IsTable
  <2>2. mq' = mq
    BY <1>1, <1>3, <2>1
  <2> QED BY <1>3, <2>2 DEF IsTable, SameLists
<1> QED BY <1>2, <1>3

(* Where lists, counts and limits stay, so do the empty slots.             *)
LEMMA FreeKept ==
  ASSUME FreeIsEmpty,
         \A j \in Slots : SameLists(mq[j], mq'[j]) /\ mq'[j].msg_qbytes = mq[j].msg_qbytes
  PROVE  FreeIsEmpty'
BY DEF FreeIsEmpty, SameLists

(* What msgsnd() sends is a message.                                       *)
LEMMA MessageIs ==
  ASSUME TypeInv, NEW t \in Threads, script[t] # <<>>, Call(t).op = "msgsnd"
  PROVE  Message(t) \in Messages /\ Message(t).mlength = Call(t).msgsz /\ Call(t).msgsz \in Nat
BY CallIs DEF Message, Messages

(* A slot that holds a queue and gets one with the same key.               *)
LEMMA QueueChanged ==
  ASSUME IsTable(mq), FreeIsEmpty, NEW i \in Slots, NEW q, IsQueue(q),
         q.key # NoKey, mq' = [mq EXCEPT ![i] = q]
  PROVE  /\ IsTable(mq)' /\ FreeIsEmpty' /\ mq'[i] = q
         /\ \A j \in Slots \ {i} : mq'[j] = mq[j]
<1>1. IsTable(mq') /\ mq'[i] = q /\ \A j \in Slots \ {i} : mq'[j] = mq[j]
  <2> DEFINE c == WithRow(mq, i, q)
  <2>1. IsTable(c) /\ c[i] = q /\ \A j \in Slots \ {i} : c[j] = mq[j]
    BY RowChanged
  <2>2. mq' = c
    BY DEF WithRow
  <2> HIDE DEF c
  <2> QED BY <2>1, <2>2
<1>2. FreeIsEmpty'
  BY <1>1 DEF FreeIsEmpty
<1> QED BY <1>1, <1>2 DEF IsTable

(* msgsnd() keeps the invariant and has one of the effects.                *)
LEMMA SendKeeps ==
  ASSUME UseInv, NEW t \in Threads, msgsnd(t)
  PROVE  UseInv' /\ DataStep
<1> DEFINE i == id[t]
<1> USE DEF UseInv
<1>1. /\ script[t] # <<>> /\ Call(t).op = "msgsnd" /\ Uses(t, i) /\ id' = id /\ id \in [Threads -> Int]
      /\ \A o \in Threads \ {t} : id'[o] = id[o]
  BY DEF msgsnd, Calls, TypeInv
<1>2. ~Begins(t) => i \in Slots
  BY DEF Waiting, Begins
<1>3. ~(Begins(t) /\ SendRefused(t, i)) => i \in Slots /\ (Begins(t) => mq[i].key # NoKey)
  BY <1>2 DEF SendRefused, msgq_valid
<1>4. CASE Begins(t) /\ SendRefused(t, i)
  <2>1. /\ NotBusy(i) /\ Returns(t, {"e_q_not_busy"})
        /\ UNCHANGED <<q_current, b_current, history>>
    BY <1>4 DEF msgsnd
  <2>2. Gone(t)
    BY <1>1, <2>1, ReturnsGone
  <2>3. /\ IsTable(mq)' /\ \A j \in Slots \ {i} : mq'[j] = mq[j]
        /\ \A j \in Slots : SameLists(mq[j], mq'[j]) /\ mq'[j].msg_qbytes = mq[j].msg_qbytes
    BY <2>1, FlagChanged DEF NotBusy, TypeInv
  <2>4. Waiting' /\ BusyWhileUsed'
    BY <1>1, <2>2, <2>3, UserGone
  <2>5. TypeInv'
    BY <1>1, <2>1, <2>2, <2>3 DEF TypeInv, Gone, history
  <2>6. FreeIsEmpty'
    BY <2>3, FreeKept
  <2>7. KeptStep
    BY <2>1, <2>3 DEF KeptStep, SameSlot, history
  <2> QED BY <2>4, <2>5, <2>6, <2>7 DEF DataStep
<1>5. CASE ~(Begins(t) /\ SendRefused(t, i)) /\ not_full(mq[i], b_current, Call(t).msgsz, 0)
  <2>1. Sent(t, i)
    BY <1>5 DEF msgsnd
  <2> DEFINE m == Message(t)
             p == PlaceMessageInQueue(mq[i], m)
             u == update_status(p, Call(t).msgsz)
             q == [u EXCEPT !.msg_busy = FALSE]
  <2>2. m \in Messages /\ m.mlength = Call(t).msgsz /\ Call(t).msgsz \in Nat
    BY <1>1, MessageIs
  <2>3. i \in Slots /\ IsQueue(mq[i])
    BY <1>3, <1>5 DEF TypeInv, IsTable
  <2>4. mq' = [mq EXCEPT ![i] = q]
    BY <2>1 DEF Sent, SentTo
  <2>5. /\ IsQueue(p) /\ p.key = mq[i].key /\ p.msgs = Append(mq[i].msgs, m)
        /\ p.msg_cbytes = mq[i].msg_cbytes /\ p.msg_qnum = mq[i].msg_qnum
    BY <2>2, <2>3, MessagePlaced
  <2>6. mq[i].key # NoKey
    <3>1. b_current \in Int
      BY DEF TypeInv
    <3> QED BY <1>5, <2>2, <2>3, <3>1, NothingFits DEF FreeIsEmpty
  <2> HIDE DEF p
  <2>7. /\ IsQueue(u) /\ u.key = p.key /\ u.msgs = p.msgs
        /\ u.msg_cbytes = p.msg_cbytes + Bytes(Call(t).msgsz)
        /\ u.msg_qnum = IF Call(t).msgsz > 0 THEN p.msg_qnum + 1
                        ELSE IF Call(t).msgsz < 0 THEN p.msg_qnum - 1 ELSE p.msg_qnum
    <3>1. Call(t).msgsz \in Int
      BY <2>2
    <3> QED BY <2>5, <3>1, StatusUpdated
  <2> HIDE DEF u
  <2>8. IsQueue(q) /\ SameLists(u, q)
    BY <2>7, BusyChanged
  <2> HIDE DEF q
  <2>9. q.key # NoKey
    BY <2>5, <2>6, <2>7, <2>8 DEF SameLists
  <2>10. IsTable(mq)' /\ FreeIsEmpty' /\ mq'[i] = q /\ \A j \in Slots \ {i} : mq'[j] = mq[j]
    BY <2>3, <2>4, <2>8, <2>9, QueueChanged DEF TypeInv
  <2>11. Returns(t, {"e_qne", "e_q_not_busy"})
    BY <2>1 DEF Sent, SentTo
  <2>12. Gone(t)
    BY <1>1, <2>11, ReturnsGone
  <2>13. Waiting' /\ BusyWhileUsed'
    BY <1>1, <2>10, <2>12, UserGone
  <2>14. Bytes(Call(t).msgsz) = Call(t).msgsz + LongSize /\ Bytes(Call(t).msgsz) \in Int
    BY <2>2, LongSizeIsNat DEF Bytes
  <2>15. /\ sent \in [Slots -> Seq(Messages)] /\ got \in [Slots -> Seq(Messages)]
         /\ sent' = [sent EXCEPT ![i] = Append(@, m)] /\ got' = got
         /\ b_current' = b_current + Bytes(Call(t).msgsz) /\ b_current \in Int
         /\ irregular' = irregular \cup IF Call(t).msgsz = 0 THEN {"empty"} ELSE {}
    BY <2>1 DEF Sent, SentTo, TypeInv
  <2>16. Append(sent[i], m) \in Seq(Messages)
    <3>1. sent[i] \in Seq(Messages)
      BY <2>3, <2>15
    <3> QED BY <2>2, <3>1, AppendProperties
  <2>17. /\ sent' \in [Slots -> Seq(Messages)] /\ sent'[i] = Append(sent[i], m)
         /\ \A j \in Slots \ {i} : sent'[j] = sent[j]
    <3> HIDE DEF m
    <3> QED BY <2>3, <2>15, <2>16
  <2> HIDE DEF m
  <2>18. TypeInv'
    BY <1>1, <2>10, <2>12, <2>14, <2>15, <2>17 DEF TypeInv, Gone
  <2>19. OthersSame(i)
    BY <2>10, <2>15, <2>17 DEF OthersSame, SameSlot, SameLists
  <2>20. /\ mq'[i].key = mq[i].key /\ mq'[i].msgs = Append(mq[i].msgs, m)
         /\ mq'[i].msg_cbytes = mq[i].msg_cbytes + (m.mlength + LongSize)
         /\ m.mlength > 0 => mq'[i].msg_qnum = mq[i].msg_qnum + 1
    BY <2>2, <2>5, <2>7, <2>8, <2>10, <2>14 DEF SameLists
  <2>21. irregular' # {} \/ (irregular' = irregular /\ m.mlength > 0)
    BY <2>2, <2>15
  <2>22. SentStep(i, m)
    BY <2>2, <2>14, <2>15, <2>17, <2>19, <2>20, <2>21 DEF SentStep
  <2> QED BY <2>2, <2>3, <2>10, <2>13, <2>18, <2>22 DEF DataStep
<1>6. CASE ~(Begins(t) /\ SendRefused(t, i)) /\ ~not_full(mq[i], b_current, Call(t).msgsz, 0)
  <2> DEFINE b == IF Begins(t) THEN TRUE ELSE mq[i].msg_busy
  <2>1. /\ mq' = [mq EXCEPT ![i].msg_busy = b] /\ WaitsOn(t, "e_qnf")
        /\ UNCHANGED <<q_current, b_current, history>>
    BY <1>6 DEF msgsnd
  <2>2. i \in Slots /\ IsQueue(mq[i]) /\ (Begins(t) => mq[i].key # NoKey)
    BY <1>3, <1>6 DEF TypeInv, IsTable
  <2>3. b \in BOOLEAN
    BY <2>2 DEF IsQueue
  <2> HIDE DEF b
  <2>4. Held(t)
    <3>1. "e_qnf" \in WaitStates \ {"nothing"}
      BY DEF WaitStates
    <3> QED BY <1>1, <2>1, <3>1, WaitsHeld
  <2>5. /\ IsTable(mq)' /\ \A j \in Slots \ {i} : mq'[j] = mq[j]
        /\ \A j \in Slots : SameLists(mq[j], mq'[j]) /\ mq'[j].msg_qbytes = mq[j].msg_qbytes
        /\ mq'[i].msg_busy = b /\ mq'[i].key = mq[i].key
    BY <2>1, <2>2, <2>3, FlagChanged DEF TypeInv
  <2>6. Waiting' /\ BusyWhileUsed'
    <3>1. mq'[i].msg_busy = IF Begins(t) THEN TRUE ELSE mq[i].msg_busy
      BY <2>5 DEF b
    <3>2. Call(t).op \in {"msgsnd", "msgrcv"} /\ (Call(t).op = "msgrcv" => ~Call(t).nowait)
      BY <1>1
    <3> QED BY <1>1, <2>2, <2>4, <2>5, <3>1, <3>2, UserHeld
  <2>7. TypeInv'
    BY <1>1, <2>1, <2>4, <2>5 DEF TypeInv, Held, history
  <2>8. FreeIsEmpty'
    BY <2>5, FreeKept
  <2>9. KeptStep
    BY <2>1, <2>5 DEF KeptStep, SameSlot, history
  <2> QED BY <2>6, <2>7, <2>8, <2>9 DEF DataStep
<1> QED BY <1>4, <1>5, <1>6

-----------------------------------------------------------------------------
(* msgrcv().                                                               *)

(* The end of msgrcv(): the counts follow what was transferred.            *)
LEMMA ReceivedEffect ==
  ASSUME UseInv, NEW t \in Threads, script[t] # <<>>, id' = id, id[t] \in Slots,
         Call(t).op \in {"msgsnd", "msgrcv"}, Uses(t, id[t]),
         NEW queue, IsQueue(queue), queue.key # NoKey, NEW n \in Nat,
         Received(t, id[t], queue, n)
  PROVE  LET i == id[t]
         IN  /\ IsTable(mq)' /\ FreeIsEmpty' /\ Waiting' /\ BusyWhileUsed' /\ Gone(t)
             /\ b_current' \in Int /\ \A j \in Slots \ {i} : mq'[j] = mq[j]
             /\ mq'[i].key = queue.key /\ mq'[i].msgs = queue.msgs
             /\ n > 0 => /\ mq'[i].msg_cbytes = queue.msg_cbytes - (n + LongSize)
                         /\ mq'[i].msg_qnum = queue.msg_qnum - 1
                         /\ b_current' = b_current - (n + LongSize)
<1> USE DEF UseInv
<1> DEFINE i == id[t]
           u == update_status(queue, -n)
           q == [u EXCEPT !.msg_busy = FALSE]
<1>1. -n \in Int /\ Bytes(-n) \in Int /\ (n > 0 => Bytes(-n) = -(n + LongSize))
  BY LongSizeIsNat DEF Bytes
<1>2. /\ IsQueue(u) /\ u.key = queue.key /\ u.msgs = queue.msgs
      /\ u.msg_cbytes = queue.msg_cbytes + Bytes(-n)
      /\ u.msg_qnum = IF -n > 0 THEN queue.msg_qnum + 1
                      ELSE IF -n < 0 THEN queue.msg_qnum - 1 ELSE queue.msg_qnum
  BY <1>1, StatusUpdated
<1>3. mq' = [mq EXCEPT ![i] = q] /\ b_current' = b_current + Bytes(-n)
  BY DEF Received
<1> HIDE DEF u
<1>4. IsQueue(q) /\ SameLists(u, q)
  BY <1>2, BusyChanged
<1> HIDE DEF q
<1>5. q.key # NoKey
  BY <1>2, <1>4 DEF SameLists
<1>6. IsTable(mq)' /\ FreeIsEmpty' /\ mq'[i] = q /\ \A j \in Slots \ {i} : mq'[j] = mq[j]
  BY <1>3, <1>4, <1>5, QueueChanged DEF TypeInv
<1>7. PICK cvs : Returns(t, cvs) /\ "nothing" \notin cvs
  BY DEF Received
<1>8. Gone(t)
  BY <1>7, ReturnsGone
<1>9. Waiting' /\ BusyWhileUsed'
  BY <1>6, <1>8, UserGone
<1>10. b_current \in Int /\ b_current' \in Int
  BY <1>1, <1>3 DEF TypeInv
<1>11. queue.msg_cbytes \in Int /\ queue.msg_qnum \in Int
  BY DEF IsQueue
<1>12. ASSUME n > 0
       PROVE  /\ mq'[i].msg_cbytes = queue.msg_cbytes - (n + LongSize)
              /\ mq'[i].msg_qnum = queue.msg_qnum - 1
              /\ b_current' = b_current - (n + LongSize)
  <2>1. mq'[i].msg_cbytes = u.msg_cbytes /\ mq'[i].msg_qnum = u.msg_qnum
    BY <1>4, <1>6 DEF SameLists
  <2>2. ~(-n > 0) /\ -n < 0
    BY <1>12
  <2> QED BY <1>1, <1>2, <1>3, <1>10, <1>11, <1>12, <2>1, <2>2, LongSizeIsNat
<1> QED BY <1>2, <1>4, <1>6, <1>8, <1>9, <1>10, <1>12 DEF SameLists

(* msgrcv() waits for a message.                                           *)
LEMMA ReceiverHeld ==
  ASSUME UseInv, NEW t \in Threads, script[t] # <<>>, id' = id, id[t] \in Slots,
         Call(t).op = "msgrcv", ~Call(t).nowait, Uses(t, id[t]), WaitsOn(t, "e_qne"),
         Begins(t) => mq[id[t]].key # NoKey,
         IsTable(mq)', \A j \in Slots \ {id[t]} : mq'[j] = mq[j],
         mq'[id[t]].key = mq[id[t]].key,
         mq'[id[t]].msg_busy = IF Begins(t) THEN TRUE ELSE mq[id[t]].msg_busy
  PROVE  Waiting' /\ BusyWhileUsed' /\ Held(t)
<1>1. Held(t)
  <2>1. "e_qne" \in WaitStates \ {"nothing"}
    BY DEF WaitStates
  <2> QED BY <2>1, WaitsHeld DEF UseInv
<1>2. Call(t).op \in {"msgsnd", "msgrcv"}
  OBVIOUS
<1> QED BY <1>1, <1>2, UserHeld DEF UseInv

(* msgrcv() takes the first message of the type that is asked for.         *)
LEMMA TakesFirst ==
  ASSUME TypeInv, NEW i \in Slots, NEW type \in Int, Matching(i, type) # {}
  PROVE  LET n == Takes(i, type)
         IN  /\ n \in 1 .. Len(mq[i].msgs)
             /\ \A k \in 1 .. n - 1 : mq[i].msgs[k].type # mq[i].msgs[n].type
<1> DEFINE M == Matching(i, type)  l == mq[i].msgs
<1>1. l \in Seq(Messages)
  BY DEF TypeInv, IsTable, IsQueue
<1>2. Len(l) \in Nat /\ DOMAIN l = 1 .. Len(l)
  BY <1>1, LenProperties
<1>3. M = {k \in 1 .. Len(l) : type = 0 \/ (type > 0 /\ l[k].type = type)}
  BY <1>2 DEF Matching
<1>4. M \subseteq Nat
  BY <1>2, <1>3
<1> HIDE DEF M, l
<1> DEFINE n == Min(M)
<1>5. n \in M /\ \A k \in M : n <= k
  BY <1>4, MinIs DEF M
<1>6. Takes(i, type) = n
  BY DEF Takes, M
<1> HIDE DEF n
<1>7. n \in 1 .. Len(l)
  BY <1>3, <1>5
<1>8. ASSUME NEW k \in 1 .. n - 1 PROVE l[k].type # l[n].type
  <2>1. k \in 1 .. Len(l) /\ ~(n <= k)
    BY <1>2, <1>7
  <2>2. k \notin M
    BY <1>5, <2>1
  <2> QED BY <1>3, <1>5, <2>1, <2>2
<1> QED BY <1>6, <1>7, <1>8 DEF l

(* msgrcv() takes a message, and returns or goes on waiting.               *)
LEMMA ReceiveTakes ==
  ASSUME UseInv, NEW t \in Threads, script[t] # <<>>, id' = id, id[t] \in Slots,
         Call(t).op = "msgrcv", Uses(t, id[t]), sent' = sent,
         mq[id[t]].key # NoKey, Matching(id[t], Call(t).type) # {},
         ReceiveMessage(t, id[t], Takes(id[t], Call(t).type))
  PROVE  UseInv' /\ TakenStep(id[t], Takes(id[t], Call(t).type))
<1> USE DEF UseInv
<1> DEFINE i == id[t]
           n == Takes(i, Call(t).type)
           m == mq[i].msgs[n]
           bytes == Min({m.mlength, Call(t).msgsz})
           taken == GetMessageFromQueue(mq[i], n)
<1>1. Call(t).type \in Int /\ Call(t).msgsz \in Nat
  BY CallIs
<1>2. n \in 1 .. Len(mq[i].msgs) /\ \A k \in 1 .. n - 1 : mq[i].msgs[k].type # m.type
  BY <1>1, TakesFirst
<1>3. IsQueue(mq[i])
  BY DEF TypeInv, IsTable
<1>4. m \in Messages
  <2>1. mq[i].msgs \in Seq(Messages)
    BY <1>3 DEF IsQueue
  <2> QED BY <1>2, <2>1, ElementOfSeq
<1>5. m.mlength \in Nat
  BY <1>4 DEF Messages
<1>6. /\ got' = [got EXCEPT ![i] = Append(@, m)]
      /\ irregular' = irregular \cup (IF bytes < m.mlength THEN {"truncated"} ELSE {}) \cup
                        (IF bytes = 0 THEN {"empty"} ELSE {})
      /\ IF bytes > 0 \/ Call(t).nowait THEN Received(t, i, taken, bytes)
         ELSE /\ mq' = [mq EXCEPT ![i] = [taken EXCEPT !.msg_busy = IF Begins(t) THEN TRUE ELSE @]]
              /\ WaitsOn(t, "e_qne") /\ UNCHANGED b_current
  BY DEF ReceiveMessage
<1> HIDE DEF n
<1>7. /\ IsQueue(taken) /\ taken.key = mq[i].key /\ taken.msgs = RemoveAt(mq[i].msgs, n)
      /\ taken.msg_busy = mq[i].msg_busy
      /\ taken.msg_cbytes = mq[i].msg_cbytes /\ taken.msg_qnum = mq[i].msg_qnum
  BY <1>2, <1>3, MessageTaken
<1> HIDE DEF taken, m
<1>8. /\ bytes \in Nat /\ bytes <= m.mlength
      /\ (bytes < m.mlength \/ bytes = 0) \/ (bytes = m.mlength /\ bytes > 0)
  <2> DEFINE l == m.mlength  z == Call(t).msgsz
  <2>1. l \in Nat /\ z \in Nat
    BY <1>1, <1>5
  <2> HIDE DEF l, z
  <2>2. Min({l, z}) = IF l <= z THEN l ELSE z
    BY <2>1, MinOfTwo
  <2>3. bytes = Min({l, z})
    BY DEF l, z
  <2> HIDE DEF bytes
  <2>4. bytes \in Nat /\ bytes <= l
    BY <2>1, <2>2, <2>3
  <2> QED BY <2>1, <2>4 DEF l
<1> HIDE DEF bytes
<1>9. /\ bytes < m.mlength \/ bytes = 0 => irregular' # {}
      /\ bytes = m.mlength /\ bytes > 0 => irregular' = irregular
  BY <1>5, <1>6, <1>8
<1>10. /\ got' \in [Slots -> Seq(Messages)] /\ got'[i] = Append(got[i], m)
       /\ \A j \in Slots \ {i} : got'[j] = got[j]
  <2>1. got \in [Slots -> Seq(Messages)] /\ got[i] \in Seq(Messages)
    BY DEF TypeInv
  <2>2. Append(got[i], m) \in Seq(Messages)
    BY <1>4, <2>1, AppendProperties
  <2> QED BY <1>6, <2>1, <2>2
<1>11. CASE bytes > 0 \/ Call(t).nowait
  <2>1. /\ IsTable(mq)' /\ FreeIsEmpty' /\ Waiting' /\ BusyWhileUsed' /\ Gone(t)
        /\ b_current' \in Int /\ \A j \in Slots \ {i} : mq'[j] = mq[j]
        /\ mq'[i].key = taken.key /\ mq'[i].msgs = taken.msgs
        /\ bytes > 0 => /\ mq'[i].msg_cbytes = taken.msg_cbytes - (bytes + LongSize)
                        /\ mq'[i].msg_qnum = taken.msg_qnum - 1
                        /\ b_current' = b_current - (bytes + LongSize)
    <3>1. Received(t, id[t], taken, bytes)
      BY <1>6, <1>11
    <3>2. Call(t).op \in {"msgsnd", "msgrcv"} /\ taken.key # NoKey
      BY <1>7
    <3> QED BY <1>7, <1>8, <3>1, <3>2, ReceivedEffect
  <2>2. TypeInv'
    BY <1>10, <2>1 DEF TypeInv, Gone
  <2>3. OthersSame(i)
    BY <1>10, <2>1 DEF OthersSame, SameSlot, SameLists
  <2>4. TakenStep(i, n)
    BY <1>2, <1>7, <1>8, <1>9, <1>10, <2>1, <2>3 DEF TakenStep, m
  <2> QED BY <2>1, <2>2, <2>4 DEF n
<1>12. CASE ~(bytes > 0 \/ Call(t).nowait)
  <2> DEFINE b == IF Begins(t) THEN TRUE ELSE taken.msg_busy
             q == [taken EXCEPT !.msg_busy = b]
  <2>1. mq' = [mq EXCEPT ![i] = q] /\ WaitsOn(t, "e_qne") /\ b_current' = b_current
    BY <1>6, <1>12
  <2>2. b \in BOOLEAN
    BY <1>7 DEF IsQueue
  <2> HIDE DEF b
  <2>3. IsQueue(q) /\ SameLists(taken, q) /\ q.msg_busy = b
    BY <1>7, <2>2, BusyChanged
  <2> HIDE DEF q
  <2>4. q.key # NoKey
    BY <1>7, <2>3 DEF SameLists
  <2>5. IsTable(mq)' /\ FreeIsEmpty' /\ mq'[i] = q /\ \A j \in Slots \ {i} : mq'[j] = mq[j]
    BY <2>1, <2>3, <2>4, QueueChanged DEF TypeInv
  <2>6. mq'[i].key = mq[i].key
        /\ mq'[i].msg_busy = IF Begins(t) THEN TRUE ELSE mq[i].msg_busy
    BY <1>7, <2>3, <2>5 DEF SameLists, b
  <2>7. Waiting' /\ BusyWhileUsed' /\ Held(t)
    <3>1. ~Call(t).nowait
      BY <1>12
    <3> QED BY <2>1, <2>5, <2>6, <3>1, ReceiverHeld
  <2>8. TypeInv'
    BY <1>10, <2>1, <2>5, <2>7 DEF TypeInv, Held
  <2>9. OthersSame(i)
    BY <1>10, <2>5 DEF OthersSame, SameSlot, SameLists
  <2>10. bytes = 0
    BY <1>8, <1>12
  <2>11. TakenStep(i, n)
    BY <1>2, <1>7, <1>9, <1>10, <2>3, <2>5, <2>6, <2>9, <2>10 DEF TakenStep, m, SameLists
  <2> QED BY <2>5, <2>7, <2>8, <2>11 DEF n
<1> QED BY <1>11, <1>12

(* msgrcv() keeps the invariant and has one of the effects.                *)
LEMMA ReceiveKeeps ==
  ASSUME UseInv, NEW t \in Threads, msgrcv(t)
  PROVE  UseInv' /\ DataStep
<1> DEFINE i == id[t]
           matching == message_exists(i) /\ Matching(i, Call(t).type) # {}
<1> USE DEF UseInv
<1>1. /\ script[t] # <<>> /\ Call(t).op = "msgrcv" /\ Uses(t, i) /\ id' = id /\ id \in [Threads -> Int]
      /\ \A o \in Threads \ {t} : id'[o] = id[o]
      /\ sent' = sent
  BY DEF msgrcv, Calls, TypeInv
<1>2. ~Begins(t) => i \in Slots /\ ~Call(t).nowait
  BY <1>1 DEF Waiting, Begins
<1>3. ~(Begins(t) /\ ReceiveRefused(t, i)) => i \in Slots /\ (Begins(t) => mq[i].key # NoKey)
  BY <1>2 DEF ReceiveRefused, msgq_valid
<1>4. CASE Begins(t) /\ ReceiveRefused(t, i)
  <2>1. /\ NotBusy(i) /\ Returns(t, {"e_q_not_busy"}) /\ UNCHANGED <<b_current, got, irregular>>
    BY <1>4 DEF msgrcv
  <2>2. Gone(t)
    BY <1>1, <2>1, ReturnsGone
  <2>3. /\ IsTable(mq)' /\ \A j \in Slots \ {i} : mq'[j] = mq[j]
        /\ \A j \in Slots : SameLists(mq[j], mq'[j]) /\ mq'[j].msg_qbytes = mq[j].msg_qbytes
    BY <2>1, FlagChanged DEF NotBusy, TypeInv
  <2>4. Waiting' /\ BusyWhileUsed'
    BY <1>1, <2>2, <2>3, UserGone
  <2>5. TypeInv'
    BY <1>1, <2>1, <2>2, <2>3 DEF TypeInv, Gone
  <2>6. FreeIsEmpty'
    BY <2>3, FreeKept
  <2>7. KeptStep
    BY <1>1, <2>1, <2>3 DEF KeptStep, SameSlot
  <2> QED BY <2>4, <2>5, <2>6, <2>7 DEF DataStep
<1>5. CASE ~(Begins(t) /\ ReceiveRefused(t, i)) /\ matching
  <2>1. ReceiveMessage(t, i, Takes(i, Call(t).type))
    BY <1>5 DEF msgrcv
  <2>2. i \in Slots /\ mq[i].key # NoKey
    BY <1>3, <1>5 DEF message_exists, msgq_valid
  <2>3. UseInv' /\ TakenStep(i, Takes(i, Call(t).type))
    BY <1>1, <1>5, <2>1, <2>2, ReceiveTakes
  <2>4. Takes(i, Call(t).type) \in Nat
    BY <2>3 DEF TakenStep
  <2> QED BY <2>2, <2>3, <2>4 DEF DataStep
<1>6. CASE ~(Begins(t) /\ ReceiveRefused(t, i)) /\ ~matching /\ Call(t).nowait
  <2>1. Received(t, i, mq[i], 0) /\ irregular' = irregular \cup {"missed"} /\ got' = got
    BY <1>6 DEF msgrcv, NoMessage
  <2>2. i \in Slots /\ mq[i].key # NoKey /\ IsQueue(mq[i])
    BY <1>2, <1>3, <1>6 DEF TypeInv, IsTable
  <2>3. /\ IsTable(mq)' /\ FreeIsEmpty' /\ Waiting' /\ BusyWhileUsed' /\ Gone(t)
        /\ b_current' \in Int /\ \A j \in Slots \ {i} : mq'[j] = mq[j]
        /\ mq'[i].key = mq[i].key /\ mq'[i].msgs = mq[i].msgs
    <3>1. Call(t).op \in {"msgsnd", "msgrcv"} /\ 0 \in Nat
      BY <1>1
    <3> QED BY <1>1, <2>1, <2>2, <3>1, ReceivedEffect
  <2>4. TypeInv'
    BY <1>1, <2>1, <2>3 DEF TypeInv, Gone
  <2>5. MissedStep
    BY <1>1, <2>1, <2>3 DEF MissedStep
  <2> QED BY <2>3, <2>4, <2>5 DEF DataStep
<1>7. CASE ~(Begins(t) /\ ReceiveRefused(t, i)) /\ ~matching /\ ~Call(t).nowait
  <2> DEFINE b == IF Begins(t) THEN TRUE ELSE mq[i].msg_busy
  <2>1. /\ mq' = [mq EXCEPT ![i].msg_busy = b] /\ WaitsOn(t, "e_qne")
        /\ b_current' = b_current /\ irregular' = irregular /\ got' = got
    BY <1>7 DEF msgrcv, NoMessage
  <2>2. i \in Slots /\ IsQueue(mq[i]) /\ (Begins(t) => mq[i].key # NoKey)
    BY <1>3, <1>7 DEF TypeInv, IsTable
  <2>3. b \in BOOLEAN
    BY <2>2 DEF IsQueue
  <2> HIDE DEF b
  <2>4. /\ IsTable(mq)' /\ \A j \in Slots \ {i} : mq'[j] = mq[j]
        /\ \A j \in Slots : SameLists(mq[j], mq'[j]) /\ mq'[j].msg_qbytes = mq[j].msg_qbytes
        /\ mq'[i].msg_busy = b /\ mq'[i].key = mq[i].key
    BY <2>1, <2>2, <2>3, FlagChanged DEF TypeInv
  <2>5. mq'[i].msg_busy = IF Begins(t) THEN TRUE ELSE mq[i].msg_busy
    BY <2>4 DEF b
  <2>6. Waiting' /\ BusyWhileUsed' /\ Held(t)
    BY <1>1, <1>7, <2>1, <2>2, <2>4, <2>5, ReceiverHeld
  <2>7. TypeInv'
    BY <1>1, <2>1, <2>4, <2>6 DEF TypeInv, Held
  <2>8. FreeIsEmpty'
    BY <2>4, FreeKept
  <2>9. KeptStep
    BY <1>1, <2>1, <2>4 DEF KeptStep, SameSlot
  <2> QED BY <2>6, <2>7, <2>8, <2>9 DEF DataStep
<1> QED BY <1>4, <1>5, <1>6, <1>7

-----------------------------------------------------------------------------
(* msgctl().                                                               *)

(* A step that touches neither the table nor the history.                  *)
LEMMA Untouched ==
  ASSUME TypeInv, FreeIsEmpty, mq' = mq, b_current' = b_current, UNCHANGED <<sent, got, irregular>>
  PROVE  IsTable(mq)' /\ FreeIsEmpty' /\ KeptStep
BY DEF TypeInv, FreeIsEmpty, KeptStep, SameSlot, SameLists

(* A queue with the owner, mode and limit that IPC_SET gives it.           *)
WithLimit(q, u, o, g, d, z) ==
  [q EXCEPT !.uid = u, !.cuid = o, !.gid = g, !.mode = d, !.msg_qbytes = z]

(* What IPC_SET does to a queue.                                           *)
LEMMA LimitChanged ==
  ASSUME NEW q, IsQueue(q), NEW u, NEW o, NEW g, NEW d, NEW z \in Nat
  PROVE  LET c == WithLimit(q, u, o, g, d, z)
         IN  IsQueue(c) /\ SameLists(q, c) /\ c.msg_busy = q.msg_busy
<1> HIDE DEF Messages
<1> DEFINE a == [q EXCEPT !.uid = u]
           b == [a EXCEPT !.cuid = o]
           c == [b EXCEPT !.gid = g]
           e == [c EXCEPT !.mode = d]
           f == [e EXCEPT !.msg_qbytes = z]
<1>1. IsQueue(a) /\ SameLists(q, a) /\ a.msg_busy = q.msg_busy
  BY DEF IsQueue, SameLists
<1>2. WithLimit(q, u, o, g, d, z) = f
  BY DEF WithLimit
<1> HIDE DEF a
<1>3. IsQueue(b) /\ SameLists(a, b) /\ b.msg_busy = a.msg_busy
  BY <1>1 DEF IsQueue, SameLists
<1> HIDE DEF b
<1>4. IsQueue(c) /\ SameLists(b, c) /\ c.msg_busy = b.msg_busy
  BY <1>3 DEF IsQueue, SameLists
<1> HIDE DEF c
<1>5. IsQueue(e) /\ SameLists(c, e) /\ e.msg_busy = c.msg_busy
  BY <1>4 DEF IsQueue, SameLists
<1> HIDE DEF e
<1>6. IsQueue(f) /\ SameLists(e, f) /\ f.msg_busy = e.msg_busy
  BY <1>5 DEF IsQueue, SameLists
<1> HIDE DEF f
<1> QED BY <1>1, <1>2, <1>3, <1>4, <1>5, <1>6 DEF SameLists

(* Who waits on what changes only where a call begins to wait or ends.     *)
LEMMA NonUserGone ==
  ASSUME Waiting, BusyWhileUsed, NEW t \in Threads, Gone(t), shared' = shared,
         \A i \in Slots \ shared : WaitingOn(i) # {} => mq'[i].msg_busy = mq[i].msg_busy
                                                        /\ mq'[i].key = mq[i].key,
         waits[t] = "nothing" \/ Call(t).op \notin {"msgsnd", "msgrcv"}
  PROVE  Waiting' /\ BusyWhileUsed'
<1>1. Waiting' /\ \A j : WaitingOn(j)' = WaitingOn(j) \ {t}
  BY GoneStops
<1>2. \A j : t \notin WaitingOn(j)
  BY DEF WaitingOn
<1>3. \A j : WaitingOn(j)' = WaitingOn(j)
  BY <1>1, <1>2
<1> QED BY <1>1, <1>3 DEF BusyWhileUsed

(* msgctl() keeps the invariant and has one of the effects.                *)
LEMMA ControlKeeps ==
  ASSUME UseInv, NEW t \in Threads, Call(t).op = "msgctl", msgctl(t)
  PROVE  UseInv' /\ DataStep
<1> DEFINE i == id[t]
<1> USE DEF UseInv
<1>1. /\ script[t] # <<>> /\ id' = id /\ id \in [Threads -> Int] /\ shared' = shared
      /\ \A o \in Threads \ {t} : id'[o] = id[o]
      /\ Call(t).op \notin {"msgsnd", "msgrcv"}
  BY DEF msgctl, Calls, TypeInv
<1>2. ~Begins(t) => i \in Slots /\ Call(t).cmd = "IPC_RMID"
  BY <1>1 DEF Waiting, Begins
<1>3. ASSUME Gone(t), mq' = mq, b_current' = b_current, UNCHANGED <<sent, got, irregular>>
      PROVE  UseInv' /\ DataStep
  <2>1. Waiting' /\ BusyWhileUsed'
    BY <1>1, <1>3, NonUserGone
  <2>2. IsTable(mq)' /\ FreeIsEmpty' /\ KeptStep
    BY <1>3, Untouched
  <2>3. TypeInv'
    BY <1>1, <1>3, <2>2 DEF TypeInv, Gone
  <2> QED BY <2>1, <2>2, <2>3 DEF DataStep
<1>4. CASE Begins(t) /\ ~msgq_valid(i)
  <2>1. CtlInvalid(t)
    BY <1>4 DEF msgctl
  <2>2. script' \in [Threads -> Seq(AllCalls)] /\ \A o \in Threads \ {t} : script'[o] = script[o]
    <3>1. script \in [Threads -> Seq(AllCalls)] /\ script' = [script EXCEPT ![t] = Tail(@)]
      BY <2>1 DEF TypeInv, CtlInvalid
    <3> QED BY <1>1, <3>1, TailTyped
  <2>3. /\ waits' \in [Threads -> WaitStates] /\ waits'[t] = "nothing"
        /\ \A o \in Threads \ {t} : waits'[o] = waits[o]
    <3>1. waits \in [Threads -> WaitStates] /\ waits' = [waits EXCEPT ![t] = "nothing"]
      BY <2>1 DEF TypeInv, CtlInvalid
    <3> QED BY <3>1 DEF WaitStates
  <2>4. Gone(t)
    BY <1>1, <2>2, <2>3 DEF Gone, OthersStand
  <2> QED BY <1>3, <2>1, <2>4 DEF CtlInvalid, table, history
<1>5. CASE ~(Begins(t) /\ ~msgq_valid(i)) /\ Call(t).cmd = "IPC_SET"
  <2>1. SetQueue(t, i)
    BY <1>5 DEF msgctl
  <2>2. i \in Slots /\ mq[i].key # NoKey /\ IsQueue(mq[i])
    BY <1>2, <1>5 DEF msgq_valid, TypeInv, IsTable
  <2>3. Gone(t)
    BY <1>1, <2>1, ReturnsGone DEF SetQueue
  <2>4. b_current' = b_current /\ UNCHANGED <<sent, got, irregular>>
    BY <2>1 DEF SetQueue, history
  <2>5. CASE ~MayChange(t, i)
    <3>1. mq' = mq
      BY <2>1, <2>5 DEF SetQueue
    <3> QED BY <1>3, <2>3, <2>4, <3>1
  <2>6. CASE MayChange(t, i)
    <3> DEFINE u == Call(t).uid
               o == Call(t).cuid
               g == Call(t).gid
               d == Call(t).mode
               z == IF Call(t).msg_qbytes > mq[i].msg_qbytes /\ ids[t].uid # 0
                    THEN mq[i].msg_qbytes ELSE Call(t).msg_qbytes
               q == WithLimit(mq[i], u, o, g, d, z)
    <3>1. mq' = [mq EXCEPT ![i] = q]
      BY <2>1, <2>6 DEF SetQueue, WithLimit
    <3>2. z \in Nat
      <4>1. Call(t).msg_qbytes \in Nat
        BY <1>1, <1>5, CallIs
      <4>2. mq[i].msg_qbytes \in Nat
        BY <2>2 DEF IsQueue
      <4> QED BY <4>1, <4>2
    <3> HIDE DEF u, o, g, d, z
    <3>3. IsQueue(q) /\ SameLists(mq[i], q) /\ q.msg_busy = mq[i].msg_busy
      BY <2>2, <3>2, LimitChanged
    <3> HIDE DEF q
    <3>4. q.key # NoKey
      BY <2>2, <3>3 DEF SameLists
    <3>5. IsTable(mq)' /\ FreeIsEmpty' /\ mq'[i] = q /\ \A j \in Slots \ {i} : mq'[j] = mq[j]
      BY <2>2, <3>1, <3>3, <3>4, QueueChanged DEF TypeInv
    <3>6. \A j \in Slots : /\ mq'[j].msg_busy = mq[j].msg_busy /\ mq'[j].key = mq[j].key
                           /\ SameLists(mq[j], mq'[j])
      BY <2>2, <3>3, <3>5 DEF SameLists
    <3>7. Waiting' /\ BusyWhileUsed'
      BY <1>1, <2>3, <3>6, NonUserGone
    <3>8. TypeInv'
      BY <1>1, <2>3, <2>4, <3>5 DEF TypeInv, Gone
    <3>9. KeptStep
      BY <2>4, <3>6 DEF KeptStep, SameSlot
    <3> QED BY <3>5, <3>7, <3>8, <3>9 DEF DataStep
  <2> QED BY <2>5, <2>6
<1>6. CASE ~(Begins(t) /\ ~msgq_valid(i)) /\ Call(t).cmd = "IPC_RMID"
  <2>1. RemoveQueue(t, i)
    BY <1>6 DEF msgctl
  <2>2. i \in Slots
    BY <1>2, <1>6 DEF msgq_valid
  <2> DEFINE refused == Begins(t) /\ ~MayChange(t, i)
  <2>3. CASE refused
    <3>1. Returns(t, {}) /\ UNCHANGED <<table, history>>
      BY <2>1, <2>3 DEF RemoveQueue
    <3>2. Gone(t)
      <4>1. "nothing" \notin {}
        OBVIOUS
      <4> QED BY <1>1, <3>1, <4>1, ReturnsGone
    <3> QED BY <1>3, <3>1, <3>2 DEF table, history
  <2>4. CASE ~refused /\ mq[i].msg_busy
    <3>1. WaitsOn(t, "e_q_not_busy") /\ UNCHANGED <<table, history>>
      BY <2>1, <2>4 DEF RemoveQueue
    <3>2. Held(t)
      <4>1. "e_q_not_busy" \in WaitStates \ {"nothing"}
        BY DEF WaitStates
      <4> QED BY <1>1, <3>1, <4>1, WaitsHeld
    <3>3. /\ Waiting'
          /\ \A j : WaitingOn(j)' = IF j = id[t] /\ Call(t).op \in {"msgsnd", "msgrcv"}
                                    THEN WaitingOn(j) \cup {t} ELSE WaitingOn(j) \ {t}
      <4>1. Call(t).op \in {"msgsnd", "msgrcv", "msgctl"} /\ Call(t).op # "msgrcv"
        OBVIOUS
      <4> QED BY <1>1, <1>6, <2>2, <3>2, <4>1, HeldWaits
    <3>4. \A j : t \notin WaitingOn(j)
      BY <1>1 DEF WaitingOn
    <3>5. \A j : WaitingOn(j)' = WaitingOn(j)
      BY <1>1, <3>3, <3>4
    <3>6. mq' = mq /\ b_current' = b_current /\ UNCHANGED <<sent, got, irregular>>
      BY <3>1 DEF table, history
    <3>7. BusyWhileUsed'
      BY <1>1, <3>5, <3>6 DEF BusyWhileUsed
    <3>8. IsTable(mq)' /\ FreeIsEmpty' /\ KeptStep
      BY <3>6, Untouched
    <3>9. TypeInv'
      BY <1>1, <3>2, <3>6, <3>8 DEF TypeInv, Held
    <3> QED BY <3>3, <3>7, <3>8, <3>9 DEF DataStep
  <2>5. CASE ~refused /\ ~mq[i].msg_busy
    <3>0. Removed(t, i)
      BY <2>1, <2>5 DEF RemoveQueue
    <3>1. /\ mq' = [mq EXCEPT ![i] = EmptySlot]
          /\ irregular' = irregular \cup IF mq[i].msg_cbytes # 0 THEN {"removed"} ELSE {}
          /\ Returns(t, {}) /\ UNCHANGED <<q_current, b_current, sent, got>>
      BY <3>0 DEF Removed
    <3>2. Gone(t)
      <4>1. "nothing" \notin {}
        OBVIOUS
      <4> QED BY <1>1, <3>1, <4>1, ReturnsGone
    <3>4. mq' = [mq EXCEPT ![i] = EmptySlot] /\ ~mq[i].msg_busy
      BY <2>5, <3>1
    <3>5. IsTable(mq') /\ mq'[i] = EmptySlot /\ \A j \in Slots \ {i} : mq'[j] = mq[j]
      <4> DEFINE c == WithRow(mq, i, EmptySlot)
      <4>1. IsTable(c) /\ c[i] = EmptySlot /\ \A j \in Slots \ {i} : c[j] = mq[j]
        BY <2>2, EmptySlotIs, RowChanged DEF TypeInv
      <4>2. mq' = c
        BY <3>4 DEF WithRow
      <4> HIDE DEF c
      <4> QED BY <4>1, <4>2
    <3>6. i \notin shared => WaitingOn(i) = {}
      BY <2>2, <3>4 DEF BusyWhileUsed
    <3>7. Waiting' /\ BusyWhileUsed'
      <4>1. \A j \in Slots \ shared : WaitingOn(j) # {} => mq'[j].msg_busy = mq[j].msg_busy
                                                          /\ mq'[j].key = mq[j].key
        BY <3>5, <3>6
      <4> QED BY <1>1, <3>2, <4>1, NonUserGone
    <3>8. TypeInv'
      BY <1>1, <3>1, <3>2, <3>5 DEF TypeInv, Gone, IsTable
    <3>9. FreeIsEmpty'
      BY <3>5, EmptySlotIs DEF FreeIsEmpty
    <3>10. OthersSame(i)
      BY <3>1, <3>5 DEF OthersSame, SameSlot, SameLists
    <3>11. RemovedStep(i)
      BY <3>1, <3>5, <3>10 DEF RemovedStep
    <3> QED BY <2>2, <3>7, <3>8, <3>9, <3>11 DEF DataStep
  <2> HIDE DEF refused
  <2> QED BY <2>3, <2>4, <2>5
<1>7. CASE ~(Begins(t) /\ ~msgq_valid(i)) /\ Call(t).cmd \notin {"IPC_SET", "IPC_RMID"}
  <2>1. Returns(t, {}) /\ UNCHANGED <<table, history>>
    BY <1>7 DEF msgctl
  <2>2. Gone(t)
    <3>1. "nothing" \notin {}
      OBVIOUS
    <3> QED BY <1>1, <2>1, <3>1, ReturnsGone
  <2> QED BY <1>3, <2>1, <2>2 DEF table, history
<1> QED BY <1>4, <1>5, <1>6, <1>7

-----------------------------------------------------------------------------
(* msgget(), the other steps, and the first theorems.                      *)

(* msgget() keeps the invariant and has one of the effects.                *)
LEMMA GetKeeps ==
  ASSUME UseInv, NEW t \in Threads, NEW op \in {"msgget", "msgget_again"}, msgget(t, op)
  PROVE  UseInv' /\ DataStep
<1> USE DEF UseInv
<1> DEFINE found == IF Call(t).key = IPC_PRIVATE THEN {} ELSE msgq_lookup(Call(t).key)
<1>1. /\ script[t] # <<>> /\ Call(t).op = op /\ shared' = shared /\ Returns(t, {})
      /\ id \in [Threads -> Int]
      /\ IF found # {} THEN Found(t, Min(found))
         ELSE IF q_current <= MSG_MAX_NUMBER_QUEUES /\ FreeSlots # {}
         THEN Created(t, Min(FreeSlots))
         ELSE id' = [id EXCEPT ![t] = -1] /\ UNCHANGED <<table, history>>
  BY DEF msgget, Calls, TypeInv
<1>2. waits[t] = "nothing"
  BY <1>1 DEF Waiting
<1>3. found \subseteq Slots /\ FreeSlots \subseteq Slots /\ Slots \subseteq Nat
  BY LongSizeIsNat DEF msgq_lookup, FreeSlots, Slots
<1>4. ASSUME NEW n \in Int, id' = [id EXCEPT ![t] = n]
      PROVE  id' \in [Threads -> Int] /\ Gone(t)
  <2>1. id' \in [Threads -> Int] /\ \A o \in Threads \ {t} : id'[o] = id[o]
    BY <1>1, <1>4
  <2>2. "nothing" \notin {}
    OBVIOUS
  <2> QED BY <1>1, <2>1, <2>2, ReturnsGone
<1>5. ASSUME NEW n \in Int, id' = [id EXCEPT ![t] = n], UNCHANGED <<table, history>>
      PROVE  UseInv' /\ DataStep
  <2>1. mq' = mq /\ b_current' = b_current /\ UNCHANGED <<sent, got, irregular>>
    BY <1>5 DEF table, history
  <2>2. id' \in [Threads -> Int] /\ Gone(t)
    BY <1>4, <1>5
  <2>3. Waiting' /\ BusyWhileUsed'
    BY <1>1, <1>2, <2>1, <2>2, NonUserGone
  <2>4. IsTable(mq)' /\ FreeIsEmpty' /\ KeptStep
    BY <2>1, Untouched
  <2>5. TypeInv'
    BY <2>1, <2>2, <2>4 DEF TypeInv, Gone
  <2> QED BY <2>3, <2>4, <2>5 DEF DataStep
<1> HIDE DEF found
<1>6. CASE found # {}
  <2>1. Min(found) \in Int
    <3>1. found \subseteq Nat /\ found # {}
      BY <1>3, <1>6
    <3> DEFINE n == Min(found)
    <3>2. n \in found
      BY <3>1, MinIs
    <3> HIDE DEF n
    <3>3. n \in Nat
      BY <3>1, <3>2
    <3>4. n \in Int
      BY <3>3
    <3> QED BY <3>4 DEF n
  <2> DEFINE n == IF \/ {<<"IPC", "CREAT">>, <<"IPC", "EXCL">>} \subseteq Call(t).msgflg
                     \/ ~msgq_grants(Min(found), Call(t).msgflg)
                  THEN -1 ELSE Min(found)
  <2>2. id' = [id EXCEPT ![t] = n] /\ UNCHANGED <<table, history>>
    BY <1>1, <1>6 DEF Found
  <2>3. n \in Int
    BY <2>1
  <2> HIDE DEF n
  <2> QED BY <1>5, <2>2, <2>3
<1>7. CASE found = {} /\ ~(q_current <= MSG_MAX_NUMBER_QUEUES /\ FreeSlots # {})
  <2>1. id' = [id EXCEPT ![t] = -1] /\ UNCHANGED <<table, history>> /\ -1 \in Int
    BY <1>1, <1>7
  <2> QED BY <1>5, <2>1
<1>8. CASE found = {} /\ q_current <= MSG_MAX_NUMBER_QUEUES /\ FreeSlots # {}
  <2> DEFINE i == Min(FreeSlots)
             q == msgq_add(t, Call(t).key, Call(t).msgflg)
  <2>1. i \in Slots /\ mq[i].key = NoKey /\ i \in Int
    <3>1. i \in FreeSlots
      <4> DEFINE F == FreeSlots
      <4>1. F \subseteq Nat /\ F # {}
        BY <1>3, <1>8
      <4> HIDE DEF F
      <4>2. Min(F) \in F
        BY <4>1, MinIs
      <4> QED BY <4>2 DEF F
    <3> HIDE DEF i
    <3>2. i \in Nat
      BY <1>3, <3>1
    <3> QED BY <1>3, <3>1, <3>2 DEF FreeSlots
  <2>2. /\ mq' = [mq EXCEPT ![i] = q] /\ id' = [id EXCEPT ![t] = i]
        /\ sent' = [sent EXCEPT ![i] = <<>>] /\ got' = [got EXCEPT ![i] = <<>>]
        /\ b_current' = b_current /\ irregular' = irregular
    BY <1>1, <1>8 DEF Created
  <2>3. /\ IsQueue(q) /\ q.key = Call(t).key /\ q.msg_busy = FALSE
        /\ q.msgs = <<>> /\ q.msg_cbytes = 0 /\ q.msg_qnum = 0
    <3>1. NewQueue(q, Call(t).key)
      BY NewQueueIs
    <3> QED BY <3>1 DEF NewQueue
  <2>4. Call(t).key # NoKey
    BY <1>8, <2>1, MsgEmulationAssumption DEF found, msgq_lookup
  <2> HIDE DEF i, q
  <2>5. q.key # NoKey
    BY <2>3, <2>4
  <2>6. IsTable(mq)' /\ FreeIsEmpty' /\ mq'[i] = q /\ \A j \in Slots \ {i} : mq'[j] = mq[j]
    BY <2>1, <2>2, <2>3, <2>5, QueueChanged DEF TypeInv
  <2>7. id' \in [Threads -> Int] /\ Gone(t)
    BY <1>4, <2>1, <2>2
  <2>8. i \in Slots \ shared => WaitingOn(i) = {}
    BY <2>1 DEF BusyWhileUsed
  <2>9. \A j \in Slots \ shared : WaitingOn(j) # {} => mq'[j].msg_busy = mq[j].msg_busy
                                                      /\ mq'[j].key = mq[j].key
    BY <2>6, <2>8
  <2>10. Waiting' /\ BusyWhileUsed'
    BY <1>1, <1>2, <2>7, <2>9, NonUserGone
  <2>11. /\ sent' \in [Slots -> Seq(Messages)] /\ got' \in [Slots -> Seq(Messages)]
         /\ sent'[i] = <<>> /\ got'[i] = <<>>
         /\ \A j \in Slots \ {i} : sent'[j] = sent[j] /\ got'[j] = got[j]
    <3>1. /\ sent \in [Slots -> Seq(Messages)] /\ got \in [Slots -> Seq(Messages)]
          /\ <<>> \in Seq(Messages)
      BY EmptySeq DEF TypeInv
    <3> QED BY <2>1, <2>2, <3>1
  <2>12. TypeInv'
    BY <2>2, <2>6, <2>7, <2>11 DEF TypeInv, Gone
  <2>13. OthersSame(i)
    BY <2>6, <2>11 DEF OthersSame, SameSlot, SameLists
  <2>14. CreatedStep(i)
    BY <2>1, <2>2, <2>3, <2>6, <2>11, <2>13 DEF CreatedStep
  <2> QED BY <2>1, <2>6, <2>10, <2>12, <2>14 DEF DataStep
<1> QED BY <1>6, <1>7, <1>8

(* The steps outside of the calls that use the table.                      *)
OffTable(t) == SetIds(t) \/ (id[t] = -1 /\ Aborts(t)) \/ NeedsNoOther(t) \/ Awaits(t)

(* So do the steps outside of the table,                                   *)
LEMMA OffTableKeeps ==
  ASSUME UseInv, NEW t \in Threads, OffTable(t)
  PROVE  UseInv' /\ DataStep
<1> USE DEF UseInv
<1>1. /\ script[t] # <<>> /\ UNCHANGED <<table, id, waits, history, shared>>
      /\ \/ script' = [script EXCEPT ![t] = Tail(@)]
         \/ script' = [script EXCEPT ![t] = <<>>]
  BY DEF OffTable, SetIds, Aborts, NeedsNoOther, HasAnother, Awaits
<1>2. waits[t] = "nothing"
  <2>1. SetIds(t) \/ NeedsNoOther(t) \/ Awaits(t) =>
          Call(t).op \in {"em_set_all_ids", "msgget_again", "pthread_join"}
    BY DEF SetIds, NeedsNoOther, HasAnother, Awaits
  <2>2. id[t] = -1 => id[t] \notin Slots
    BY LongSizeIsNat DEF Slots
  <2> QED BY <2>1, <2>2 DEF OffTable, Waiting
<1>3. script' \in [Threads -> Seq(AllCalls)] /\ \A o \in Threads \ {t} : script'[o] = script[o]
  <2>1. script \in [Threads -> Seq(AllCalls)] /\ <<>> \in Seq(AllCalls)
    BY EmptySeq DEF TypeInv
  <2> QED BY <1>1, <2>1, TailTyped
<1>4. Gone(t)
  BY <1>1, <1>2, <1>3 DEF Gone, OthersStand, TypeInv
<1>5. mq' = mq /\ b_current' = b_current /\ UNCHANGED <<sent, got, irregular>> /\ id' = id
      /\ shared' = shared
  BY <1>1 DEF table, history
<1>6. Waiting' /\ BusyWhileUsed'
  BY <1>2, <1>4, <1>5, NonUserGone
<1>7. IsTable(mq)' /\ FreeIsEmpty' /\ KeptStep
  BY <1>5, Untouched
<1>8. TypeInv'
  BY <1>4, <1>5, <1>7 DEF TypeInv, Gone
<1> QED BY <1>6, <1>7, <1>8 DEF DataStep

(* a wait that ends early,                                                 *)
LEMMA TimeoutKeeps ==
  ASSUME UseInv, NEW t \in Threads, Timeout(t)
  PROVE  UseInv' /\ DataStep
<1> USE DEF UseInv
<1>1. /\ waits[t] # "nothing" /\ waits' = [waits EXCEPT ![t] = "q_guard"]
      /\ mq' = mq /\ b_current' = b_current /\ UNCHANGED <<script, id, sent, got, irregular, shared>>
  BY DEF Timeout, table, history
<1>2. waits' \in [Threads -> WaitStates]
      /\ \A o \in Threads : waits'[o] = "nothing" <=> waits[o] = "nothing"
  <2>1. waits \in [Threads -> WaitStates]
    BY DEF TypeInv
  <2> QED BY <1>1, <2>1 DEF WaitStates
<1>3. \A o \in Threads : Call(o)' = Call(o)
  BY <1>1 DEF Call
<1>4. Waiting'
  BY <1>1, <1>2, <1>3 DEF Waiting
<1>5. \A j : WaitingOn(j)' = WaitingOn(j)
  BY <1>1, <1>2, <1>3 DEF WaitingOn
<1>6. BusyWhileUsed'
  BY <1>1, <1>5 DEF BusyWhileUsed
<1>7. IsTable(mq)' /\ FreeIsEmpty' /\ KeptStep
  BY <1>1, Untouched
<1>8. TypeInv'
  BY <1>1, <1>2, <1>7 DEF TypeInv
<1> QED BY <1>4, <1>6, <1>7, <1>8 DEF DataStep

(* a step of nobody,                                                       *)
LEMMA StutterKeeps ==
  ASSUME UseInv, UNCHANGED vars
  PROVE  UseInv' /\ DataStep
<1>1. /\ mq' = mq /\ b_current' = b_current
      /\ UNCHANGED <<script, id, waits, sent, got, irregular, shared>>
  BY DEF vars, table, history
<1>2. \A o : Call(o)' = Call(o)
  BY <1>1 DEF Call
<1>3. \A j : WaitingOn(j)' = WaitingOn(j)
  BY <1>1, <1>2 DEF WaitingOn
<1>4. IsTable(mq)' /\ FreeIsEmpty' /\ KeptStep
  BY <1>1, Untouched DEF UseInv
<1>5. Waiting' /\ BusyWhileUsed' /\ TypeInv'
  BY <1>1, <1>2, <1>3, <1>4 DEF UseInv, Waiting, BusyWhileUsed, TypeInv
<1> QED BY <1>4, <1>5 DEF UseInv, DataStep

(* and with them every step.                                               *)
LEMMA StepKeeps ==
  ASSUME UseInv, [Next]_vars
  PROVE  UseInv' /\ DataStep
<1>1. CASE UNCHANGED vars
  BY <1>1, StutterKeeps
<1>2. CASE Next
  <2>1. PICK t \in Threads : Step(t)
    BY <1>2 DEF Next
  <2>2. CASE OffTable(t)
    BY <2>2, OffTableKeeps
  <2>3. CASE \E op \in {"msgget", "msgget_again"} : msgget(t, op)
    BY <2>3, GetKeeps
  <2>4. CASE msgsnd(t)
    BY <2>4, SendKeeps
  <2>5. CASE msgrcv(t)
    BY <2>5, ReceiveKeeps
  <2>6. CASE msgctl(t)
    <3>1. Call(t).op = "msgctl"
      BY <2>6 DEF msgctl, Calls
    <3> QED BY <2>6, <3>1, ControlKeeps
  <2>7. CASE Timeout(t)
    BY <2>7, TimeoutKeeps
  <2> QED BY <2>1, <2>2, <2>3, <2>4, <2>5, <2>6, <2>7 DEF Step, OffTable
<1> QED BY <1>1, <1>2

(* The invariant holds at the start.                                       *)
LEMMA InitUse == Init => UseInv
<1> SUFFICES ASSUME Init PROVE UseInv
  OBVIOUS
<1>1. mq = [i \in Slots |-> EmptySlot] /\ b_current = 0
      /\ script \in Programs /\ id = [t \in Threads |-> 0]
      /\ waits = [t \in Threads |-> "nothing"]
      /\ sent = [i \in Slots |-> <<>>] /\ got = [i \in Slots |-> <<>>]
  BY DEF Init
<1>2. IsTable(mq)
  <2>1. mq = [i \in Slots |-> mq[i]] /\ \A i \in Slots : mq[i] = EmptySlot
    BY <1>1
  <2> QED BY <2>1, EmptySlotIs DEF IsTable
<1>3. script \in [Threads -> Seq(AllCalls)]
  BY <1>1, ProgramsAssumption
<1>4. <<>> \in Seq(Messages)
  BY EmptySeq
<1>5. TypeInv
  <2> HIDE DEF Messages
  <2> QED BY <1>1, <1>2, <1>3, <1>4 DEF TypeInv, WaitStates
<1>6. Waiting /\ \A i : WaitingOn(i) = {}
  BY <1>1 DEF Waiting, WaitingOn
<1>7. FreeIsEmpty
  BY <1>1, EmptySlotIs DEF FreeIsEmpty
<1> QED BY <1>5, <1>6, <1>7 DEF UseInv, BusyWhileUsed

(***************************************************************************)
(* The inductive invariant: the state is well formed, what waits is a call *)
(* that can wait, a queue that is not shared is busy with the one call     *)
(* that waits on it, and an empty slot holds nothing.                      *)
(***************************************************************************)
THEOREM UseInvHolds == Spec => []UseInv
<1>1. UseInv /\ [Next]_vars => UseInv'
  BY StepKeeps
<1> QED BY <1>1, InitUse, PTL DEF Spec

(***************************************************************************)
(* msg_emulation.c:864-869, for any number of threads, queues and calls    *)
(* and for any sizes: msgctl() does not remove a queue on which a call     *)
(* waits, unless two calls have used that queue at the same time.          *)
(***************************************************************************)
THEOREM UsedIsNotRemoved == Spec => []NotRemovedUnshared
<1>1. UseInv => NotRemovedUnshared
  BY DEF UseInv, BusyWhileUsed, NotRemovedUnshared, msgq_valid
<1> QED BY <1>1, UseInvHolds, PTL

-----------------------------------------------------------------------------
(* The order of the messages.                                              *)

(* What was taken and what is still listed are what was sent.              *)
Ordered(taken, listed, all, type) == OfType(taken, type) \o OfType(listed, type) = OfType(all, type)

InOrder ==
  \A i \in Slots : mq[i].key # NoKey =>
    \A type \in Int : Ordered(got[i], mq[i].msgs, sent[i], type)

-----------------------------------------------------------------------------
(* Concatenation is associative.                                           *)
LEMMA Grouped ==
  ASSUME NEW S, NEW a \in Seq(S), NEW b \in Seq(S), NEW c \in Seq(S)
  PROVE  (a \o b) \o c = a \o (b \o c)
BY ConcatAssociative

(* The messages of one type, with one message more.                        *)
LEMMA OfTypeAppend ==
  ASSUME NEW S, NEW s \in Seq(S), NEW m \in S, NEW type
  PROVE  OfType(Append(s, m), type) = OfType(s, type) \o OfType(<<m>>, type)
<1> DEFINE o == <<m>>
<1>1. o \in Seq(S)
  OBVIOUS
<1>2. Append(s, m) = s \o o
  OBVIOUS
<1> HIDE DEF o
<1>3. OfType(s \o o, type) = OfType(s, type) \o OfType(o, type)
  BY <1>1, OfTypeConcat
<1> QED BY <1>2, <1>3 DEF o

(* The messages of one type in three parts of a list.                      *)
PartsOfType(b, o, a, type) ==
  OfType(b \o (o \o a), type) = OfType(b, type) \o (OfType(o, type) \o OfType(a, type))

(* The messages of one type in three parts.                                *)
LEMMA OfTypeOfThree ==
  ASSUME NEW S, NEW b \in Seq(S), NEW o \in Seq(S), NEW a \in Seq(S), NEW type
  PROVE  PartsOfType(b, o, a, type)
<1> DEFINE e == o \o a
<1>1. e \in Seq(S)
  BY ConcatProperties
<1>2. OfType(e, type) = OfType(o, type) \o OfType(a, type)
  BY OfTypeConcat
<1> HIDE DEF e
<1>3. OfType(b \o e, type) = OfType(b, type) \o OfType(e, type)
  BY <1>1, OfTypeConcat
<1> QED BY <1>2, <1>3 DEF e, PartsOfType

(* A message put at the end of the list and of what was sent.              *)
LEMMA PutInOrder ==
  ASSUME NEW S, NEW g \in Seq(S), NEW l \in Seq(S), NEW s \in Seq(S), NEW m \in S, NEW type,
         Ordered(g, l, s, type)
  PROVE  Ordered(g, Append(l, m), Append(s, m), type)
<1> DEFINE G == OfType(g, type)  L == OfType(l, type)  T == OfType(s, type)
           O == OfType(<<m>>, type)
<1>1. OfType(Append(l, m), type) = L \o O /\ OfType(Append(s, m), type) = T \o O
  BY OfTypeAppend
<1>2. G \in Seq(S) /\ L \in Seq(S) /\ O \in Seq(S)
  <2>1. <<m>> \in Seq(S)
    OBVIOUS
  <2> QED BY <2>1, OfTypeTyped
<1>3. G \o L = T
  BY DEF Ordered
<1> HIDE DEF G, L, T, O
<1>4. (G \o L) \o O = G \o (L \o O)
  BY <1>2, Grouped
<1>5. T \o O = G \o (L \o O)
  BY <1>3, <1>4
<1> QED BY <1>1, <1>5 DEF G, Ordered

(* A part taken from the middle, where nothing of the type is before it or *)
(* nothing of the type is in it.                                           *)
PartMoves(g, b, o, a) == (g \o o) \o (b \o a) = g \o (b \o (o \o a))

(* A part that is taken from the middle of a list and kept at the end of   *)
(* another list: nothing else moves.                                       *)
LEMMA PartTaken ==
  ASSUME NEW S, NEW g \in Seq(S), NEW b \in Seq(S), NEW o \in Seq(S), NEW a \in Seq(S),
         b = <<>> \/ o = <<>>
  PROVE  PartMoves(g, b, o, a)
<1>1. o \o a \in Seq(S) /\ (g \o o) \o a = g \o (o \o a)
  BY ConcatProperties, Grouped
<1>2. CASE b = <<>>
  <2>1. b \o a = a /\ b \o (o \o a) = o \o a
    BY <1>1, <1>2, ConcatEmptySeq
  <2> QED BY <1>1, <2>1 DEF PartMoves
<1>3. CASE o = <<>>
  <2>1. g \o o = g /\ o \o a = a
    BY <1>3, ConcatEmptySeq
  <2> QED BY <2>1 DEF PartMoves
<1> QED BY <1>2, <1>3

(* No message of the type; a part moved, as its type sees it.              *)
NoneOf(s, type) == OfType(s, type) = <<>>

TypeMoves(g, b, o, a, type) ==
  OfType(g \o o, type) \o OfType(b \o a, type) = OfType(g, type) \o OfType(b \o (o \o a), type)

(* So it is for the messages of one type.                                  *)
LEMMA TypeTaken ==
  ASSUME NEW S, NEW g \in Seq(S), NEW b \in Seq(S), NEW o \in Seq(S), NEW a \in Seq(S), NEW type,
         NoneOf(b, type) \/ NoneOf(o, type)
  PROVE  TypeMoves(g, b, o, a, type)
<1>1. PartsOfType(b, o, a, type)
  BY OfTypeOfThree
<1>2. OfType(g \o o, type) = OfType(g, type) \o OfType(o, type)
  BY OfTypeConcat
<1>3. OfType(b \o a, type) = OfType(b, type) \o OfType(a, type)
  BY OfTypeConcat
<1> DEFINE G == OfType(g, type)  B == OfType(b, type)  A == OfType(a, type)
           O == OfType(o, type)
<1>4. G \in Seq(S) /\ B \in Seq(S) /\ A \in Seq(S) /\ O \in Seq(S)
  BY OfTypeTyped
<1>5. B = <<>> \/ O = <<>>
  BY DEF NoneOf
<1> HIDE DEF G, B, A, O
<1>6. PartMoves(G, B, O, A)
  BY <1>4, <1>5, PartTaken
<1>7. (G \o O) \o (B \o A) = G \o (B \o (O \o A))
  BY <1>6 DEF PartMoves
<1>8. OfType(b \o (o \o a), type) = B \o (O \o A)
  BY <1>1 DEF PartsOfType, B, O, A
<1> QED BY <1>2, <1>3, <1>7, <1>8 DEF G, B, A, O, TypeMoves

(* The first message of its type, moved from the list to what was taken.   *)
LEMMA TakeInOrder ==
  ASSUME NEW S, NEW g \in Seq(S), NEW l \in Seq(S), NEW s, NEW n \in 1 .. Len(l), NEW type,
         \A k \in 1 .. n - 1 : l[k].type # l[n].type, Ordered(g, l, s, type)
  PROVE  Ordered(Append(g, l[n]), RemoveAt(l, n), s, type)
<1> DEFINE m == l[n]  o == <<m>>
<1>1. m \in S
  BY ElementOfSeq
<1> HIDE DEF m
<1>2. o \in Seq(S) /\ Append(g, m) = g \o o
  BY <1>1
<1>3. PICK b \in Seq(S), a \in Seq(S) : CutAt(l, n, b, a)
  BY OneRemoved
<1>4. l = b \o (o \o a) /\ RemoveAt(l, n) = b \o a
  BY <1>3 DEF CutAt, m
<1>5. NoneOf(b, type) \/ NoneOf(o, type)
  <2>1. CASE m.type = type
    <3>1. ASSUME NEW k \in 1 .. Len(b) PROVE b[k].type # type
      <4>1. k \in 1 .. n - 1 /\ b[k] = l[k]
        BY <1>3 DEF CutAt
      <4> QED BY <2>1, <4>1 DEF m
    <3> QED BY <3>1, OfTypeNone DEF NoneOf
  <2>2. CASE m.type # type
    BY <1>1, <2>2, OfTypeOne DEF NoneOf
  <2> QED BY <2>1, <2>2
<1> HIDE DEF o
<1>6. TypeMoves(g, b, o, a, type)
  BY <1>2, <1>5, TypeTaken
<1> QED BY <1>2, <1>4, <1>6 DEF Ordered, TypeMoves, m

(* A new queue is in order.                                                *)
LEMMA EmptyInOrder == \A type : Ordered(<<>>, <<>>, <<>>, type)
<1> TAKE type
<1> DEFINE e == <<>>
<1>1. e \in Seq({}) /\ \A n \in 1 .. Len(e) : e[n].type # type
  OBVIOUS
<1> HIDE DEF e
<1>2. OfType(e, type) = <<>>
  BY <1>1, OfTypeNone
<1>3. <<>> \o <<>> = <<>>
  OBVIOUS
<1> QED BY <1>2, <1>3 DEF e, Ordered

(* The lists of a queue.                                                   *)
LEMMA ListsTyped ==
  ASSUME TypeInv
  PROVE  \A i \in Slots : mq[i].msgs \in Seq(Messages) /\ sent[i] \in Seq(Messages)
                          /\ got[i] \in Seq(Messages)
BY DEF TypeInv, IsTable, IsQueue

(* Every effect keeps the order of a queue.                                *)
LEMMA SlotInOrder ==
  ASSUME UseInv, InOrder, DataStep, NEW i \in Slots, mq'[i].key # NoKey, NEW type \in Int
  PROVE  Ordered(got'[i], mq'[i].msgs, sent'[i], type)
<1>1. /\ mq[i].msgs \in Seq(Messages) /\ sent[i] \in Seq(Messages) /\ got[i] \in Seq(Messages)
      /\ mq[i].key # NoKey => Ordered(got[i], mq[i].msgs, sent[i], type)
  BY ListsTyped DEF UseInv, InOrder
<1>2. ASSUME mq'[i].key = mq[i].key, mq'[i].msgs = mq[i].msgs, sent'[i] = sent[i], got'[i] = got[i]
      PROVE  Ordered(got'[i], mq'[i].msgs, sent'[i], type)
  BY <1>1, <1>2
<1>3. ASSUME SameSlot(i)
      PROVE  Ordered(got'[i], mq'[i].msgs, sent'[i], type)
  BY <1>2, <1>3 DEF SameSlot, SameLists
<1>4. CASE KeptStep \/ MissedStep
  BY <1>2, <1>3, <1>4 DEF KeptStep, MissedStep
<1>5. ASSUME NEW j \in Slots, RemovedStep(j)
      PROVE  Ordered(got'[i], mq'[i].msgs, sent'[i], type)
  <2>1. i # j
    BY <1>5, EmptySlotIs DEF RemovedStep
  <2> QED BY <1>3, <1>5, <2>1 DEF RemovedStep, OthersSame
<1>6. ASSUME NEW j \in Slots, CreatedStep(j)
      PROVE  Ordered(got'[i], mq'[i].msgs, sent'[i], type)
  BY <1>3, <1>6, EmptyInOrder DEF CreatedStep, OthersSame
<1>7. ASSUME NEW j \in Slots, NEW m \in Messages, SentStep(j, m)
      PROVE  Ordered(got'[i], mq'[i].msgs, sent'[i], type)
  <2>1. CASE i = j
    <3>1. /\ mq[i].key # NoKey /\ mq'[i].msgs = Append(mq[i].msgs, m)
          /\ sent'[i] = Append(sent[i], m) /\ got'[i] = got[i]
      BY <1>7, <2>1 DEF SentStep
    <3> DEFINE g == got[i]  l == mq[i].msgs  s == sent[i]  S == Messages
    <3>2. /\ g \in Seq(S) /\ l \in Seq(S) /\ s \in Seq(S) /\ m \in S
          /\ Ordered(g, l, s, type)
      BY <1>1, <3>1
    <3> HIDE DEF g, l, s, S
    <3>3. Ordered(g, Append(l, m), Append(s, m), type)
      BY <3>2, PutInOrder
    <3> QED BY <3>1, <3>3 DEF g, l, s
  <2> QED BY <1>3, <1>7, <2>1 DEF SentStep, OthersSame
<1>8. ASSUME NEW j \in Slots, NEW n \in Nat, TakenStep(j, n)
      PROVE  Ordered(got'[i], mq'[i].msgs, sent'[i], type)
  <2>1. CASE i = j
    <3> DEFINE g == got[i]  l == mq[i].msgs  s == sent[i]  S == Messages
    <3>1. /\ mq[i].key # NoKey /\ mq'[i].msgs = RemoveAt(l, n) /\ got'[i] = Append(g, l[n])
          /\ sent'[i] = sent[i] /\ n \in 1 .. Len(l)
          /\ \A k \in 1 .. n - 1 : l[k].type # l[n].type
      BY <1>8, <2>1 DEF TakenStep
    <3>2. g \in Seq(S) /\ l \in Seq(S) /\ Ordered(g, l, s, type)
      BY <1>1, <3>1
    <3> HIDE DEF g, l, s, S
    <3>3. Ordered(Append(g, l[n]), RemoveAt(l, n), s, type)
      BY <3>1, <3>2, TakeInOrder
    <3> QED BY <3>1, <3>3 DEF s
  <2> QED BY <1>3, <1>8, <2>1 DEF TakenStep, OthersSame
<1> QED BY <1>4, <1>5, <1>6, <1>7, <1>8 DEF DataStep

(* Every step keeps the queues in order.                                   *)
LEMMA OrderKept ==
  ASSUME UseInv, InOrder, DataStep
  PROVE  InOrder'
BY SlotInOrder DEF InOrder

(***************************************************************************)
(* What was taken from a queue and what is left in it are, for every type, *)
(* what was sent to it.                                                    *)
(***************************************************************************)
THEOREM InOrderHolds == Spec => []InOrder
<1>1. Init => InOrder
  BY EmptySlotIs DEF Init, InOrder
<1>2. UseInv /\ InOrder /\ [Next]_vars => InOrder'
  BY StepKeeps, OrderKept
<1> QED BY <1>1, <1>2, UseInvHolds, PTL DEF Spec

(***************************************************************************)
(* msg_emulation.c:161-266, for any number of threads, queues and calls    *)
(* and for any sizes: no message of a queue is lost, doubled or passed by  *)
(* a later one of its type, whichever types the receivers ask for, however *)
(* often they wait, are refused or time out.                               *)
(***************************************************************************)
THEOREM ListsKeepTheirOrder == Spec => []NothingLostOrReordered
<1>1. UseInv /\ InOrder => NothingLostOrReordered
  <2> SUFFICES ASSUME UseInv, InOrder, NEW i \in Slots, msgq_valid(i), NEW m \in Range(sent[i])
               PROVE  Ordered(got[i], mq[i].msgs, sent[i], m.type)
    BY DEF NothingLostOrReordered, Ordered
  <2>1. sent[i] \in Seq(Messages)
    BY ListsTyped DEF UseInv
  <2>2. m \in Messages
    BY <2>1, RangeOfSeq
  <2>3. m.type \in Int
    BY <2>2 DEF Messages
  <2> QED BY <2>3 DEF InOrder, msgq_valid
<1> QED BY <1>1, UseInvHolds, InOrderHolds, PTL

-----------------------------------------------------------------------------
(* The counts.                                                             *)

(* What each message of a list counts for.                                 *)
Sizes(messages) == [n \in DOMAIN messages |-> messages[n].mlength + LongSize]

(* The bytes of a list are a sum of sizes.                                 *)
LEMMA BytesOfIs ==
  ASSUME NEW l \in Seq(Messages), NEW n, n = Len(l)
  PROVE  /\ BytesOf(l) = Total(Sizes(l), n) /\ n \in Nat
         /\ \A k \in 1 .. n : Sizes(l)[k] \in Int /\ Sizes(l)[k] = l[k].mlength + LongSize
<1>1. n \in Nat /\ DOMAIN l = 1 .. n
  BY LenProperties
<1>2. \A k \in 1 .. n : l[k].mlength \in Nat
  <2>1. \A k \in 1 .. n : l[k] \in Messages
    <3> HIDE DEF Messages
    <3> QED BY ElementOfSeq
  <2> QED BY <2>1 DEF Messages
<1>3. \A k \in 1 .. n : Sizes(l)[k] = l[k].mlength + LongSize
  BY <1>1 DEF Sizes
<1>4. BytesOf(l) = Total(Sizes(l), n)
  BY DEF BytesOf, Sizes
<1> QED BY <1>1, <1>2, <1>3, <1>4, LongSizeIsNat

(* No message, no bytes.                                                   *)
LEMMA BytesOfNone == BytesOf(<<>>) = 0
<1> DEFINE e == <<>>  n == 0
<1>1. e \in Seq(Messages) /\ n = Len(e)
  BY EmptySeq
<1> HIDE DEF e
<1>2. BytesOf(e) = Total(Sizes(e), n)
  BY <1>1, BytesOfIs
<1>3. n \in Nat /\ \A k \in 1 .. n : Sizes(e)[k] = 0
  OBVIOUS
<1> HIDE DEF n
<1>4. Total(Sizes(e), n) = 0
  BY <1>3, TotalOfZeros
<1> QED BY <1>2, <1>4 DEF e

(* One message more.                                                       *)
LEMMA BytesOfMore ==
  ASSUME NEW l \in Seq(Messages), NEW m \in Messages
  PROVE  BytesOf(Append(l, m)) = BytesOf(l) + (m.mlength + LongSize)
<1> DEFINE a == Append(l, m)  n == Len(l)
<1>1. n \in Nat
  BY LenProperties
<1>2. /\ a \in Seq(Messages) /\ n + 1 = Len(a) /\ a[n + 1] = m /\ \A k \in 1 .. n : a[k] = l[k]
  <2> HIDE DEF Messages
  <2> QED BY AppendProperties
<1> HIDE DEF a
<1>3. /\ BytesOf(l) = Total(Sizes(l), n)
      /\ \A k \in 1 .. n : Sizes(l)[k] \in Int /\ Sizes(l)[k] = l[k].mlength + LongSize
  BY BytesOfIs
<1>4. /\ BytesOf(a) = Total(Sizes(a), n + 1)
      /\ \A k \in 1 .. n + 1 : Sizes(a)[k] \in Int /\ Sizes(a)[k] = a[k].mlength + LongSize
  BY <1>2, BytesOfIs
<1> HIDE DEF n
<1>5. \A k \in 1 .. n : Sizes(a)[k] = Sizes(l)[k] /\ Sizes(l)[k] \in Int
  <2> TAKE k \in 1 .. n
  <2>1. k \in 1 .. n + 1
    BY <1>1
  <2> QED BY <1>2, <1>3, <1>4, <2>1
<1>6. Sizes(a)[n + 1] = m.mlength + LongSize /\ Sizes(a)[n + 1] \in Int
  <2>1. n + 1 \in 1 .. n + 1
    BY <1>1
  <2> QED BY <1>2, <1>4, <2>1
<1>7. Total(Sizes(a), n + 1) = Total(Sizes(l), n) + Sizes(a)[n + 1]
  BY <1>1, <1>5, <1>6, TotalOfMore
<1> QED BY <1>3, <1>4, <1>6, <1>7 DEF a

(* One message less.                                                       *)
LEMMA BytesOfLess ==
  ASSUME NEW l \in Seq(Messages), NEW i \in 1 .. Len(l)
  PROVE  BytesOf(RemoveAt(l, i)) = BytesOf(l) - (l[i].mlength + LongSize)
<1> DEFINE r == RemoveAt(l, i)
<1>1. PICK n \in Nat \ {0} : n = Len(l) /\ i \in 1 .. n
  BY LenProperties
<1>2. /\ r \in Seq(Messages) /\ n - 1 = Len(r)
      /\ \A k \in 1 .. n - 1 : r[k] = IF k < i THEN l[k] ELSE l[k + 1]
  <2> HIDE DEF Messages
  <2> QED BY <1>1, OneRemoved
<1> HIDE DEF r
<1>3. /\ BytesOf(l) = Total(Sizes(l), n)
      /\ \A k \in 1 .. n : Sizes(l)[k] \in Int /\ Sizes(l)[k] = l[k].mlength + LongSize
  BY <1>1, BytesOfIs
<1>4. /\ BytesOf(r) = Total(Sizes(r), n - 1)
      /\ \A k \in 1 .. n - 1 : Sizes(r)[k] \in Int /\ Sizes(r)[k] = r[k].mlength + LongSize
  BY <1>2, BytesOfIs
<1>5. \A k \in 1 .. n - 1 : Sizes(r)[k] = IF k < i THEN Sizes(l)[k] ELSE Sizes(l)[k + 1]
  <2> TAKE k \in 1 .. n - 1
  <2>1. k \in 1 .. n /\ k + 1 \in 1 .. n
    BY <1>1
  <2> QED BY <1>2, <1>3, <1>4, <2>1
<1>6. Total(Sizes(r), n - 1) = Total(Sizes(l), n) - Sizes(l)[i]
  <2>1. \A k \in 1 .. n : Sizes(l)[k] \in Int
    BY <1>3
  <2> DEFINE x == Sizes(r)  y == Sizes(l)
  <2>2. /\ \A k \in 1 .. n : y[k] \in Int
        /\ Without(x, y, n, i)
    BY <1>5, <2>1 DEF Without
  <2> HIDE DEF x, y
  <2>3. Total(x, n - 1) = Total(y, n) - y[i]
    BY <1>1, <2>2, TotalWithout
  <2> QED BY <2>3 DEF x, y
<1> QED BY <1>1, <1>3, <1>4, <1>6 DEF r

-----------------------------------------------------------------------------
(* The counts of one queue are those of its list.                          *)
Counted(q) == q.msg_qnum = Len(q.msgs) /\ q.msg_cbytes = BytesOf(q.msgs)

CountOf(i) == mq[i].msg_cbytes

AllBytes == Total([i \in Slots |-> mq[i].msg_cbytes], MSG_MAX_NUMBER_QUEUES)

(* The counts of a queue are integers.                                     *)
LEMMA CountsTyped ==
  ASSUME TypeInv
  PROVE  \A i \in Slots : mq[i].msg_cbytes \in Int /\ mq[i].msg_qnum \in Int
BY DEF TypeInv, IsTable, IsQueue

(* One slot changes: the sum changes with it.                              *)
LEMMA AllBytesChange ==
  ASSUME TypeInv, TypeInv', NEW i \in Slots,
         \A j \in Slots \ {i} : mq'[j].msg_cbytes = mq[j].msg_cbytes
  PROVE  AllBytes' = AllBytes + mq'[i].msg_cbytes - mq[i].msg_cbytes
<1> DEFINE b == [j \in Slots |-> mq[j].msg_cbytes]
           c == [j \in Slots |-> mq'[j].msg_cbytes]
           n == MSG_MAX_NUMBER_QUEUES
<1>1. n \in Nat /\ Slots = 1 .. n
  BY LongSizeIsNat DEF Slots
<1>2. \A j \in Slots : mq[j].msg_cbytes \in Int /\ mq'[j].msg_cbytes \in Int
  BY CountsTyped DEF TypeInv, IsTable, IsQueue
<1>3. \A j \in 1 .. n : b[j] \in Int /\ c[j] \in Int
  BY <1>1, <1>2
<1>4. \A j \in (1 .. n) \ {i} : c[j] = b[j]
  BY <1>1
<1>5. i \in 1 .. n /\ c[i] = mq'[i].msg_cbytes /\ b[i] = mq[i].msg_cbytes
  BY <1>1
<1>6. AllBytes = Total(b, n) /\ AllBytes' = Total(c, n)
  BY DEF AllBytes
<1> HIDE DEF b, c, n
<1>7. Total(c, n) = Total(b, n) + c[i] - b[i]
  BY <1>1, <1>3, <1>4, <1>5, TotalOfChanged
<1> QED BY <1>5, <1>6, <1>7

(* So is their sum.                                                        *)
LEMMA AllBytesTyped == TypeInv => AllBytes \in Int
<1> SUFFICES ASSUME TypeInv PROVE AllBytes \in Int
  OBVIOUS
<1> DEFINE b == [j \in Slots |-> mq[j].msg_cbytes]
           n == MSG_MAX_NUMBER_QUEUES
<1>1. n \in Nat /\ \A j \in 1 .. n : b[j] \in Int
  BY CountsTyped, LongSizeIsNat DEF Slots
<1>2. AllBytes = Total(b, n)
  BY DEF AllBytes
<1> HIDE DEF b, n
<1>3. PICK f : Sums(f, b, n)
  BY <1>1, SumsExist
<1> QED BY <1>1, <1>2, <1>3, TotalOfSums

(* Every effect keeps the counts, while nothing irregular happens.         *)
LEMMA CountsKept ==
  ASSUME UseInv, UseInv', DataStep, CountsAgree, irregular' = {}
  PROVE  (\A i \in Slots : Counted(mq'[i])) /\ b_current' = AllBytes'
<1>1. irregular = {}
  BY DEF DataStep, KeptStep, MissedStep, RemovedStep, CreatedStep, SentStep, TakenStep
<1>2. (\A i \in Slots : Counted(mq[i])) /\ b_current = AllBytes
  BY <1>1 DEF CountsAgree, Counted, AllBytes
<1>3. /\ TypeInv /\ TypeInv' /\ AllBytes \in Int /\ FreeIsEmpty
      /\ \A i \in Slots : /\ mq[i].msg_cbytes \in Int /\ mq[i].msg_qnum \in Int
                        /\ mq[i].msgs \in Seq(Messages)
  BY AllBytesTyped, CountsTyped, ListsTyped DEF UseInv
<1>4. ASSUME NEW j, SameSlot(j), Counted(mq[j])
      PROVE  Counted(mq'[j]) /\ mq'[j].msg_cbytes = mq[j].msg_cbytes
  BY <1>4 DEF SameSlot, SameLists, Counted
<1>5. ASSUME NEW i \in Slots, OthersSame(i), Counted(mq'[i]),
             NEW d \in Int, mq'[i].msg_cbytes = mq[i].msg_cbytes + d, b_current' = b_current + d
      PROVE  (\A j \in Slots : Counted(mq'[j])) /\ b_current' = AllBytes'
  <2>1. \A j \in Slots \ {i} : Counted(mq'[j]) /\ mq'[j].msg_cbytes = mq[j].msg_cbytes
    BY <1>2, <1>4, <1>5 DEF OthersSame
  <2>2. AllBytes' = AllBytes + mq'[i].msg_cbytes - mq[i].msg_cbytes
    BY <1>3, <2>1, AllBytesChange
  <2>3. mq[i].msg_cbytes \in Int
    BY <1>3
  <2> QED BY <1>2, <1>3, <1>5, <2>1, <2>2, <2>3
<1>6. BytesOf(<<>>) = 0 /\ Len(<<>>) = 0
  BY BytesOfNone
<1>7. CASE KeptStep
  <2>1. PICK i \in Slots : TRUE
    BY MsgEmulationAssumption DEF Slots
  <2>2. OthersSame(i) /\ Counted(mq'[i]) /\ mq'[i].msg_cbytes = mq[i].msg_cbytes + 0
        /\ b_current' = b_current + 0
    BY <1>2, <1>3, <1>4, <1>7 DEF KeptStep, OthersSame
  <2> QED BY <1>5, <2>2
<1>8. CASE MissedStep
  BY <1>8 DEF MissedStep
<1>9. ASSUME NEW i \in Slots, RemovedStep(i)
      PROVE  (\A j \in Slots : Counted(mq'[j])) /\ b_current' = AllBytes'
  <2>1. OthersSame(i) /\ mq'[i] = EmptySlot /\ b_current' = b_current /\ mq[i].msg_cbytes = 0
    BY <1>9 DEF RemovedStep
  <2>2. Counted(mq'[i]) /\ mq'[i].msg_cbytes = mq[i].msg_cbytes + 0 /\ b_current' = b_current + 0
    BY <1>2, <1>3, <1>6, <2>1, EmptySlotIs DEF Counted
  <2> QED BY <1>5, <2>1, <2>2
<1>10. ASSUME NEW i \in Slots, CreatedStep(i)
       PROVE  (\A j \in Slots : Counted(mq'[j])) /\ b_current' = AllBytes'
  <2>1. /\ OthersSame(i) /\ mq[i].key = NoKey /\ b_current' = b_current
        /\ mq'[i].msgs = <<>> /\ mq'[i].msg_cbytes = 0 /\ mq'[i].msg_qnum = 0
    BY <1>10 DEF CreatedStep
  <2>2. mq[i].msg_cbytes = 0
    BY <1>3, <2>1 DEF FreeIsEmpty
  <2>3. Counted(mq'[i]) /\ mq'[i].msg_cbytes = mq[i].msg_cbytes + 0 /\ b_current' = b_current + 0
    BY <1>2, <1>3, <1>6, <2>1, <2>2 DEF Counted
  <2> QED BY <1>5, <2>1, <2>3
<1>11. ASSUME NEW i \in Slots, NEW m \in Messages, SentStep(i, m)
       PROVE  (\A j \in Slots : Counted(mq'[j])) /\ b_current' = AllBytes'
  <2> DEFINE l == mq[i].msgs  d == m.mlength + LongSize
  <2>1. /\ OthersSame(i) /\ mq'[i].msgs = Append(l, m) /\ mq'[i].msg_cbytes = mq[i].msg_cbytes + d
        /\ b_current' = b_current + d /\ mq'[i].msg_qnum = mq[i].msg_qnum + 1
    BY <1>11 DEF SentStep
  <2>2. d \in Int
    BY LongSizeIsNat DEF Messages
  <2>3. l \in Seq(Messages) /\ mq[i].msg_qnum = Len(l) /\ mq[i].msg_cbytes = BytesOf(l)
    BY <1>2, <1>3 DEF Counted
  <2>4. BytesOf(Append(l, m)) = BytesOf(l) + d
    BY <2>3, BytesOfMore
  <2>5. Len(Append(l, m)) = Len(l) + 1
    BY <2>3, AppendProperties
  <2> HIDE DEF l, d
  <2>6. Counted(mq'[i])
    BY <2>1, <2>3, <2>4, <2>5 DEF Counted
  <2> QED BY <1>5, <2>1, <2>2, <2>6
<1>12. ASSUME NEW i \in Slots, NEW n \in Nat, TakenStep(i, n)
       PROVE  (\A j \in Slots : Counted(mq'[j])) /\ b_current' = AllBytes'
  <2> DEFINE l == mq[i].msgs  z == l[n].mlength + LongSize  d == -z
  <2>1. /\ OthersSame(i) /\ mq'[i].msgs = RemoveAt(l, n) /\ n \in 1 .. Len(l)
        /\ mq'[i].msg_cbytes = mq[i].msg_cbytes - z
        /\ b_current' = b_current - z /\ mq'[i].msg_qnum = mq[i].msg_qnum - 1
    BY <1>12 DEF TakenStep
  <2>2. l \in Seq(Messages) /\ mq[i].msg_qnum = Len(l) /\ mq[i].msg_cbytes = BytesOf(l)
        /\ mq[i].msg_cbytes \in Int /\ b_current \in Int
    BY <1>2, <1>3 DEF Counted
  <2>3. z \in Int
    <3>1. l[n] \in Messages
      BY <2>1, <2>2, ElementOfSeq
    <3> QED BY <3>1, LongSizeIsNat DEF Messages
  <2>4. BytesOf(RemoveAt(l, n)) = BytesOf(l) - z
    BY <2>1, <2>2, BytesOfLess
  <2>5. Len(RemoveAt(l, n)) = Len(l) - 1
    BY <2>1, <2>2, OneRemoved
  <2> HIDE DEF l, z
  <2>6. Counted(mq'[i])
    BY <2>1, <2>2, <2>4, <2>5 DEF Counted
  <2>7. d \in Int /\ mq'[i].msg_cbytes = mq[i].msg_cbytes + d /\ b_current' = b_current + d
    BY <2>1, <2>2, <2>3
  <2> HIDE DEF d
  <2> QED BY <1>5, <2>1, <2>6, <2>7
<1> QED BY <1>7, <1>8, <1>9, <1>10, <1>11, <1>12 DEF DataStep

(***************************************************************************)
(* msg_emulation.c:138 and 144-156, for any number of threads, queues and  *)
(* calls and for any sizes: as long as no message was empty, cut short,    *)
(* asked for in vain or removed with its queue, msg_qnum and msg_cbytes of *)
(* every queue are the messages and bytes it holds, and b_current is the   *)
(* sum of the bytes of all queues.                                         *)
(***************************************************************************)
THEOREM CountsAreExact == Spec => []CountsAgree
<1>1. Init => CountsAgree
  <2> SUFFICES ASSUME Init PROVE CountsAgree
    OBVIOUS
  <2>1. (\A i \in Slots : mq[i] = EmptySlot) /\ b_current = 0
    BY DEF Init
  <2>2. \A i \in Slots : Counted(mq[i])
    BY <2>1, EmptySlotIs, BytesOfNone DEF Counted
  <2>3. AllBytes = 0
    <3> DEFINE b == [j \in Slots |-> mq[j].msg_cbytes]  n == MSG_MAX_NUMBER_QUEUES
    <3>1. n \in Nat /\ \A j \in 1 .. n : b[j] = 0
      BY <2>1, EmptySlotIs, LongSizeIsNat DEF Slots
    <3>2. AllBytes = Total(b, n)
      BY DEF AllBytes
    <3> HIDE DEF b, n
    <3> QED BY <3>1, <3>2, TotalOfZeros
  <2> QED BY <2>1, <2>2, <2>3 DEF CountsAgree, Counted, AllBytes
<1>2. UseInv /\ UseInv' /\ CountsAgree /\ [Next]_vars => CountsAgree'
  <2> SUFFICES ASSUME UseInv, UseInv', CountsAgree, [Next]_vars, irregular' = {}
               PROVE  (\A i \in Slots : Counted(mq'[i])) /\ b_current' = AllBytes'
    BY DEF CountsAgree, Counted, AllBytes
  <2>1. DataStep
    BY StepKeeps
  <2> QED BY <2>1, CountsKept
<1> QED BY <1>1, <1>2, UseInvHolds, PTL DEF Spec
=============================================================================
