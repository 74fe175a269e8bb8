------------------------- MODULE RawTransactionProofs -------------------------
(***************************************************************************)
(* What the operators of RawTransaction return, for wallets of any length. *)
(* Induction over the naturals is drawn from the theorem that a set of     *)
(* them that is not empty has a least member.                              *)
(***************************************************************************)
EXTENDS RawTransaction, WellFoundedInduction, TLAPS

\* A set of naturals that is not empty has a least member.
LEMMA LeastOf ==
  ASSUME NEW T \in SUBSET Nat, T # {}
  PROVE  \E x \in T : \A y \in T : x <= y
<1> DEFINE R == {p \in Nat \X Nat : p[1] < p[2]}
<1>1. IsWellFoundedOn(R, Nat)
  BY NatLessThanWellFounded DEF OpToRel
<1>2. PICK x \in T : \A y \in T : ~ (<<y, x>> \in R)
  BY <1>1, WFMin
<1>3. \A y \in T : ~ (y < x)
  BY <1>2
<1> QED BY <1>3

\* A set with zero and the successor of each of its members has every natural.
LEMMA Induction ==
  ASSUME NEW S, 0 \in S, \A n \in Nat : n \in S => n + 1 \in S
  PROVE  \A n \in Nat : n \in S
<1> SUFFICES ASSUME NEW k \in Nat, k \notin S PROVE FALSE
  OBVIOUS
<1>1. PICK x \in Nat \ S : \A y \in Nat \ S : x <= y
  BY LeastOf
<1>2. x - 1 \in Nat /\ x - 1 \in S
  BY <1>1
<1> QED BY <1>1, <1>2

Numbers(q) == \A i \in 1..Len(q) : q[i] \in Int

\* The recursion of Totals has a solution.
LEMMA TotalsExist ==
  ASSUME NEW q, Len(q) \in Nat, Numbers(q)
  PROVE  \E t : /\ t = [i \in 0..Len(q) |-> IF i = 0 THEN 0 ELSE t[i - 1] + q[i]]
                /\ \A i \in 0..Len(q) : t[i] \in Int
<1> DEFINE Solves(t, n) == /\ t = [i \in 0..n |-> IF i = 0 THEN 0 ELSE t[i - 1] + q[i]]
                           /\ \A i \in 0..n : t[i] \in Int
           S == {n \in Nat : n <= Len(q) => \E t : Solves(t, n)}
<1>1. 0 \in S
  <2>1. Solves([i \in 0..0 |-> 0], 0)
    OBVIOUS
  <2> QED BY <2>1
<1>2. ASSUME NEW n \in Nat, n \in S PROVE n + 1 \in S
  <2> SUFFICES ASSUME n + 1 <= Len(q) PROVE \E t : Solves(t, n + 1)
    OBVIOUS
  <2>1. PICK t : Solves(t, n)
    BY <1>2
  <2> DEFINE u == [i \in 0..(n + 1) |-> IF i <= n THEN t[i] ELSE t[n] + q[n + 1]]
  <2>2. \A i \in 0..n : t[i] = (IF i = 0 THEN 0 ELSE t[i - 1] + q[i]) /\ t[i] \in Int
    BY <2>1
  <2>3. \A i \in 0..(n + 1) : u[i] = IF i = 0 THEN 0 ELSE u[i - 1] + q[i]
    BY <2>2
  <2>4. \A i \in 0..(n + 1) : u[i] \in Int
    BY <2>2 DEF Numbers
  <2>5. u = [i \in 0..(n + 1) |-> IF i = 0 THEN 0 ELSE u[i - 1] + q[i]]
    <3>1. u = [i \in 0..(n + 1) |-> u[i]]
      OBVIOUS
    <3> HIDE DEF u
    <3> QED BY <2>3, <3>1
  <2> HIDE DEF u
  <2> QED BY <2>4, <2>5
<1> HIDE DEF S
<1>3. Len(q) \in S
  BY <1>1, <1>2, Induction
<1> QED BY <1>3 DEF S

\* Totals of a sequence of integers: zero, then each with one more added.
LEMMA TotalsOf ==
  ASSUME NEW q, Len(q) \in Nat, Numbers(q)
  PROVE  /\ Totals(q)[0] = 0
         /\ \A i \in 1..Len(q) : Totals(q)[i] = Totals(q)[i - 1] + q[i]
         /\ \A i \in 0..Len(q) : Totals(q)[i] \in Int
<1> DEFINE Rec(t) == t = [i \in 0..Len(q) |-> IF i = 0 THEN 0 ELSE t[i - 1] + q[i]]
<1>1. Totals(q) = CHOOSE t : Rec(t)
  BY DEF Totals
<1>2. Rec(Totals(q))
  BY <1>1, TotalsExist
<1>3. \A i \in 0..Len(q) : Totals(q)[i] = IF i = 0 THEN 0 ELSE Totals(q)[i - 1] + q[i]
  BY <1>2
<1>4. Totals(q)[0] = 0 /\ \A i \in 1..Len(q) : Totals(q)[i] = Totals(q)[i - 1] + q[i]
  BY <1>3
<1> DEFINE S == {n \in Nat : n <= Len(q) => Totals(q)[n] \in Int}
<1>5. 0 \in S
  BY <1>4
<1>6. ASSUME NEW n \in Nat, n \in S PROVE n + 1 \in S
  <2> SUFFICES ASSUME n + 1 <= Len(q) PROVE Totals(q)[n + 1] \in Int
    OBVIOUS
  <2>1. Totals(q)[n + 1] = Totals(q)[n] + q[n + 1]
    <3>1. n + 1 \in 1..Len(q) /\ (n + 1) - 1 = n
      OBVIOUS
    <3> QED BY <1>4, <3>1
  <2>2. Totals(q)[n] \in Int /\ q[n + 1] \in Int
    BY <1>6 DEF Numbers
  <2> QED BY <2>1, <2>2
<1>7. \A n \in Nat : n \in S
  <2> HIDE DEF S
  <2> QED BY <1>5, <1>6, Induction
<1> QED BY <1>4, <1>7

\* The loop stops: Taken is the least number of outputs whose total reaches the
\* bound, or all of them.
LEMMA TakenIs ==
  ASSUME NEW q, Len(q) \in Nat, Numbers(q), NEW bound \in Int
  PROVE  LET n == Taken(q, bound)
         IN /\ n \in 0..Len(q)
            /\ n = Len(q) \/ Totals(q)[n] >= bound
            /\ \A i \in 0..(n - 1) : Totals(q)[i] < bound
<1> DEFINE Stops(n) == n = Len(q) \/ Totals(q)[n] >= bound
           Ends(n) == Stops(n) /\ \A i \in 0..(n - 1) : Totals(q)[i] < bound
           T == {n \in 0..Len(q) : Stops(n)}
<1>1. PICK x \in T : \A y \in T : x <= y
  <2>1. Len(q) \in T /\ T \in SUBSET Nat
    OBVIOUS
  <2> QED BY <2>1, LeastOf
<1>2. x \in 0..Len(q) /\ Stops(x)
  BY <1>1
<1>3. ASSUME NEW i \in 0..(x - 1) PROVE Totals(q)[i] < bound
  <2>1. i \in 0..Len(q) /\ i \notin T
    BY <1>1, <1>2
  <2> QED BY <2>1, TotalsOf
<1>4. \E n \in 0..Len(q) : Ends(n)
  BY <1>2, <1>3
<1>5. Taken(q, bound) = CHOOSE n \in 0..Len(q) : Ends(n)
  BY DEF Taken
<1> HIDE DEF Ends
<1>6. Taken(q, bound) \in 0..Len(q) /\ Ends(Taken(q, bound))
  BY <1>4, <1>5
<1> QED BY <1>6 DEF Ends

\* Two sequences that agree up to n have the same totals up to n.
LEMMA TotalsAgree ==
  ASSUME NEW p, Len(p) \in Nat, Numbers(p), NEW q, Len(q) \in Nat, Numbers(q),
         NEW n \in Nat, n <= Len(p), n <= Len(q),
         \A i \in 1..n : p[i] = q[i]
  PROVE  \A i \in 0..n : Totals(p)[i] = Totals(q)[i]
<1> DEFINE S == {i \in Nat : i <= n => Totals(p)[i] = Totals(q)[i]}
<1>1. 0 \in S
  BY TotalsOf
<1>2. ASSUME NEW i \in Nat, i \in S PROVE i + 1 \in S
  <2> SUFFICES ASSUME i + 1 <= n PROVE Totals(p)[i + 1] = Totals(q)[i + 1]
    OBVIOUS
  <2>1. i + 1 \in 1..Len(p) /\ i + 1 \in 1..Len(q) /\ i + 1 \in 1..n /\ (i + 1) - 1 = i
    OBVIOUS
  <2>2. Totals(p)[i + 1] = Totals(p)[i] + p[i + 1]
    BY <2>1, TotalsOf
  <2>3. Totals(q)[i + 1] = Totals(q)[i] + q[i + 1]
    BY <2>1, TotalsOf
  <2>4. Totals(p)[i] = Totals(q)[i]
    BY <1>2
  <2> QED BY <2>1, <2>2, <2>3, <2>4
<1>3. \A i \in Nat : i \in S
  <2> HIDE DEF S
  <2> QED BY <1>1, <1>2, Induction
<1> QED BY <1>3

\* Totals of naturals never decrease.
LEMMA TotalsGrow ==
  ASSUME NEW q, Len(q) \in Nat, \A i \in 1..Len(q) : q[i] \in Nat,
         NEW m \in 0..Len(q), NEW n \in 0..Len(q), m <= n
  PROVE  Totals(q)[m] <= Totals(q)[n]
<1>1. Numbers(q)
  BY DEF Numbers
<1> DEFINE T == {i \in Nat : m <= i /\ i <= n => Totals(q)[m] <= Totals(q)[i]}
<1>2. 0 \in T
  BY <1>1, TotalsOf
<1>3. ASSUME NEW i \in Nat, i \in T PROVE i + 1 \in T
  <2> SUFFICES ASSUME m <= i + 1, i + 1 <= n PROVE Totals(q)[m] <= Totals(q)[i + 1]
    OBVIOUS
  <2>1. CASE m = i + 1
    BY <1>1, <2>1, TotalsOf
  <2>2. CASE m <= i
    <3>1. i \in 0..Len(q) /\ i + 1 \in 1..Len(q) /\ (i + 1) - 1 = i
      BY <2>2
    <3>2. /\ Totals(q)[i + 1] = Totals(q)[i] + q[i + 1] /\ q[i + 1] \in Nat
          /\ Totals(q)[i] \in Int /\ Totals(q)[m] \in Int
      BY <1>1, <3>1, TotalsOf
    <3>3. Totals(q)[m] <= Totals(q)[i]
      BY <1>3, <2>2
    <3> QED BY <3>2, <3>3
  <2> QED BY <2>1, <2>2
<1>4. n \in T
  <2> HIDE DEF T
  <2> QED BY <1>2, <1>3, Induction
<1> QED BY <1>4

\* What SelectOutputs takes is worth the amount and the change.
LEMMA SelectedWorth ==
  ASSUME NEW q, Len(q) \in Nat, Numbers(q), NEW amount \in Nat,
         SelectOutputs(q, amount).ok
  PROVE  LET r == SelectOutputs(q, amount)
         IN /\ r.taken \in 0..Len(q)
            /\ r.change \in Nat
            /\ Totals(q)[r.taken] = amount + r.change
<1> DEFINE n == Taken(q, amount)
<1>1. n \in 0..Len(q)
  BY TakenIs
<1>2. Totals(q)[n] \in Int
  BY <1>1, TotalsOf
<1> HIDE DEF n
<1>3. SelectOutputs(q, amount)
        = IF q = <<>> \/ Totals(q)[n] < amount THEN Insufficient
          ELSE [ok |-> TRUE, taken |-> n, change |-> Totals(q)[n] - amount]
  BY DEF SelectOutputs, n
<1>4. ~(q = <<>> \/ Totals(q)[n] < amount)
  BY <1>3 DEF Insufficient
<1>5. SelectOutputs(q, amount) = [ok |-> TRUE, taken |-> n, change |-> Totals(q)[n] - amount]
  BY <1>3, <1>4
<1> QED BY <1>1, <1>2, <1>4, <1>5

\* What SelectFeeOutputs takes is worth the fee and the change, though the
\* loop stops at another amount.
LEMMA SelectedFeeWorth ==
  ASSUME NEW q, Len(q) \in Nat, Numbers(q), NEW fee \in Nat, NEW amount \in Nat,
         SelectFeeOutputs(q, fee, amount).ok
  PROVE  LET r == SelectFeeOutputs(q, fee, amount)
         IN /\ r.taken \in 0..Len(q)
            /\ r.change \in Nat
            /\ Totals(q)[r.taken] = fee + r.change
<1> DEFINE n == Taken(q, amount)
<1>1. n \in 0..Len(q)
  BY TakenIs
<1>2. Totals(q)[n] \in Int
  BY <1>1, TotalsOf
<1> HIDE DEF n
<1>3. SelectFeeOutputs(q, fee, amount)
        = IF Totals(q)[n] < fee THEN Insufficient
          ELSE [ok |-> TRUE, taken |-> n, change |-> Totals(q)[n] - fee]
  BY DEF SelectFeeOutputs, n
<1>4. ~(Totals(q)[n] < fee)
  BY <1>3 DEF Insufficient
<1>5. SelectFeeOutputs(q, fee, amount) = [ok |-> TRUE, taken |-> n, change |-> Totals(q)[n] - fee]
  BY <1>3, <1>4
<1> QED BY <1>1, <1>2, <1>4, <1>5

\* It takes at least one output, and one less would not do.
LEMMA SelectedLeast ==
  ASSUME NEW q, Len(q) \in Nat, Numbers(q), NEW amount \in Nat \ {0},
         SelectOutputs(q, amount).ok
  PROVE  /\ SelectOutputs(q, amount).taken \in 1..Len(q)
         /\ Totals(q)[SelectOutputs(q, amount).taken - 1] < amount
<1> DEFINE n == SelectOutputs(q, amount).taken
<1>1. n = Taken(q, amount)
  BY DEF SelectOutputs, Insufficient
<1>2. /\ n \in 0..Len(q)
      /\ n = Len(q) \/ Totals(q)[n] >= amount
      /\ \A i \in 0..(n - 1) : Totals(q)[i] < amount
  BY <1>1, TakenIs
<1>3. Totals(q)[n] = amount + SelectOutputs(q, amount).change /\ SelectOutputs(q, amount).change \in Nat
  BY SelectedWorth
<1>4. n # 0
  BY <1>3, TotalsOf
<1> HIDE DEF n
<1>5. n \in 1..Len(q) /\ Totals(q)[n - 1] < amount
  BY <1>2, <1>4
<1> QED BY <1>5 DEF n

\* The recursion of InOrder has a solution, and InOrder is its last value.
LEMMA InOrderSteps ==
  ASSUME NEW S, NEW n \in Nat
  PROVE  \E f : /\ InOrder(S, n) = f[n]
                /\ f[0] = <<>>
                /\ \A i \in 1..n : f[i] = IF i \in S THEN Append(f[i - 1], i) ELSE f[i - 1]
<1> DEFINE Step(f, i) == IF i = 0 THEN <<>>
                         ELSE IF i \in S THEN Append(f[i - 1], i) ELSE f[i - 1]
           Solves(f, m) == f = [i \in 0..m |-> Step(f, i)]
           T == {m \in Nat : m <= n => \E f : Solves(f, m)}
<1>1. 0 \in T
  <2>1. Solves([i \in 0..0 |-> <<>>], 0)
    OBVIOUS
  <2> QED BY <2>1
<1>2. ASSUME NEW m \in Nat, m \in T PROVE m + 1 \in T
  <2> HIDE DEF Solves
  <2> SUFFICES ASSUME m + 1 <= n PROVE \E f : Solves(f, m + 1)
    OBVIOUS
  <2>1. PICK f : Solves(f, m)
    BY <1>2
  <2> USE DEF Solves
  <2> DEFINE last == IF m + 1 \in S THEN Append(f[m], m + 1) ELSE f[m]
             g == [i \in 0..(m + 1) |-> IF i <= m THEN f[i] ELSE last]
  <2>2. \A i \in 0..m : f[i] = Step(f, i)
    BY <2>1
  <2> HIDE DEF last
  <2>3. \A i \in 0..(m + 1) : g[i] = Step(g, i)
    <3> TAKE i \in 0..(m + 1)
    <3>1. CASE i <= m
      <4>1. i \in 0..m /\ g[i] = f[i] /\ (i # 0 => g[i - 1] = f[i - 1])
        BY <3>1
      <4> HIDE DEF g
      <4> QED BY <2>2, <4>1
    <3>2. CASE i = m + 1
      <4>1. i # 0 /\ g[i] = last /\ g[i - 1] = f[m]
        BY <3>2
      <4> HIDE DEF g
      <4> QED BY <3>2, <4>1 DEF last
    <3> QED BY <3>1, <3>2
  <2>4. g = [i \in 0..(m + 1) |-> Step(g, i)]
    <3>1. g = [i \in 0..(m + 1) |-> g[i]]
      OBVIOUS
    <3> HIDE DEF g
    <3> QED BY <2>3, <3>1
  <2> HIDE DEF g
  <2> QED BY <2>4
<1>3. \E f : Solves(f, n)
  <2> HIDE DEF T
  <2>1. n \in T
    BY <1>1, <1>2, Induction
  <2> HIDE DEF Solves
  <2> QED BY <2>1 DEF T
<1> DEFINE Rec(f) == f = [i \in 0..n |-> IF i = 0 THEN <<>>
                                         ELSE IF i \in S THEN Append(f[i - 1], i) ELSE f[i - 1]]
           listed == CHOOSE f : Rec(f)
<1>4. InOrder(S, n) = listed[n]
  BY DEF InOrder
<1>5. Rec(listed)
  BY <1>3
<1> HIDE DEF listed
<1>6. \A i \in 0..n : listed[i] = IF i = 0 THEN <<>>
                                  ELSE IF i \in S THEN Append(listed[i - 1], i) ELSE listed[i - 1]
  BY <1>5
<1>7. listed[0] = <<>> /\ \A i \in 1..n : listed[i] = IF i \in S THEN Append(listed[i - 1], i)
                                                     ELSE listed[i - 1]
  BY <1>6
<1> QED BY <1>4, <1>7

Increasing(s) == \A j, k \in 1..Len(s) : j < k => s[j] < s[k]
Holds(s, x) == \E k \in 1..Len(s) : s[k] = x

\* Up to the next number is up to this one, or the next.
LEMMA LastOrBefore ==
  ASSUME NEW n \in Nat
  PROVE  \A k \in 1..(n + 1) : k = n + 1 \/ k \in 1..n
OBVIOUS

\* One more of a set in order: a larger number at the end.
LEMMA AppendInOrder ==
  ASSUME NEW S, NEW i \in Nat, NEW s \in Seq(S \cap (1..i)), Increasing(s),
         \A x \in S \cap (1..i) : Holds(s, x), i + 1 \in S
  PROVE  /\ Append(s, i + 1) \in Seq(S \cap (1..(i + 1)))
         /\ Increasing(Append(s, i + 1))
         /\ \A x \in S \cap (1..(i + 1)) : Holds(Append(s, i + 1), x)
<1> DEFINE t == Append(s, i + 1)
<1>1. /\ Len(s) \in Nat /\ Len(t) = Len(s) + 1 /\ t[Len(s) + 1] = i + 1
      /\ \A k \in 1..Len(s) : t[k] = s[k] /\ s[k] \in S \cap (1..i)
  OBVIOUS
<1>2. t = [k \in 1..(Len(s) + 1) |-> t[k]]
  OBVIOUS
<1> HIDE DEF t
<1>3. \A k \in 1..(Len(s) + 1) : t[k] \in S \cap (1..(i + 1))
  <2> TAKE k \in 1..(Len(s) + 1)
  <2>1. k \in 1..Len(s) \/ k = Len(s) + 1
    BY <1>1
  <2> QED BY <1>1, <2>1
<1>4. t \in Seq(S \cap (1..(i + 1)))
  BY <1>1, <1>2, <1>3
<1>5. Increasing(t)
  <2> SUFFICES ASSUME NEW j \in 1..Len(t), NEW k \in 1..Len(t), j < k PROVE t[j] < t[k]
    BY DEF Increasing
  <2>0. Len(s) \in Nat /\ j \in 1..(Len(s) + 1) /\ k \in 1..(Len(s) + 1)
    BY <1>1
  <2>1. j \in 1..Len(s) /\ t[j] = s[j] /\ s[j] \in 1..i
    BY <1>1, <2>0
  <2>2. CASE k = Len(s) + 1
    BY <1>1, <2>1, <2>2
  <2>3. CASE k \in 1..Len(s)
    <3>1. s[j] < s[k]
      BY <2>1, <2>3 DEF Increasing
    <3> QED BY <1>1, <2>1, <2>3, <3>1
  <2>4. k = Len(s) + 1 \/ k \in 1..Len(s)
    BY <2>0, LastOrBefore
  <2> QED BY <2>2, <2>3, <2>4
<1>6. ASSUME NEW x \in S \cap (1..(i + 1)) PROVE Holds(t, x)
  <2>0. 1..Len(t) = 1..(Len(s) + 1) /\ Len(s) + 1 \in 1..(Len(s) + 1)
    BY <1>1
  <2>1. CASE x = i + 1
    BY <1>1, <2>0, <2>1 DEF Holds
  <2>2. CASE x \in 1..i
    <3>1. PICK k \in 1..Len(s) : s[k] = x
      BY <2>2 DEF Holds
    <3>2. t[k] = x /\ k \in 1..(Len(s) + 1)
      BY <1>1, <3>1
    <3> QED BY <2>0, <3>2 DEF Holds
  <2> QED BY <2>1, <2>2
<1> QED BY <1>4, <1>5, <1>6 DEF t

\* InOrder lists the members of a set, all of them, in order.
LEMMA InOrderIs ==
  ASSUME NEW S, NEW n \in Nat
  PROVE  /\ InOrder(S, n) \in Seq(S \cap (1..n))
         /\ Increasing(InOrder(S, n))
         /\ \A x \in S \cap (1..n) : Holds(InOrder(S, n), x)
<1>1. PICK f : /\ InOrder(S, n) = f[n] /\ f[0] = <<>>
               /\ \A i \in 1..n : f[i] = IF i \in S THEN Append(f[i - 1], i) ELSE f[i - 1]
  BY InOrderSteps
<1> DEFINE Good(i) == /\ f[i] \in Seq(S \cap (1..i)) /\ Increasing(f[i])
                      /\ \A x \in S \cap (1..i) : Holds(f[i], x)
           T == {i \in Nat : i <= n => Good(i)}
<1>2. 0 \in T
  <2>1. f[0] = <<>> /\ S \cap (1..0) = {}
    BY <1>1
  <2>2. <<>> \in Seq(S \cap (1..0)) /\ Increasing(<<>>)
    BY DEF Increasing
  <2> QED BY <2>1, <2>2
<1>3. ASSUME NEW i \in Nat, i \in T PROVE i + 1 \in T
  <2> SUFFICES ASSUME i + 1 <= n PROVE Good(i + 1)
    OBVIOUS
  <2>1. Good(i)
    BY <1>3
  <2>2. f[i + 1] = IF i + 1 \in S THEN Append(f[i], i + 1) ELSE f[i]
    <3>1. i + 1 \in 1..n /\ (i + 1) - 1 = i
      OBVIOUS
    <3> QED BY <1>1, <3>1
  <2>3. CASE i + 1 \in S
    <3> DEFINE s == f[i]
    <3>1. s \in Seq(S \cap (1..i)) /\ Increasing(s) /\ \A x \in S \cap (1..i) : Holds(s, x)
      BY <2>1
    <3>2. f[i + 1] = Append(s, i + 1)
      BY <2>2, <2>3
    <3> HIDE DEF s
    <3>3. /\ Append(s, i + 1) \in Seq(S \cap (1..(i + 1)))
          /\ Increasing(Append(s, i + 1))
          /\ \A x \in S \cap (1..(i + 1)) : Holds(Append(s, i + 1), x)
      BY <2>3, <3>1, AppendInOrder
    <3> QED BY <3>2, <3>3
  <2>4. CASE i + 1 \notin S
    <3>1. S \cap (1..(i + 1)) = S \cap (1..i)
      BY <2>4
    <3> QED BY <2>1, <2>2, <2>4, <3>1
  <2> QED BY <2>3, <2>4
<1>4. Good(n)
  <2> HIDE DEF T
  <2>1. n \in T
    BY <1>2, <1>3, Induction
  <2> QED BY <2>1 DEF T
<1> QED BY <1>1, <1>4

\* A list of it is in order too, and has what is below any of its members.
LEMMA ListedIs ==
  ASSUME NEW S, NEW n \in Nat, NEW limit \in Nat
  PROVE  /\ Listed(S, n, limit) \in Seq(S \cap (1..n))
         /\ Increasing(Listed(S, n, limit))
         /\ \A k \in 1..Len(Listed(S, n, limit)) : \A x \in S :
              x \in 1..Listed(S, n, limit)[k] => Holds(SubSeq(Listed(S, n, limit), 1, k), x)
<1> DEFINE all == InOrder(S, n)
           m == IF Len(all) < limit THEN Len(all) ELSE limit
           q == Listed(S, n, limit)
<1>1. /\ all \in Seq(S \cap (1..n)) /\ Increasing(all)
      /\ \A x \in S \cap (1..n) : Holds(all, x)
  BY InOrderIs
<1> HIDE DEF all
<1>2. q = SubSeq(all, 1, m)
  BY DEF Listed, all
<1>3. m \in 0..Len(all)
  BY <1>1
<1> HIDE DEF m, q
<1>4. /\ q \in Seq(S \cap (1..n)) /\ Len(q) = m
      /\ \A k \in 1..m : q[k] = all[k] /\ k \in 1..Len(all)
  BY <1>1, <1>2, <1>3
<1>5. Increasing(q)
  BY <1>1, <1>4 DEF Increasing
<1>6. ASSUME NEW k \in 1..Len(q), NEW x \in S, x \in 1..q[k] PROVE Holds(SubSeq(q, 1, k), x)
  <2>1. q[k] \in 1..n /\ q[k] = all[k] /\ k \in 1..Len(all)
    BY <1>4
  <2>2. PICK j \in 1..Len(all) : all[j] = x
    BY <1>1, <1>6, <2>1 DEF Holds
  <2>3. j <= k
    BY <1>1, <1>6, <2>1, <2>2 DEF Increasing
  <2>4. Len(SubSeq(q, 1, k)) = k /\ SubSeq(q, 1, k)[j] = q[j] /\ j \in 1..m
    BY <1>3, <1>4, <2>3
  <2> QED BY <1>4, <2>2, <2>3, <2>4 DEF Holds
<1> QED BY <1>4, <1>5, <1>6 DEF q

\* Of two increasing sequences that each have every member of a set up to their
\* last, the first place they differ in is not behind in either.
LEMMA NotBehind ==
  ASSUME NEW F, NEW a, NEW b, Len(a) \in Nat, Len(b) \in Nat,
         \A k \in 1..Len(a) : a[k] \in Nat \ {0} /\ a[k] \in F,
         \A k \in 1..Len(b) : b[k] \in Nat \ {0},
         Increasing(a), Increasing(b),
         \A i \in 1..b[Len(b)] : i \in F => Holds(b, i),
         NEW n \in Nat, n + 1 <= Len(a), n + 1 <= Len(b),
         \A j \in 1..n : a[j] = b[j]
  PROVE  ~(a[n + 1] < b[n + 1])
<1> SUFFICES ASSUME a[n + 1] < b[n + 1] PROVE FALSE
  OBVIOUS
<1>1. n + 1 \in 1..Len(a) /\ n + 1 \in 1..Len(b) /\ Len(b) \in 1..Len(b)
  OBVIOUS
<1>2. b[n + 1] <= b[Len(b)]
  <2>1. CASE n + 1 = Len(b)
    BY <1>1, <2>1
  <2>2. CASE n + 1 < Len(b)
    BY <1>1, <2>2 DEF Increasing
  <2> QED BY <2>1, <2>2
<1>3. a[n + 1] \in 1..b[Len(b)] /\ a[n + 1] \in F
  BY <1>1, <1>2
<1>4. PICK j \in 1..Len(b) : b[j] = a[n + 1]
  BY <1>3 DEF Holds
<1>5. j \in 1..n
  <2>1. CASE j = n + 1
    BY <1>1, <1>4, <2>1
  <2>2. CASE n + 1 < j
    <3>1. b[n + 1] < b[j]
      BY <1>1, <2>2 DEF Increasing
    <3> QED BY <1>1, <1>4, <3>1
  <2> QED BY <2>1, <2>2
<1>6. a[j] = a[n + 1] /\ j < n + 1 /\ j \in 1..Len(a)
  BY <1>4, <1>5
<1>7. a[j] < a[n + 1]
  BY <1>1, <1>6 DEF Increasing
<1> QED BY <1>1, <1>6, <1>7

\* Sequence a lists, in order, what a set of positive numbers has up to its last.
Lists(a, F) ==
  /\ Len(a) \in Nat /\ Increasing(a)
  /\ \A k \in 1..Len(a) : a[k] \in Nat \ {0} /\ a[k] \in F
  /\ \A i \in 1..a[Len(a)] : i \in F => Holds(a, i)

\* So one of them is the beginning of the other.
LEMMA PrefixesAgree ==
  ASSUME NEW F, NEW a, NEW b, Lists(a, F), Lists(b, F)
  PROVE  \A k \in 1..Len(a) : k <= Len(b) => a[k] = b[k]
<1> USE DEF Lists
<1> DEFINE Agree(n) == \A k \in 1..n : k <= Len(a) /\ k <= Len(b) => a[k] = b[k]
           T == {n \in Nat : Agree(n)}
<1>1. 0 \in T
  OBVIOUS
<1>2. ASSUME NEW n \in Nat, n \in T PROVE n + 1 \in T
  <2>1. CASE n + 1 <= Len(a) /\ n + 1 <= Len(b)
    <3>1. \A j \in 1..n : a[j] = b[j]
      BY <1>2, <2>1
    <3>2. ~(a[n + 1] < b[n + 1])
      BY <2>1, <3>1, NotBehind
    <3>3. ~(b[n + 1] < a[n + 1])
      BY <2>1, <3>1, NotBehind
    <3>4. a[n + 1] = b[n + 1]
      BY <2>1, <3>2, <3>3
    <3> QED BY <3>1, <3>4
  <2>2. CASE ~(n + 1 <= Len(a) /\ n + 1 <= Len(b))
    BY <1>2, <2>2
  <2> QED BY <2>1, <2>2
<1>3. Len(a) \in T
  <2> HIDE DEF T
  <2> QED BY <1>1, <1>2, Induction
<1> QED BY <1>3

\* An increasing sequence of all the members of a set is InOrder of it.
LEMMA InOrderOnly ==
  ASSUME NEW S, NEW n \in Nat, S \subseteq 1..n,
         NEW a \in Seq(S), Increasing(a), \A x \in S : Holds(a, x)
  PROVE  InOrder(S, n) = a
<1> DEFINE b == InOrder(S, n)
<1>0. S \cap (1..n) = S
  OBVIOUS
<1>1. b \in Seq(S) /\ Increasing(b) /\ \A x \in S : Holds(b, x)
  BY <1>0, InOrderIs
<1> HIDE DEF b
<1>2. /\ Len(a) \in Nat /\ \A k \in 1..Len(a) : a[k] \in Nat \ {0} /\ a[k] \in S
      /\ Len(b) \in Nat /\ \A k \in 1..Len(b) : b[k] \in Nat \ {0} /\ b[k] \in S
  <2>1. \A x \in S : x \in Nat \ {0}
    OBVIOUS
  <2>2. Len(a) \in Nat /\ \A k \in 1..Len(a) : a[k] \in S
    OBVIOUS
  <2>3. Len(b) \in Nat /\ \A k \in 1..Len(b) : b[k] \in S
    BY <1>1
  <2> QED BY <2>1, <2>2, <2>3
<1>3. Lists(a, S) /\ Lists(b, S)
  BY <1>1, <1>2 DEF Lists
<1>4. /\ \A k \in 1..Len(a) : k <= Len(b) => a[k] = b[k]
      /\ \A k \in 1..Len(b) : k <= Len(a) => b[k] = a[k]
  BY <1>3, PrefixesAgree
<1>5. ASSUME NEW c, NEW d, Len(c) \in Nat, Len(d) \in Nat, Len(c) < Len(d),
             \A k \in 1..Len(d) : d[k] \in Nat /\ d[k] \in S,
             \A k \in 1..Len(d) : k <= Len(c) => d[k] = c[k],
             Increasing(d), \A x \in S : Holds(c, x)
      PROVE  FALSE
  <2>1. Len(d) \in 1..Len(d) /\ d[Len(d)] \in S
    BY <1>5
  <2>2. PICK k \in 1..Len(c) : c[k] = d[Len(d)]
    BY <1>5, <2>1 DEF Holds
  <2>3. k \in 1..Len(d) /\ k < Len(d) /\ d[k] = d[Len(d)]
    BY <1>5, <2>2
  <2>4. d[k] < d[Len(d)]
    BY <1>5, <2>1, <2>3 DEF Increasing
  <2> QED BY <1>5, <2>1, <2>3, <2>4
<1>6. ~(Len(a) < Len(b))
  BY <1>1, <1>2, <1>4, <1>5
<1>7. ~(Len(b) < Len(a))
  BY <1>1, <1>2, <1>4, <1>5
<1>8. Len(a) = Len(b)
  BY <1>2, <1>6, <1>7
<1>9. a = b
  <2>1. a = [k \in 1..Len(a) |-> a[k]] /\ b = [k \in 1..Len(b) |-> b[k]]
    BY <1>1
  <2>2. \A k \in 1..Len(a) : a[k] = b[k]
    BY <1>2, <1>4, <1>8
  <2> QED BY <1>8, <2>1, <2>2
<1> QED BY <1>9 DEF b

-------------------------------------------------------------------------------
(* Sums *)

\* Amounts added one by one add up to the sums.
LEMMA SumsAdd ==
  ASSUME NEW n \in Nat, NEW p, NEW q, NEW r, Len(p) = n, Len(q) = n, Len(r) = n,
         Numbers(p), Numbers(q), \A i \in 1..n : r[i] = p[i] + q[i]
  PROVE  Total(r) = Total(p) + Total(q)
<1>1. Numbers(r)
  BY DEF Numbers
<1> DEFINE S == {i \in Nat : i <= n => Totals(r)[i] = Totals(p)[i] + Totals(q)[i]}
<1>2. 0 \in S
  BY <1>1, TotalsOf
<1>3. ASSUME NEW i \in Nat, i \in S PROVE i + 1 \in S
  <2> SUFFICES ASSUME i + 1 <= n
               PROVE  Totals(r)[i + 1] = Totals(p)[i + 1] + Totals(q)[i + 1]
    OBVIOUS
  <2>1. i + 1 \in 1..n /\ (i + 1) - 1 = i /\ i \in 0..n
    OBVIOUS
  <2>2. /\ Totals(r)[i + 1] = Totals(r)[i] + r[i + 1]
        /\ Totals(p)[i + 1] = Totals(p)[i] + p[i + 1]
        /\ Totals(q)[i + 1] = Totals(q)[i] + q[i + 1]
    BY <1>1, <2>1, TotalsOf
  <2>3. Totals(p)[i] \in Int /\ Totals(q)[i] \in Int /\ p[i + 1] \in Int /\ q[i + 1] \in Int
    BY <2>1, TotalsOf DEF Numbers
  <2>4. Totals(r)[i] = Totals(p)[i] + Totals(q)[i] /\ r[i + 1] = p[i + 1] + q[i + 1]
    BY <1>3, <2>1
  <2> QED BY <2>2, <2>3, <2>4
<1>4. n \in S
  <2> HIDE DEF S
  <2> QED BY <1>2, <1>3, Induction
<1> QED BY <1>4 DEF Total

\* The sum of naturals is one, and no less than the sum of the first of them.
LEMMA TotalNat ==
  ASSUME NEW q, Len(q) \in Nat, \A i \in 1..Len(q) : q[i] \in Nat
  PROVE  Total(q) \in Nat /\ \A m \in 0..Len(q) : Totals(q)[m] <= Total(q)
<1>1. Numbers(q)
  BY DEF Numbers
<1>2. Totals(q)[0] = 0 /\ Totals(q)[Len(q)] \in Int /\ 0 \in 0..Len(q) /\ Len(q) \in 0..Len(q)
  BY <1>1, TotalsOf
<1>3. \A m \in 0..Len(q) : Totals(q)[m] <= Totals(q)[Len(q)]
  BY <1>2, TotalsGrow
<1> QED BY <1>2, <1>3 DEF Total

\* The sum of integers is an integer.
LEMMA TotalInt ==
  ASSUME NEW q, Len(q) \in Nat, Numbers(q)
  PROVE  Total(q) \in Int
<1>1. Len(q) \in 0..Len(q)
  OBVIOUS
<1> QED BY <1>1, TotalsOf DEF Total

\* Zeros at the end change no sum.
LEMMA TotalPadded ==
  ASSUME NEW p, NEW q, Len(p) \in Nat, Len(q) \in Nat, Len(p) <= Len(q), Numbers(p),
         \A i \in 1..Len(p) : q[i] = p[i],
         \A i \in 1..Len(q) : i > Len(p) => q[i] = 0
  PROVE  Total(q) = Total(p)
<1>1. Numbers(q)
  <2> SUFFICES ASSUME NEW i \in 1..Len(q) PROVE q[i] \in Int
    BY DEF Numbers
  <2>1. CASE i <= Len(p)
    BY <2>1 DEF Numbers
  <2>2. CASE i > Len(p)
    BY <2>2
  <2> QED BY <2>1, <2>2
<1>2. Totals(q)[Len(p)] = Totals(p)[Len(p)]
  BY <1>1, TotalsAgree
<1> DEFINE S == {i \in Nat : Len(p) <= i /\ i <= Len(q) => Totals(q)[i] = Totals(q)[Len(p)]}
<1>3. 0 \in S
  OBVIOUS
<1>4. ASSUME NEW i \in Nat, i \in S PROVE i + 1 \in S
  <2> SUFFICES ASSUME Len(p) <= i + 1, i + 1 <= Len(q)
               PROVE  Totals(q)[i + 1] = Totals(q)[Len(p)]
    OBVIOUS
  <2>1. CASE Len(p) = i + 1
    BY <2>1
  <2>2. CASE Len(p) <= i
    <3>1. i + 1 \in 1..Len(q) /\ (i + 1) - 1 = i /\ i \in 0..Len(q) /\ i + 1 > Len(p)
      BY <2>2
    <3>2. Totals(q)[i + 1] = Totals(q)[i] + q[i + 1] /\ Totals(q)[i] \in Int /\ q[i + 1] = 0
      BY <1>1, <3>1, TotalsOf
    <3>3. Totals(q)[i] = Totals(q)[Len(p)]
      BY <1>4, <2>2, <3>1
    <3> QED BY <3>2, <3>3
  <2> QED BY <2>1, <2>2
<1>5. Len(q) \in S
  <2> HIDE DEF S
  <2> QED BY <1>3, <1>4, Induction
<1> QED BY <1>2, <1>5 DEF Total

\* Nothing but zeros is worth nothing.
LEMMA TotalOfZeros ==
  ASSUME NEW q, Len(q) \in Nat, \A i \in 1..Len(q) : q[i] = 0
  PROVE  Total(q) = 0
<1>1. Len(<<>>) = 0 /\ Numbers(<<>>) /\ Total(<<>>) = 0
  <2>1. Len(<<>>) = 0 /\ Numbers(<<>>)
    BY DEF Numbers
  <2> QED BY <2>1, TotalsOf DEF Total
<1> QED BY <1>1, TotalPadded

\* One amount among zeros.
LEMMA TotalOfOne ==
  ASSUME NEW q, Len(q) \in Nat, NEW j \in 1..Len(q), NEW x \in Int, q[j] = x,
         \A i \in 1..Len(q) : i # j => q[i] = 0
  PROVE  Total(q) = x
<1> DEFINE before == [i \in 1..(j - 1) |-> 0]
           upTo == [i \in 1..j |-> q[i]]
<1>1. j \in Nat /\ j - 1 \in Nat /\ Len(before) = j - 1 /\ Len(upTo) = j
  OBVIOUS
<1>2. (\A i \in 1..(j - 1) : before[i] = 0 /\ upTo[i] = 0) /\ upTo[j] = x
  OBVIOUS
<1>3. \A i \in 1..j : upTo[i] = q[i]
  OBVIOUS
<1> HIDE DEF before, upTo
<1>4. Numbers(before) /\ Numbers(upTo)
  <2>1. \A i \in 1..j : i = j \/ i \in 1..(j - 1)
    OBVIOUS
  <2> QED BY <1>1, <1>2, <2>1 DEF Numbers
<1>5. Totals(before)[j - 1] = 0
  BY <1>1, <1>2, TotalOfZeros DEF Total
<1>6. Totals(upTo)[j - 1] = Totals(before)[j - 1]
  BY <1>1, <1>2, <1>4, TotalsAgree
<1>7. Totals(upTo)[j] = Totals(upTo)[j - 1] + upTo[j]
  BY <1>1, <1>4, TotalsOf
<1>8. Total(upTo) = x
  BY <1>1, <1>2, <1>5, <1>6, <1>7 DEF Total
<1>9. Total(q) = Total(upTo)
  BY <1>1, <1>3, <1>4, TotalPadded
<1> QED BY <1>8, <1>9

\* One amount that changes changes the sum by as much.
LEMMA TotalChanged ==
  ASSUME NEW p, NEW q, Len(p) \in Nat, Len(q) = Len(p), Numbers(p), Numbers(q),
         NEW j \in 1..Len(p), \A i \in 1..Len(p) : i # j => q[i] = p[i]
  PROVE  Total(q) = Total(p) + (q[j] - p[j])
<1> DEFINE d == [i \in 1..Len(p) |-> IF i = j THEN q[j] - p[j] ELSE 0]
<1>1. q[j] \in Int /\ p[j] \in Int /\ \A i \in 1..Len(p) : p[i] \in Int /\ q[i] \in Int
  BY DEF Numbers
<1>2. Len(d) = Len(p) /\ d[j] = q[j] - p[j] /\ \A i \in 1..Len(p) : i # j => d[i] = 0
  OBVIOUS
<1> HIDE DEF d
<1>3. Numbers(d)
  BY <1>1, <1>2 DEF Numbers
<1>4. \A i \in 1..Len(p) : q[i] = p[i] + d[i]
  BY <1>1, <1>2
<1>5. Total(d) = q[j] - p[j]
  BY <1>1, <1>2, TotalOfOne
<1> QED BY <1>2, <1>3, <1>4, <1>5, SumsAdd

\* One amount more at the end.
LEMMA TotalMore ==
  ASSUME NEW p, NEW q, Len(p) \in Nat, Len(q) = Len(p) + 1, Numbers(p), Numbers(q),
         \A i \in 1..Len(p) : q[i] = p[i]
  PROVE  Total(q) = Total(p) + q[Len(q)]
<1>1. Totals(q)[Len(p)] = Totals(p)[Len(p)]
  BY TotalsAgree
<1>2. Len(q) \in 1..Len(q) /\ Len(q) - 1 = Len(p) /\ Len(q) \in Nat
  OBVIOUS
<1>3. Totals(q)[Len(q)] = Totals(q)[Len(p)] + q[Len(q)]
  BY <1>2, TotalsOf
<1> QED BY <1>1, <1>3 DEF Total

\* The sum over the indices of two sets is the sum of both.
LEMMA SumAtUnion ==
  ASSUME NEW q, Len(q) \in Nat, Numbers(q), NEW S, NEW T, S \cap T = {}
  PROVE  SumAt(S \cup T, q) = SumAt(S, q) + SumAt(T, q)
<1> DEFINE part(U) == [i \in 1..Len(q) |-> IF i \in U THEN q[i] ELSE 0]
<1>1. \A U : /\ Len(part(U)) = Len(q) /\ Numbers(part(U))
             /\ \A i \in 1..Len(q) : part(U)[i] = IF i \in U THEN q[i] ELSE 0
  BY DEF Numbers
<1>2. \A U : SumAt(U, q) = Total(part(U))
  BY DEF SumAt
<1> HIDE DEF part
<1>3. \A i \in 1..Len(q) : part(S \cup T)[i] = part(S)[i] + part(T)[i]
  <2> SUFFICES ASSUME NEW i \in 1..Len(q) PROVE part(S \cup T)[i] = part(S)[i] + part(T)[i]
    OBVIOUS
  <2>1. q[i] \in Int
    BY DEF Numbers
  <2>2. ~(i \in S /\ i \in T)
    OBVIOUS
  <2> QED BY <1>1, <2>1, <2>2
<1>4. Total(part(S \cup T)) = Total(part(S)) + Total(part(T))
  BY <1>1, <1>3, SumsAdd
<1> QED BY <1>2, <1>4

\* The sum over indices of a sequence that grew is what it was.
LEMMA SumAtGrown ==
  ASSUME NEW p, NEW q, Len(p) \in Nat, Len(q) \in Nat, Len(p) <= Len(q), Numbers(p),
         \A i \in 1..Len(p) : q[i] = p[i],
         NEW S, \A i \in S : i \in 1..Len(p)
  PROVE  SumAt(S, q) = SumAt(S, p)
<1> DEFINE part(r) == [i \in 1..Len(r) |-> IF i \in S THEN r[i] ELSE 0]
<1>1. /\ Len(part(p)) = Len(p) /\ Len(part(q)) = Len(q)
      /\ \A i \in 1..Len(p) : part(p)[i] = IF i \in S THEN p[i] ELSE 0
      /\ \A i \in 1..Len(q) : part(q)[i] = IF i \in S THEN q[i] ELSE 0
  OBVIOUS
<1>2. SumAt(S, p) = Total(part(p)) /\ SumAt(S, q) = Total(part(q))
  BY DEF SumAt
<1> HIDE DEF part
<1>3. Numbers(part(p))
  BY <1>1 DEF Numbers
<1>4. \A i \in 1..Len(p) : part(q)[i] = part(p)[i]
  <2>1. \A i \in 1..Len(p) : i \in 1..Len(q)
    OBVIOUS
  <2> QED BY <1>1, <2>1
<1>5. \A i \in 1..Len(q) : i > Len(p) => part(q)[i] = 0
  BY <1>1
<1> QED BY <1>1, <1>2, <1>3, <1>4, <1>5, TotalPadded

\* No indices, no sum.
LEMMA SumAtNone ==
  ASSUME NEW q, Len(q) \in Nat, NEW S, S = {}
  PROVE  SumAt(S, q) = 0
<1> DEFINE part == [i \in 1..Len(q) |-> IF i \in S THEN q[i] ELSE 0]
<1>1. Len(part) = Len(q) /\ \A i \in 1..Len(q) : part[i] = 0
  OBVIOUS
<1>2. SumAt(S, q) = Total(part)
  BY DEF SumAt
<1> HIDE DEF part
<1> QED BY <1>1, <1>2, TotalOfZeros

\* The sum over all the indices is the sum, and it looks at no others.
LEMMA SumAtAll ==
  ASSUME NEW q, Len(q) \in Nat, Numbers(q), NEW S, \A i \in 1..Len(q) : i \in S
  PROVE  SumAt(S, q) = Total(q)
<1> DEFINE r == [i \in 1..Len(q) |-> IF i \in S THEN q[i] ELSE 0]
<1>1. Len(r) = Len(q) /\ \A i \in 1..Len(q) : r[i] = q[i]
  OBVIOUS
<1> HIDE DEF r
<1>2. Total(r) = Total(q)
  BY <1>1, TotalPadded
<1> QED BY <1>2 DEF SumAt, r

LEMMA SumAtSame ==
  ASSUME NEW p, NEW q, Len(q) = Len(p), NEW S, \A i \in 1..Len(p) : i \in S => q[i] = p[i]
  PROVE  SumAt(S, q) = SumAt(S, p)
BY DEF SumAt

\* The amounts at increasing indices are worth what they are as a sequence.
LEMMA WorthOfIndices ==
  ASSUME NEW q, Len(q) \in Nat, Numbers(q), NEW s \in Seq(1..Len(q)), Increasing(s)
  PROVE  SumAt({s[k] : k \in 1..Len(s)}, q) = Total([k \in 1..Len(s) |-> q[s[k]]])
<1> DEFINE w == [k \in 1..Len(s) |-> q[s[k]]]
           of(m) == {s[k] : k \in 1..m}
           T == {m \in Nat : m <= Len(s) => SumAt(of(m), q) = Totals(w)[m]}
<1>1. Len(s) \in Nat /\ \A k \in 1..Len(s) : s[k] \in 1..Len(q)
  OBVIOUS
<1>2. Len(w) = Len(s) /\ \A k \in 1..Len(s) : w[k] = q[s[k]]
  BY <1>1
<1>3. Numbers(w)
  BY <1>1, <1>2 DEF Numbers
<1> HIDE DEF w
<1>4. /\ Totals(w)[0] = 0
      /\ \A i \in 1..Len(s) : Totals(w)[i] = Totals(w)[i - 1] + w[i]
  BY <1>1, <1>2, <1>3, TotalsOf
<1>5. 0 \in T
  <2>1. of(0) = {}
    OBVIOUS
  <2> QED BY <1>4, <2>1, SumAtNone
<1>6. ASSUME NEW m \in Nat, m \in T PROVE m + 1 \in T
  <2> SUFFICES ASSUME m + 1 <= Len(s)
               PROVE  SumAt(of(m + 1), q) = Totals(w)[m + 1]
    OBVIOUS
  <2>1. m + 1 \in 1..Len(s) /\ s[m + 1] \in 1..Len(q) /\ q[s[m + 1]] \in Int
    BY <1>1 DEF Numbers
  <2>2. of(m + 1) = of(m) \cup {s[m + 1]}
    <3>1. \A k \in 1..(m + 1) : k \in 1..m \/ k = m + 1
      OBVIOUS
    <3> QED BY <3>1
  <2>3. of(m) \cap {s[m + 1]} = {}
    <3>1. \A k \in 1..m : k \in 1..Len(s) /\ k < m + 1 /\ s[k] < s[m + 1] /\ s[k] \in Int
      BY <1>1, <2>1 DEF Increasing
    <3> QED BY <2>1, <3>1
  <2>4. SumAt({s[m + 1]}, q) = q[s[m + 1]]
    <3> DEFINE one == [i \in 1..Len(q) |-> IF i \in {s[m + 1]} THEN q[i] ELSE 0]
    <3>1. /\ Len(one) = Len(q) /\ one[s[m + 1]] = q[s[m + 1]]
          /\ \A i \in 1..Len(q) : i # s[m + 1] => one[i] = 0
      BY <2>1
    <3> HIDE DEF one
    <3>2. Total(one) = q[s[m + 1]]
      BY <2>1, <3>1, TotalOfOne
    <3> QED BY <3>2 DEF SumAt, one
  <2> HIDE DEF of
  <2>5. SumAt(of(m + 1), q) = SumAt(of(m), q) + SumAt({s[m + 1]}, q)
    BY <2>2, <2>3, SumAtUnion
  <2>6. SumAt(of(m), q) = Totals(w)[m]
    BY <1>6, <2>1
  <2>7. Totals(w)[m + 1] = Totals(w)[m] + w[m + 1]
    BY <1>4, <2>1
  <2> QED BY <1>2, <2>1, <2>4, <2>5, <2>6, <2>7
<1> HIDE DEF T
<1>7. Len(s) \in T
  BY <1>1, <1>5, <1>6, Induction
<1> QED BY <1>1, <1>2, <1>7 DEF T, w, Total

\* A list is no longer than asked for, and a shorter one has everything.
LEMMA ListedAll ==
  ASSUME NEW S, NEW n \in Nat, NEW limit \in Nat
  PROVE  /\ Len(Listed(S, n, limit)) <= limit
         /\ Len(Listed(S, n, limit)) < limit =>
              \A x \in S \cap (1..n) : Holds(Listed(S, n, limit), x)
<1> DEFINE all == InOrder(S, n)
           m == IF Len(all) < limit THEN Len(all) ELSE limit
<1>1. all \in Seq(S \cap (1..n)) /\ \A x \in S \cap (1..n) : Holds(all, x)
  BY InOrderIs
<1>2. Listed(S, n, limit) = SubSeq(all, 1, m)
  BY DEF Listed
<1> HIDE DEF all
<1>3. m \in 0..Len(all) /\ m <= limit /\ (m < limit => m = Len(all))
  BY <1>1
<1> HIDE DEF m
<1>4. Len(SubSeq(all, 1, m)) = m
  BY <1>1, <1>3
<1>5. m = Len(all) => SubSeq(all, 1, m) = all
  BY <1>1
<1> QED BY <1>1, <1>2, <1>3, <1>4, <1>5
=============================================================================
