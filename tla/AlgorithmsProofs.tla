--------------------------- MODULE AlgorithmsProofs ---------------------------
(***************************************************************************)
(* The inputs of a payment, the split of its change, the addresses it is   *)
(* sent to, the transactions of the kernel, the messages encrypted for     *)
(* several sessions and the invoices, for inputs of any size.              *)
(***************************************************************************)
EXTENDS MCAlgorithms, RawTransactionProofs

\* The inputs are there if and only if the wallet is worth the amount.
LEMMA SelectedIfWorth ==
  ASSUME NEW q, Len(q) \in Nat, \A i \in 1..Len(q) : q[i] \in Nat, NEW amount \in Nat
  PROVE  SelectOutputs(q, amount).ok <=> q # <<>> /\ Total(q) >= amount
<1> DEFINE n == Taken(q, amount)
<1>1. Numbers(q)
  BY DEF Numbers
<1>2. n \in 0..Len(q) /\ (n = Len(q) \/ Totals(q)[n] >= amount)
  BY <1>1, TakenIs
<1>3. Totals(q)[n] \in Int /\ Totals(q)[Len(q)] \in Int
  BY <1>1, <1>2, TotalsOf
<1>4. Totals(q)[n] <= Totals(q)[Len(q)]
  BY <1>2, TotalsGrow
<1>5. Totals(q)[n] < amount <=> Totals(q)[Len(q)] < amount
  BY <1>2, <1>3, <1>4
<1>6. SelectOutputs(q, amount).ok <=> ~(q = <<>> \/ Totals(q)[n] < amount)
  BY DEF SelectOutputs, Insufficient
<1> QED BY <1>3, <1>5, <1>6 DEF Total

\* A payment's input is a wallet of amounts and an amount.
LEMMA WalletOf ==
  ASSUME in \in Payments \cup Addressed \cup Others, Is("payment")
  PROVE  /\ Len(in.outputs) \in Nat /\ Numbers(in.outputs)
         /\ \A i \in 1..Len(in.outputs) : in.outputs[i] \in Nat
         /\ in.amount \in Nat \ {0}
<1>1. in.outputs \in Wallets /\ in.amount \in Amounts
  BY DEF Is, Payments, Addressed, Others
<1>2. PICK n \in 0..MaxLen : in.outputs \in [1..n -> Amounts]
  BY <1>1 DEF Wallets
<1>3. n \in Nat /\ \A x \in Amounts : x \in Nat /\ x # 0
  BY SizesAssumption DEF Amounts
<1> DEFINE q == in.outputs
<1>4. q \in Seq(Amounts) /\ in.amount \in Amounts
  BY <1>1, <1>2, <1>3
<1>5. Len(q) \in Nat /\ \A i \in 1..Len(q) : q[i] \in Amounts
  <2> HIDE DEF q
  <2> QED BY <1>4
<1> QED BY <1>3, <1>4, <1>5 DEF Numbers

\* The inputs of a payment are worth its amount and the change, they are the
\* first of the wallet, and no fewer would do, for a wallet of any length and
\* outputs of any amount.
THEOREM SelectionAlways == Spec => []SelectionIsLeast
<1> DEFINE IsInput == in \in Payments \cup Addressed \cup Others
<1>1. Init => IsInput
  BY DEF Init
<1>2. IsInput /\ [Next]_<<in, done>> => IsInput'
  BY DEF Next, Compute
<1>3. ASSUME IsInput PROVE SelectionIsLeast
  <2> SUFFICES ASSUME Is("payment") PROVE
        /\ Chosen.ok <=> in.outputs # <<>> /\ Total(in.outputs) >= in.amount
        /\ Chosen.ok =>
             /\ Totals(in.outputs)[Chosen.taken] = in.amount + Chosen.change
             /\ Chosen.taken > 1 => Totals(in.outputs)[Chosen.taken - 1] < in.amount
    BY DEF SelectionIsLeast
  <2> QED
    BY <1>3, WalletOf, SelectedIfWorth, SelectedWorth, SelectedLeast DEF Chosen
<1> QED BY <1>1, <1>2, <1>3, PTL DEF Spec

-------------------------------------------------------------------------------

\* The running total of the change that is handed out, and its equation.
Split(f, change, part, count) ==
  f = [i \in 0..count |->
         IF i = 0 THEN 0
         ELSE IF f[i - 1] + part <= change /\ i < count THEN f[i - 1] + part ELSE change]

\* The recursion has a solution for any number of parts, which never passes the
\* change and reaches it with the last.
LEMMA SplitExists ==
  ASSUME NEW change \in Nat, NEW part \in Nat, NEW count \in Nat
  PROVE  \E f : Split(f, change, part, count)
<1> DEFINE Next1(x, i) == IF x + part <= change /\ i < count THEN x + part ELSE change
           Solves(f, n) == f = [i \in 0..n |-> IF i = 0 THEN 0 ELSE Next1(f[i - 1], i)]
           S == {n \in Nat : \E f : Solves(f, n)}
<1>1. 0 \in S
  <2>1. Solves([i \in 0..0 |-> 0], 0)
    OBVIOUS
  <2> QED BY <2>1
<1>2. ASSUME NEW n \in Nat, n \in S PROVE n + 1 \in S
  <2>1. PICK f : Solves(f, n)
    BY <1>2
  <2> HIDE DEF Next1
  <2> DEFINE u == [i \in 0..(n + 1) |-> IF i <= n THEN f[i] ELSE Next1(f[n], n + 1)]
  <2>2. \A i \in 0..n : f[i] = IF i = 0 THEN 0 ELSE Next1(f[i - 1], i)
    BY <2>1
  <2>3. \A i \in 0..(n + 1) : u[i] = IF i = 0 THEN 0 ELSE Next1(u[i - 1], i)
    BY <2>2
  <2>4. u = [i \in 0..(n + 1) |-> u[i]]
    OBVIOUS
  <2> HIDE DEF u
  <2>5. Solves(u, n + 1)
    BY <2>3, <2>4
  <2> QED BY <2>5
<1>3. count \in S
  <2> HIDE DEF S
  <2> QED BY <1>1, <1>2, Induction
<1>4. PICK f : Solves(f, count)
  BY <1>3
<1> QED BY <1>4 DEF Split

LEMMA SplitIs ==
  ASSUME NEW change \in Nat, NEW part \in Nat, NEW count \in Nat \ {0}, NEW f,
         Split(f, change, part, count)
  PROVE  /\ f[0] = 0 /\ f[count] = change
         /\ \A i \in 1..count :
              f[i] = IF f[i - 1] + part <= change /\ i < count THEN f[i - 1] + part ELSE change
         /\ \A i \in 0..count : f[i] \in 0..change
<1>1. \A i \in 0..count : f[i] = IF i = 0 THEN 0
         ELSE IF f[i - 1] + part <= change /\ i < count THEN f[i - 1] + part ELSE change
  BY DEF Split
<1>2. f[0] = 0
  BY <1>1
<1>3. \A i \in 1..count :
        f[i] = IF f[i - 1] + part <= change /\ i < count THEN f[i - 1] + part ELSE change
  BY <1>1
<1>4. f[count] = change
  BY <1>3
<1> DEFINE S == {n \in Nat : n <= count => f[n] \in 0..change}
<1>5. 0 \in S
  BY <1>2
<1>6. ASSUME NEW n \in Nat, n \in S PROVE n + 1 \in S
  <2> SUFFICES ASSUME n + 1 <= count PROVE f[n + 1] \in 0..change
    OBVIOUS
  <2>1. f[n + 1] = IF f[n] + part <= change /\ n + 1 < count THEN f[n] + part ELSE change
    <3>1. n + 1 \in 1..count /\ (n + 1) - 1 = n
      OBVIOUS
    <3> QED BY <1>3, <3>1
  <2>2. f[n] \in 0..change
    BY <1>6
  <2> QED BY <2>1, <2>2
<1>7. \A n \in Nat : n \in S
  <2> HIDE DEF S
  <2> QED BY <1>5, <1>6, Induction
<1> QED BY <1>2, <1>3, <1>4, <1>7

\* What is handed out is the change, in full parts up to a last one.
GoodSplit(parts, change, part, count) ==
  LET n == Len(parts)
  IN /\ Total(parts) = change
     /\ \A i \in 1..n : parts[i] > 0
     /\ n > 1 => n <= count /\ \A i \in 1..(n - 1) : parts[i] = part

\* A change that is not split.
LEMMA WholeChange ==
  ASSUME NEW change \in Nat, NEW part, NEW count
  PROVE  GoodSplit(IF change > 0 THEN <<change>> ELSE <<>>, change, part, count)
<1>1. CASE change > 0
  <2> DEFINE q == <<change>>
  <2>1. Len(q) = 1 /\ q[1] = change
    OBVIOUS
  <2> HIDE DEF q
  <2>2. Len(q) \in Nat /\ Numbers(q)
    BY <2>1 DEF Numbers
  <2>3. Totals(q)[0] = 0 /\ Totals(q)[1] = Totals(q)[1 - 1] + q[1]
    BY <2>1, <2>2, TotalsOf
  <2>4. Total(q) = change
    BY <2>1, <2>3 DEF Total
  <2>5. GoodSplit(q, change, part, count)
    BY <1>1, <2>1, <2>4 DEF GoodSplit
  <2> QED BY <1>1, <2>5 DEF q
<1>2. CASE change = 0
  <2> DEFINE q == <<>>
  <2>1. Len(q) = 0
    OBVIOUS
  <2> HIDE DEF q
  <2>2. Len(q) \in Nat /\ Numbers(q)
    BY <2>1 DEF Numbers
  <2>3. Total(q) = change
    BY <1>2, <2>1, <2>2, TotalsOf DEF Total
  <2>4. GoodSplit(q, change, part, count)
    BY <2>1, <2>3 DEF GoodSplit
  <2> QED BY <1>2, <2>4 DEF q
<1> QED BY <1>1, <1>2

\* The parts of a change are the steps of its running total, which is at the
\* change for the first time after the last of them.
LEMMA StepsAdd ==
  ASSUME NEW change \in Nat, NEW part \in Nat \ {0}, NEW count \in Nat \ {0}, change > part,
         NEW f, Split(f, change, part, count), NEW n \in 1..count, f[n] >= change,
         \A i \in 1..count : f[i] >= change => n <= i
  PROVE  GoodSplit([i \in 1..n |-> f[i] - f[i - 1]], change, part, count)
<1> DEFINE q == [i \in 1..n |-> f[i] - f[i - 1]]
<1>1. /\ f[0] = 0
      /\ \A i \in 1..count :
           f[i] = IF f[i - 1] + part <= change /\ i < count THEN f[i - 1] + part ELSE change
      /\ \A i \in 0..count : f[i] \in 0..change
  BY SplitIs
<1>2. \A i \in 0..(n - 1) : f[i] < change
  BY <1>1
<1>3. \A i \in 1..n : f[i - 1] \in 0..change /\ f[i] \in 0..change
  BY <1>1
<1>4. Len(q) = n /\ \A i \in 1..n : q[i] = f[i] - f[i - 1]
  OBVIOUS
<1> HIDE DEF q
<1>5. Len(q) \in Nat /\ Numbers(q)
  <2>1. \A i \in 1..n : f[i] - f[i - 1] \in Int
    BY <1>3
  <2> QED BY <1>4, <2>1 DEF Numbers
<1>6. \A i \in 1..(n - 1) : q[i] = part
  <2> SUFFICES ASSUME NEW i \in 1..(n - 1) PROVE q[i] = part
    OBVIOUS
  <2>1. i \in 1..count /\ i \in 1..n /\ f[i] # change
    BY <1>2
  <2>2. f[i] = f[i - 1] + part
    BY <1>1, <2>1
  <2> QED BY <1>3, <1>4, <2>1, <2>2
<1>7. q[n] > 0
  <2>1. n \in 1..n /\ n - 1 \in 0..(n - 1)
    OBVIOUS
  <2> QED BY <1>2, <1>3, <1>4, <2>1
<1>8. \A i \in 1..n : q[i] > 0
  BY <1>6, <1>7
<1> DEFINE S == {i \in Nat : i <= n => Totals(q)[i] = f[i]}
<1>9. 0 \in S
  BY <1>1, <1>5, TotalsOf
<1>10. ASSUME NEW i \in Nat, i \in S PROVE i + 1 \in S
  <2> SUFFICES ASSUME i + 1 <= n PROVE Totals(q)[i + 1] = f[i + 1]
    OBVIOUS
  <2>1. i + 1 \in 1..n /\ (i + 1) - 1 = i
    OBVIOUS
  <2>2. Totals(q)[i + 1] = Totals(q)[i] + q[i + 1]
    BY <1>4, <1>5, <2>1, TotalsOf
  <2>3. q[i + 1] = f[i + 1] - f[i] /\ f[i] \in Int /\ f[i + 1] \in Int
    BY <1>3, <1>4, <2>1
  <2> QED BY <1>10, <2>2, <2>3
<1>11. n \in S
  <2> HIDE DEF S
  <2> QED BY <1>9, <1>10, Induction
<1>12. Total(q) = change
  BY <1>1, <1>4, <1>11 DEF Total
<1>13. GoodSplit(q, change, part, count)
  BY <1>4, <1>6, <1>8, <1>12 DEF GoodSplit
<1> QED BY <1>13 DEF q

\* Whatever the change and the caller's wishes, what ChangeParts hands out adds
\* up to the change.
LEMMA PartsAdd ==
  ASSUME NEW change \in Nat, NEW part \in Nat, NEW count \in Nat, NEW recipients,
         ChangeParts(change, part, count, recipients).ok
  PROVE  GoodSplit(ChangeParts(change, part, count, recipients).parts, change, part, count)
<1> DEFINE parts == ChangeParts(change, part, count, recipients).parts
<1>1. CASE count > 0 /\ part > 0 /\ change > part
  <2> DEFINE f == CHOOSE g : Split(g, change, part, count)
             R == {i \in 1..count : f[i] >= change}
             n == Least(R)
  <2>1. Split(f, change, part, count)
    BY SplitExists
  <2>2. parts = [i \in 1..n |-> f[i] - f[i - 1]]
    BY <1>1 DEF ChangeParts, Split
  <2> HIDE DEF f
  <2>3. R \in SUBSET Nat /\ count \in R
    BY <1>1, <2>1, SplitIs
  <2>4. n \in R /\ \A i \in R : n <= i
    <3> HIDE DEF R
    <3> QED BY <2>3, LeastOf DEF Least
  <2> HIDE DEF n
  <2> QED BY <1>1, <2>1, <2>2, <2>4, StepsAdd
<1>2. CASE ~(count > 0 /\ part > 0 /\ change > part)
  <2>1. parts = IF change > 0 THEN <<change>> ELSE <<>>
    BY <1>2 DEF ChangeParts
  <2> QED BY <2>1, WholeChange
<1> QED BY <1>1, <1>2

\* The parts of the change add up to it, none is empty, there are no more of
\* them than asked for, and all but the last are of the amount asked for.
THEOREM SplitAlways == Spec => []SplitKeepsChange
<1> DEFINE IsInput == in \in Payments \cup Addressed \cup Others
<1>1. Init => IsInput
  BY DEF Init
<1>2. IsInput /\ [Next]_<<in, done>> => IsInput'
  BY DEF Next, Compute
<1>3. ASSUME IsInput PROVE SplitKeepsChange
  <2> SUFFICES ASSUME Is("payment"), Chosen.ok,
                      ChangeParts(Chosen.change, in.split, in.count, 1).ok
               PROVE  GoodSplit(ChangeParts(Chosen.change, in.split, in.count, 1).parts,
                                Chosen.change, in.split, in.count)
    BY DEF SplitKeepsChange, GoodSplit
  <2>1. in.split \in Nat /\ in.count \in Nat
    BY <1>3 DEF Is, Payments, Addressed, Others
  <2>2. Chosen.change \in Nat
    BY <1>3, WalletOf, SelectedWorth DEF Chosen
  <2> QED BY <2>1, <2>2, PartsAdd
<1> QED BY <1>1, <1>2, <1>3, PTL DEF Spec

-------------------------------------------------------------------------------

\* NewMixAddressFromString: an address with members, up to as many as a reader
\* takes, is read as it was written, whoever they are.
THEOREM AddressRoundTrip ==
  ASSUME NEW kind \in {"uuid", "xin"}, NEW members, Len(members) \in 1..64,
         NEW threshold \in Nat, NewMixAddress(kind, members, threshold).ok
  PROVE  LET made == NewMixAddress(kind, members, threshold)
         IN /\ made.value = [kind |-> kind, members |-> members, threshold |-> threshold]
            /\ ReadAddressBytes(AddressBytes(made.value)) = made
            /\ ReadAddress(AddressBytes(made.value)) = made
<1> DEFINE ma == [kind |-> kind, members |-> members, threshold |-> threshold]
           b == AddressBytes(ma)
<1>1. NewMixAddress(kind, members, threshold) = Written(ma) /\ threshold # 0
  BY DEF NewMixAddress, Panicked
<1>2. /\ b.version = 2 /\ b.threshold = threshold /\ b.total = Len(members)
      /\ b.members = members
      /\ b.size = 3 + Len(members) * (IF kind = "uuid" THEN 16 ELSE 64)
  BY DEF AddressBytes, UuidSize, XinSize
<1> HIDE DEF b
<1>3. /\ b.size - 3 \in {16 * b.total, 64 * b.total}
      /\ b.size - 3 = 16 * b.total <=> kind = "uuid"
      /\ ~(b.size + 4 < 23) /\ ~(b.total > 64)
  <2>1. PICK n \in 1..64 : n = Len(members)
    OBVIOUS
  <2>2. /\ b.total = n
        /\ kind = "uuid" => b.size = 3 + n * 16
        /\ kind = "xin" => b.size = 3 + n * 64
    BY <1>2, <2>1
  <2>3. \A size \in {3 + n * 16, 3 + n * 64} :
          /\ size - 3 \in {16 * n, 64 * n} /\ ~(size + 4 < 23)
          /\ size = 3 + n * 16 <=> size - 3 = 16 * n
          /\ size = 3 + n * 64 => size - 3 # 16 * n
    OBVIOUS
  <2>4. b.size \in {3 + n * 16, 3 + n * 64} /\ ~(n > 64)
    BY <2>2
  <2> QED BY <2>2, <2>3, <2>4
<1>4. ReadAddressBytes(b) = Written(ma)
  <2>1. kind = IF b.size - 3 = 16 * b.total THEN "uuid" ELSE "xin"
    BY <1>3
  <2>2. ReadAddressBytes(b) =
          Written([kind |-> IF b.size - 3 = 16 * b.total THEN "uuid" ELSE "xin",
                   members |-> b.members, threshold |-> b.threshold])
    BY <1>1, <1>2, <1>3 DEF ReadAddressBytes, UuidSize, XinSize
  <2> QED BY <1>2, <2>1, <2>2
<1>5. ReadAddress(b) = Written(ma)
  BY <1>3, <1>4 DEF ReadAddress
<1>6. Written(ma).value = ma
  BY DEF Written
<1> QED BY <1>1, <1>4, <1>5, <1>6 DEF b

\* The addresses of the runs are made of members, by kind and threshold.
LEMMA AddressesAre ==
  ASSUME NEW a \in Addresses
  PROVE  \E kind \in {"uuid", "xin"}, n \in Nat \ {0}, t \in Nat : a = Address(kind, n, t)
<1>1. PICK kind \in {"uuid", "xin"}, n \in {1, 2, 15, 16, 63, 64, 65, 255, 256},
           t \in {0, 1, 2, 64, 255} : a = Address(kind, n, t)
  BY SMT DEF Addresses
<1>2. n \in Nat \ {0} /\ t \in Nat
  OBVIOUS
<1> HIDE DEF Address
<1> QED BY <1>1, <1>2, SMT

\* They are read as they were written too.
LEMMA AddressOf ==
  ASSUME NEW a \in Addresses, a.ok, Len(a.value.members) <= 64
  PROVE  /\ ReadAddress(AddressBytes(a.value)) = a
         /\ ReadAddressBytes(AddressBytes(a.value)) = a
         /\ a = Written(a.value) /\ a.value.members # <<>>
         /\ a.value.kind \in {"uuid", "xin"}
<1>1. PICK kind \in {"uuid", "xin"}, n \in Nat \ {0}, t \in Nat : a = Address(kind, n, t)
  BY AddressesAre, Zenon
<1> DEFINE members == [i \in 1..n |-> i]
           made == NewMixAddress(kind, members, t)
<1>2. Len(members) = n
  OBVIOUS
<1> HIDE DEF members
<1>3. a = NewMixAddress(kind, members, t)
  BY <1>1 DEF Address, members
<1>4. a.value = [kind |-> kind, members |-> members, threshold |-> t] /\ a = Written(a.value)
  BY <1>3 DEF NewMixAddress, Written, Panicked
<1>5. a.value.members = members /\ a.value.kind = kind
  BY <1>4
<1>6. Len(members) \in 1..64
  BY <1>2, <1>5
<1>7. members # <<>>
  <2>1. Len(<<>>) = 0
    OBVIOUS
  <2>2. Len(members) # 0
    BY <1>2
  <2> QED BY <2>1, <2>2
<1>8. /\ ReadAddress(AddressBytes(made.value)) = made
      /\ ReadAddressBytes(AddressBytes(made.value)) = made
  <2>1. made.ok
    BY <1>3
  <2> QED BY <1>6, <2>1, AddressRoundTrip
<1> QED BY <1>3, <1>4, <1>5, <1>7, <1>8

\* An address of 1 to 64 members that can be made at all is read back as it was
\* written, users as users and mainnet addresses as mainnet addresses, and one
\* that is paid is sent to those members.
THEOREM AddressesReadBack == Spec => []AddressReadsBack
<1> DEFINE IsInput == in \in Payments \cup Addressed \cup Others
<1>1. Init => IsInput
  BY DEF Init
<1>2. IsInput /\ [Next]_<<in, done>> => IsInput'
  BY DEF Next, Compute
<1>3. ASSUME IsInput PROVE AddressReadsBack
  <2> SUFFICES ASSUME Is("address"), in.address.ok, Len(in.address.value.members) <= 64
               PROVE  /\ ReadAddress(AddressBytes(in.address.value)) = in.address
                      /\ GhostKeyCalls(in.address.value) = 0 <=> in.address.value.kind = "xin"
    BY DEF AddressReadsBack
  <2>1. in.address \in Addresses
    BY <1>3 DEF Is, Payments, Addressed, Others
  <2> QED BY <2>1, AddressOf DEF GhostKeyCalls
<1> QED BY <1>1, <1>2, <1>3, PTL DEF Spec

-----------------------------------------------------------------------------
(* Transactions for the kernel *)

\* Division by ten thousand rounds down.
LEMMA ShareIs ==
  ASSUME NEW x \in Nat
  PROVE  /\ x \div 10000 \in Nat
         /\ 10000 * (x \div 10000) <= x /\ x <= 10000 * (x \div 10000) + 9999
OBVIOUS

\* Amounts multiplied one by one, and divided by ten thousand and rounded down.
Multiplied(t, s) == [i \in 1..Len(s) |-> t * s[i]]
Divided(x) == [i \in 1..Len(x) |-> x[i] \div Whole]

LEMMA MultipliedTotal ==
  ASSUME NEW t \in Nat, NEW s, Len(s) \in Nat, \A i \in 1..Len(s) : s[i] \in Nat
  PROVE  /\ Len(Multiplied(t, s)) = Len(s)
         /\ \A i \in 1..Len(s) : Multiplied(t, s)[i] \in Nat
         /\ Total(Multiplied(t, s)) = t * Total(s) /\ Total(s) \in Nat
<1> DEFINE x == Multiplied(t, s)
<1>1. Len(x) = Len(s) /\ \A i \in 1..Len(s) : x[i] = t * s[i]
  BY DEF Multiplied
<1>2. \A i \in 1..Len(s) : x[i] \in Nat
  BY <1>1
<1> HIDE DEF x
<1>3. Numbers(s) /\ Numbers(x)
  BY <1>1, <1>2 DEF Numbers
<1>4. /\ Totals(s)[0] = 0 /\ \A i \in 1..Len(s) : Totals(s)[i] = Totals(s)[i - 1] + s[i]
      /\ \A i \in 0..Len(s) : Totals(s)[i] \in Int
  BY <1>3, TotalsOf
<1>5. Totals(x)[0] = 0 /\ \A i \in 1..Len(s) : Totals(x)[i] = Totals(x)[i - 1] + x[i]
  BY <1>1, <1>3, TotalsOf
<1> DEFINE T == {m \in Nat : m <= Len(s) => Totals(x)[m] = t * Totals(s)[m]}
<1>6. 0 \in T
  BY <1>4, <1>5
<1>7. ASSUME NEW m \in Nat, m \in T PROVE m + 1 \in T
  <2> SUFFICES ASSUME m + 1 <= Len(s) PROVE Totals(x)[m + 1] = t * Totals(s)[m + 1]
    OBVIOUS
  <2>1. m + 1 \in 1..Len(s) /\ m \in 0..Len(s) /\ (m + 1) - 1 = m
    OBVIOUS
  <2> DEFINE A == Totals(s)[m]
             y == s[m + 1]
  <2>2. Totals(s)[m + 1] = A + y /\ A \in Int /\ y \in Int
    BY <1>4, <2>1
  <2>3. Totals(x)[m + 1] = t * A + t * y
    BY <1>1, <1>5, <1>7, <2>1
  <2> HIDE DEF A, y
  <2>4. t * (A + y) = t * A + t * y
    BY <2>2
  <2> QED BY <2>2, <2>3, <2>4
<1> HIDE DEF T
<1>8. Len(s) \in T
  BY <1>6, <1>7, Induction
<1>9. Total(s) \in Nat
  BY TotalNat
<1> QED BY <1>1, <1>2, <1>8, <1>9 DEF T, Total, x

\* The parts of some amounts, each rounded down, lack less than a unit for each.
LEMMA DividedTotal ==
  ASSUME NEW x, Len(x) \in Nat, \A i \in 1..Len(x) : x[i] \in Nat
  PROVE  /\ Len(Divided(x)) = Len(x) /\ \A i \in 1..Len(x) : Divided(x)[i] \in Nat
         /\ Total(Divided(x)) \in Nat /\ Total(x) \in Nat
         /\ 10000 * Total(Divided(x)) <= Total(x)
         /\ Total(x) <= 10000 * Total(Divided(x)) + 9999 * Len(x)
<1> DEFINE a == Divided(x)
<1>1. Len(a) = Len(x) /\ \A i \in 1..Len(x) : a[i] = x[i] \div 10000
  BY DEF Divided, Whole
<1> HIDE DEF a
<1>2. \A i \in 1..Len(x) : a[i] \in Nat /\ 10000 * a[i] <= x[i] /\ x[i] <= 10000 * a[i] + 9999
  BY <1>1, ShareIs
<1>3. Numbers(a) /\ Numbers(x)
  BY <1>1, <1>2 DEF Numbers
<1>4. /\ Totals(x)[0] = 0 /\ \A i \in 1..Len(x) : Totals(x)[i] = Totals(x)[i - 1] + x[i]
      /\ \A i \in 0..Len(x) : Totals(x)[i] \in Int
  BY <1>3, TotalsOf
<1>5. /\ Totals(a)[0] = 0 /\ \A i \in 1..Len(x) : Totals(a)[i] = Totals(a)[i - 1] + a[i]
      /\ \A i \in 0..Len(x) : Totals(a)[i] \in Int
  BY <1>1, <1>3, TotalsOf
<1> DEFINE T == {m \in Nat : m <= Len(x) =>
                   /\ 10000 * Totals(a)[m] <= Totals(x)[m]
                   /\ Totals(x)[m] <= 10000 * Totals(a)[m] + 9999 * m}
<1>6. 0 \in T
  BY <1>4, <1>5
<1>7. ASSUME NEW m \in Nat, m \in T PROVE m + 1 \in T
  <2> SUFFICES ASSUME m + 1 <= Len(x)
               PROVE  /\ 10000 * Totals(a)[m + 1] <= Totals(x)[m + 1]
                      /\ Totals(x)[m + 1] <= 10000 * Totals(a)[m + 1] + 9999 * (m + 1)
    OBVIOUS
  <2>1. m + 1 \in 1..Len(x) /\ m \in 0..Len(x) /\ (m + 1) - 1 = m
    OBVIOUS
  <2> DEFINE X == Totals(x)[m]
             A == Totals(a)[m]
             y == x[m + 1]
             b == a[m + 1]
  <2>2. /\ Totals(x)[m + 1] = X + y /\ X \in Int
        /\ Totals(a)[m + 1] = A + b /\ A \in Int
    BY <1>4, <1>5, <2>1
  <2>3. b \in Nat /\ y \in Nat /\ 10000 * b <= y /\ y <= 10000 * b + 9999
    BY <1>2, <2>1
  <2>4. 10000 * A <= X /\ X <= 10000 * A + 9999 * m
    BY <1>7, <2>1
  <2> HIDE DEF X, A, y, b
  <2>5. 10000 * (A + b) <= X + y /\ X + y <= 10000 * (A + b) + 9999 * (m + 1)
    BY <2>2, <2>3, <2>4
  <2> QED BY <2>2, <2>5
<1> HIDE DEF T
<1>8. Len(x) \in T
  BY <1>6, <1>7, Induction
<1>9. Total(x) \in Nat /\ Total(a) \in Nat
  BY <1>1, <1>2, TotalNat
<1> QED BY <1>1, <1>2, <1>8, <1>9 DEF T, Total, a

\* What ClaimMintDistribution hands out of a distribution shared out whole, or
\* less: never more than there is, and all of it among up to five recipients.
LEMMA MintAddsUp ==
  ASSUME NEW t \in Nat, NEW s \in Seq(Nat), Len(s) # 0, Total(s) <= Whole,
         MintOutputs(t, s).ok
  PROVE  /\ Total(MintOutputs(t, s).outputs) <= t
         /\ Len(s) <= 5 /\ Total(s) = Whole => Total(MintOutputs(t, s).outputs) = t
<1> DEFINE a == [i \in DOMAIN s |-> (t * s[i]) \div Whole]
           change == t - Total(a)
           b == [a EXCEPT ![Len(s)] = @ + change]
           out == MintOutputs(t, s).outputs
<1>1. /\ Len(s) \in 1..Len(s) /\ Len(s) \in Nat /\ DOMAIN s = 1..Len(s)
      /\ \A i \in 1..Len(s) : s[i] \in Nat
  OBVIOUS
<1>2. out = IF change \in 1..4 THEN b ELSE a
  <2> DEFINE bad == t = 0 \/ \E i \in DOMAIN s : s[i] \notin 1..Whole
  <2>1. MintOutputs(t, s) = IF bad THEN [ok |-> FALSE]
                            ELSE [ok |-> TRUE, outputs |-> IF change \in 1..4 THEN b ELSE a]
    BY Zenon DEF MintOutputs
  <2> HIDE DEF bad, change, a, b
  <2>2. MintOutputs(t, s).ok <=> ~bad
    BY <2>1
  <2>3. MintOutputs(t, s) = [ok |-> TRUE, outputs |-> IF change \in 1..4 THEN b ELSE a]
    BY <2>1, <2>2, Zenon
  <2> QED BY <2>3
<1>3. a = Divided(Multiplied(t, s))
  <2>1. Len(Multiplied(t, s)) = Len(s) /\ \A i \in 1..Len(s) : Multiplied(t, s)[i] = t * s[i]
    BY <1>1 DEF Multiplied
  <2> HIDE DEF a
  <2>2. a = [i \in 1..Len(s) |-> (t * s[i]) \div Whole]
    BY <1>1 DEF a
  <2> QED BY <2>1, <2>2 DEF Divided
<1> HIDE DEF a
<1>4. /\ Len(a) = Len(s) /\ (\A i \in 1..Len(s) : a[i] \in Nat) /\ Total(a) \in Nat
      /\ Whole * Total(a) <= t * Total(s) /\ t * Total(s) <= Whole * Total(a) + 9999 * Len(s)
      /\ Total(s) \in Nat
  <2> DEFINE x == Multiplied(t, s)
  <2>1. /\ Len(x) = Len(s) /\ (\A i \in 1..Len(s) : x[i] \in Nat)
        /\ Total(x) = t * Total(s) /\ Total(s) \in Nat
    BY <1>1, MultipliedTotal
  <2> HIDE DEF x
  <2>2. a = Divided(x)
    BY <1>3 DEF x
  <2>3. /\ Len(a) = Len(x) /\ (\A i \in 1..Len(x) : a[i] \in Nat) /\ Total(a) \in Nat
        /\ 10000 * Total(a) <= Total(x) /\ Total(x) <= 10000 * Total(a) + 9999 * Len(x)
    BY <1>1, <2>1, <2>2, DividedTotal
  <2> QED BY <2>1, <2>3 DEF Whole
<1>5. Total(a) <= t
  <2> DEFINE y == Total(s)
             A == Total(a)
  <2>1. y \in Nat /\ y <= 10000 /\ A \in Nat /\ 10000 * A <= t * y
    BY <1>4 DEF Whole
  <2> HIDE DEF y, A
  <2>2. PICK z \in Nat : y + z = 10000
    <3>1. 10000 - y \in Nat /\ y + (10000 - y) = 10000
      BY <2>1
    <3> QED BY <3>1
  <2>3. t * y + t * z = t * 10000 /\ t * z \in Nat /\ t * y \in Nat
    BY <2>1, <2>2
  <2> DEFINE u == t * y
             v == t * z
  <2>4. u + v = 10000 * t /\ u \in Nat /\ v \in Nat /\ 10000 * A <= u
    BY <2>1, <2>3
  <2> HIDE DEF u, v
  <2>5. A <= t
    BY <2>1, <2>4
  <2> QED BY <2>5 DEF A
<1>6. Total(b) = t
  <2>1. /\ Len(b) = Len(a) /\ b[Len(s)] = a[Len(s)] + change
        /\ \A i \in 1..Len(s) : i # Len(s) => b[i] = a[i]
    <3>1. a = [i \in 1..Len(s) |-> a[i]]
      BY <1>1 DEF a
    <3> HIDE DEF change
    <3> QED BY <1>1, <1>4, <3>1
  <2> HIDE DEF b
  <2>2. a[Len(s)] \in Nat /\ change \in Int
    BY <1>1, <1>4
  <2>3. Numbers(a) /\ Numbers(b)
    BY <1>4, <2>1, <2>2 DEF Numbers
  <2>4. Total(b) = Total(a) + (b[Len(s)] - a[Len(s)])
    <3>1. /\ Len(a) \in Nat /\ Len(b) = Len(a) /\ Len(s) \in 1..Len(a)
          /\ \A i \in 1..Len(a) : i # Len(s) => b[i] = a[i]
      <4>1. Len(a) = Len(s)
        BY <1>4
      <4> HIDE DEF change
      <4> QED BY <1>1, <2>1, <4>1
    <3> HIDE DEF change
    <3> QED BY <2>3, <3>1, TotalChanged, Zenon
  <2> QED BY <1>4, <2>1, <2>2, <2>4
<1>7. Len(s) <= 5 /\ Total(s) = Whole => change \in 0..4
  <2> SUFFICES ASSUME Len(s) <= 5, Total(s) = Whole PROVE change \in 0..4
    OBVIOUS
  <2> DEFINE A == Total(a)
  <2>1. t * 10000 <= 10000 * A + 9999 * Len(s) /\ A \in Nat /\ A <= t
    BY <1>4, <1>5 DEF Whole
  <2> HIDE DEF A
  <2>2. t - A \in 0..4
    BY <1>1, <2>1
  <2> QED BY <2>2 DEF A
<1> HIDE DEF b
<1> QED BY <1>2, <1>4, <1>5, <1>6, <1>7

\* A payment by SendKernelTransactionFromAccount is worth its inputs.
LEMMA PaidAddsUp ==
  ASSUME NEW q, Len(q) \in Nat, \A i \in 1..Len(q) : q[i] \in Nat, NEW amount \in Nat,
         KernelOutputs(q, amount).ok
  PROVE  Total(KernelOutputs(q, amount).outputs) = Total(q)
<1>1. Total(q) \in Nat
  BY TotalNat
<1>2. KernelOutputs(q, amount).ok <=> ~(Total(q) < amount)
  BY DEF KernelOutputs
<1>3. KernelOutputs(q, amount) =
        [ok |-> TRUE, outputs |-> IF Total(q) > amount THEN <<amount, Total(q) - amount>>
                                  ELSE <<amount>>]
  BY <1>2, Zenon DEF KernelOutputs
<1>4. Total(<<amount>>) = amount
  <2> DEFINE p == <<amount>>
  <2>1. Len(p) = 1 /\ p[1] = amount /\ \A i \in 1..1 : i # 1 => p[i] = 0
    OBVIOUS
  <2> HIDE DEF p
  <2>2. Len(p) \in Nat /\ 1 \in 1..Len(p) /\ \A i \in 1..Len(p) : i # 1 => p[i] = 0
    BY <2>1
  <2>3. Total(p) = amount
    <3>1. amount \in Int
      OBVIOUS
    <3> QED BY <2>1, <2>2, <3>1, TotalOfOne, Zenon
  <2> QED BY <2>3 DEF p
<1>5. Total(<<amount, Total(q) - amount>>) = Total(q)
  <2> DEFINE p == <<amount>>
             r == <<amount, Total(q) - amount>>
  <2>1. /\ Len(p) = 1 /\ p[1] = amount /\ Len(r) = 2 /\ r[1] = amount /\ r[2] = Total(q) - amount
    OBVIOUS
  <2>2. Total(p) = amount
    BY <1>4
  <2> HIDE DEF p, r
  <2>3. /\ Len(p) \in Nat /\ Len(r) = Len(p) + 1 /\ Numbers(p) /\ Numbers(r)
        /\ \A i \in 1..Len(p) : r[i] = p[i]
    BY <1>1, <2>1 DEF Numbers
  <2>4. Total(r) = Total(p) + r[Len(r)]
    BY <2>3, TotalMore
  <2>5. Total(r) = Total(q)
    BY <1>1, <2>1, <2>2, <2>4
  <2> QED BY <2>5 DEF r
<1> QED BY <1>1, <1>2, <1>3, <1>4, <1>5

\* The shares the run tries add up to no more than the whole.
LEMMA ShareListsAre ==
  \A s \in ShareLists : s \in Seq(Nat) /\ Len(s) # 0 /\ Total(s) <= Whole
<1>1. \A s \in ShareLists : s \in Seq(Nat)
  <2> SUFFICES ASSUME NEW s \in ShareLists PROVE s \in Seq(Nat)
    OBVIOUS
  <2>1. CASE s = <<10000>>
    BY <2>1
  <2>2. CASE s = <<9999, 1>>
    BY <2>2
  <2>3. CASE s = <<3333, 3333, 3334>>
    BY <2>3
  <2>4. CASE s = <<3333, 3333, 1667, 1667>>
    BY <2>4
  <2>5. CASE s = <<2000, 2000, 2000, 2000, 2000>>
    BY <2>5
  <2>6. CASE s = <<1666, 1666, 1666, 1666, 1668, 1668>>
    BY <2>6
  <2>7. CASE s = <<5000, 0>>
    BY <2>7
  <2> QED BY <2>1, <2>2, <2>3, <2>4, <2>5, <2>6, <2>7 DEF ShareLists
<1> SUFFICES ASSUME NEW s \in ShareLists PROVE Len(s) # 0 /\ Total(s) <= Whole
  BY <1>1
<1>2. Len(s) \in Nat /\ Numbers(s)
  BY <1>1 DEF Numbers
<1>3. Totals(s)[0] = 0 /\ \A i \in 1..Len(s) : Totals(s)[i] = Totals(s)[i - 1] + s[i]
  BY <1>2, TotalsOf
<1>4. /\ 1 <= Len(s) => Totals(s)[1] = s[1]
      /\ 2 <= Len(s) => Totals(s)[2] = Totals(s)[1] + s[2]
      /\ 3 <= Len(s) => Totals(s)[3] = Totals(s)[2] + s[3]
      /\ 4 <= Len(s) => Totals(s)[4] = Totals(s)[3] + s[4]
      /\ 5 <= Len(s) => Totals(s)[5] = Totals(s)[4] + s[5]
      /\ 6 <= Len(s) => Totals(s)[6] = Totals(s)[5] + s[6]
  <2>1. 1 <= Len(s) => s[1] \in Int
    BY <1>1
  <2> QED BY <1>2, <1>3, <2>1
<1>5. Len(s) # 0 /\ Totals(s)[Len(s)] <= 10000
  <2>1. CASE s = <<10000>>
    BY <1>4, <2>1
  <2>2. CASE s = <<9999, 1>>
    BY <1>4, <2>2
  <2>3. CASE s = <<3333, 3333, 3334>>
    BY <1>4, <2>3
  <2>4. CASE s = <<3333, 3333, 1667, 1667>>
    BY <1>4, <2>4
  <2>5. CASE s = <<2000, 2000, 2000, 2000, 2000>>
    BY <1>4, <2>5
  <2>6. CASE s = <<1666, 1666, 1666, 1666, 1668, 1668>>
    BY <1>4, <2>6
  <2>7. CASE s = <<5000, 0>>
    BY <1>4, <2>7
  <2> QED BY <2>1, <2>2, <2>3, <2>4, <2>5, <2>6, <2>7 DEF ShareLists
<1> QED BY <1>5 DEF Total, Whole

\* A payment of the kernel is worth its inputs, for inputs of any amounts, and a
\* mint distribution hands out no more than there is, and all of it among up to
\* five recipients: what rounding down leaves is then less than five units.
THEOREM KernelAmountsAlways == Spec => []KernelAmountsAddUp
<1> DEFINE IsInput == in \in Payments \cup Addressed \cup Others
<1>1. Init => IsInput
  BY DEF Init
<1>2. IsInput /\ [Next]_<<in, done>> => IsInput'
  BY DEF Next, Compute
<1>3. ASSUME IsInput PROVE KernelAmountsAddUp
  <2> SUFFICES ASSUME Is("kernel") PROVE
        /\ MintOutputs(in.total, in.shares).ok =>
             /\ Total(MintOutputs(in.total, in.shares).outputs) <= in.total
             /\ Len(in.shares) <= 5 /\ Total(in.shares) = Whole
                  => Total(MintOutputs(in.total, in.shares).outputs) = in.total
        /\ \A amount \in Amounts : KernelOutputs(in.inputs, amount).ok =>
             Total(KernelOutputs(in.inputs, amount).outputs) = Total(in.inputs)
    BY DEF KernelAmountsAddUp, Whole
  <2>1. in.total \in 0..12 /\ in.shares \in ShareLists /\ in.inputs \in Wallets
    BY <1>3 DEF Is, Payments, Addressed, Others
  <2>2. in.shares \in Seq(Nat) /\ Len(in.shares) # 0 /\ Total(in.shares) <= Whole /\ in.total \in Nat
    BY <2>1, ShareListsAre
  <2>3. Len(in.inputs) \in Nat /\ \A i \in 1..Len(in.inputs) : in.inputs[i] \in Nat
    <3>1. PICK n \in 0..MaxLen : in.inputs \in [1..n -> Amounts]
      BY <2>1 DEF Wallets
    <3>2. n \in Nat /\ \A x \in Amounts : x \in Nat
      BY SizesAssumption DEF Amounts
    <3> DEFINE q == in.inputs
    <3>3. q \in Seq(Amounts)
      BY <3>1, <3>2
    <3> HIDE DEF q
    <3>4. Len(q) \in Nat /\ \A i \in 1..Len(q) : q[i] \in Nat
      BY <3>2, <3>3
    <3> QED BY <3>4 DEF q
  <2>4. \A amount \in Amounts : amount \in Nat
    BY SizesAssumption DEF Amounts
  <2> QED BY <2>2, <2>3, <2>4, MintAddsUp, PaidAddsUp
<1> QED BY <1>1, <1>2, <1>3, PTL DEF Spec

-----------------------------------------------------------------------------
(* Encrypted messages *)

\* Where the session i of a message starts, and the nonce after the last.
Start(i) == Header + (i - 1) * SessionSize

\* Sessions start where a reader looks, each after the one before.
LEMMA StartIs ==
  /\ \A i \in Nat \ {0} : /\ Start(i) \in Nat /\ (Start(i) - Header) % SessionSize = 0
                          /\ (Start(i) - Header) \div SessionSize + 1 = i
  /\ \A i, j \in Nat \ {0} : (Start(i) < Start(j) <=> i < j) /\ (Start(i) = Start(j) <=> i = j)
<1>1. \A i \in Nat \ {0} : Start(i) = 35 + (i - 1) * 64
  BY DEF Start, Header, SessionSize
<1>2. ASSUME NEW i \in Nat \ {0}
      PROVE  /\ Start(i) \in Nat /\ (Start(i) - Header) % SessionSize = 0
             /\ (Start(i) - Header) \div SessionSize + 1 = i
  <2>1. PICK k \in Nat : i = k + 1
    <3>1. i - 1 \in Nat /\ i = (i - 1) + 1
      OBVIOUS
    <3> QED BY <3>1
  <2>2. Start(i) = 35 + k * 64
    BY <1>1, <2>1
  <2>3. Start(i) - 35 = k * 64 /\ Start(i) \in Nat
    BY <2>2
  <2>4. (k * 64) % 64 = 0 /\ (k * 64) \div 64 = k
    OBVIOUS
  <2> QED BY <2>1, <2>3, <2>4 DEF Header, SessionSize
<1>3. \A i, j \in Nat \ {0} : (Start(i) < Start(j) <=> i < j) /\ (Start(i) = Start(j) <=> i = j)
  BY <1>1
<1> QED BY <1>2, <1>3

\* What a message has where: its sessions in order, then the nonce.
LEMMA MessageIs ==
  ASSUME NEW q, Len(q) \in Nat, NEW text
  PROVE  LET m == EncryptMessageData(q, text)
         IN /\ m.count = Len(q) % TwoBytes
            /\ m.size = Header + Len(q) * SessionSize + NonceSize + text + TagSize
            /\ DOMAIN m.at = {Start(i) : i \in 1..(Len(q) + 1)}
            /\ \A i \in 1..Len(q) :
                 /\ m.at[Start(i)].what = "session" /\ m.at[Start(i)].id = q[i].id
                 /\ m.at[Start(i)].wrappedFor = q[i].key
            /\ m.at[Start(Len(q) + 1)].what = "nonce"
<1> DEFINE n == Len(q)
           m == EncryptMessageData(q, text)
           found(o) == IF o = Start(n + 1) THEN [what |-> "nonce"]
                       ELSE LET s == q[(o - Header) \div SessionSize + 1]
                            IN [what |-> "session", id |-> s.id, wrappedFor |-> s.key]
           at == [o \in {Start(i) : i \in 1..(n + 1)} |-> found(o)]
<1>1. m = [count |-> n % TwoBytes,
           size |-> Header + n * SessionSize + NonceSize + text + TagSize, at |-> at]
  BY Zenon DEF EncryptMessageData, Start
<1>2. \A i \in 1..n : /\ i \in 1..(n + 1) /\ i \in Nat \ {0} /\ n + 1 \in Nat \ {0} /\ i # n + 1
  OBVIOUS
<1>3. \A i \in 1..n : /\ Start(i) # Start(n + 1)
                      /\ (Start(i) - Header) \div SessionSize + 1 = i
  BY <1>2, StartIs
<1>4. n + 1 \in 1..(n + 1)
  OBVIOUS
<1>5. /\ DOMAIN at = {Start(i) : i \in 1..(n + 1)}
      /\ \A i \in 1..(n + 1) : at[Start(i)] = found(Start(i))
  OBVIOUS
<1> HIDE DEF at
<1>6. \A i \in 1..n : at[Start(i)] = [what |-> "session", id |-> q[i].id, wrappedFor |-> q[i].key]
  BY <1>2, <1>3, <1>5
<1>7. at[Start(n + 1)] = [what |-> "nonce"]
  BY <1>4, <1>5
<1> HIDE DEF found, m
<1>8. m.count = n % TwoBytes /\ m.at = at
      /\ m.size = Header + n * SessionSize + NonceSize + text + TagSize
  BY <1>1
<1>9. \A i \in 1..n : at[Start(i)].what = "session" /\ at[Start(i)].id = q[i].id
                      /\ at[Start(i)].wrappedFor = q[i].key
  <2> SUFFICES ASSUME NEW i \in 1..n
               PROVE  /\ at[Start(i)].what = "session" /\ at[Start(i)].id = q[i].id
                      /\ at[Start(i)].wrappedFor = q[i].key
    OBVIOUS
  <2>1. at[Start(i)] = [what |-> "session", id |-> q[i].id, wrappedFor |-> q[i].key]
    BY <1>6
  <2> DEFINE r == [what |-> "session", id |-> q[i].id, wrappedFor |-> q[i].key]
  <2>2. r.what = "session" /\ r.id = q[i].id /\ r.wrappedFor = q[i].key
    OBVIOUS
  <2>3. at[Start(i)] = r
    BY <2>1
  <2> HIDE DEF r
  <2> QED BY <2>2, <2>3, Zenon
<1>10. at[Start(n + 1)].what = "nonce"
  BY <1>7
<1> QED BY <1>5, <1>8, <1>9, <1>10 DEF m

\* The first session of an id has the key.
FirstHas(q, id, key) == \E i \in 1..Len(q) : /\ q[i].id = id /\ q[i].key = key
                                             /\ \A k \in 1..(i - 1) : q[k].id # id

\* EncryptMessageData and DecryptMessageData: a reader reads the text, unless it
\* is empty, if and only if the first session of its id was given its key, for as
\* many sessions as two bytes count.
THEOREM ReadsFirst ==
  ASSUME NEW q, Len(q) \in Nat, Len(q) < TwoBytes, NEW text \in Nat, NEW id, NEW key
  PROVE  DecryptMessageData(EncryptMessageData(q, text), id, key) = "text"
           <=> text > 0 /\ FirstHas(q, id, key)
<1> DEFINE n == Len(q)
           m == EncryptMessageData(q, text)
           prefixSize == Header + m.count * SessionSize
           mine == {o \in DOMAIN m.at : /\ o < prefixSize /\ (o - Header) % SessionSize = 0
                                        /\ m.at[o].what = "session" /\ m.at[o].id = id}
           first == CHOOSE o \in mine : \A p \in mine : o <= p
           Of(i) == i \in 1..n /\ q[i].id = id
           read == DecryptMessageData(m, id, key)
<1>1. /\ m.count = n /\ m.size = Header + n * SessionSize + NonceSize + text + TagSize
      /\ DOMAIN m.at = {Start(i) : i \in 1..(n + 1)}
      /\ \A i \in 1..n : /\ m.at[Start(i)].what = "session" /\ m.at[Start(i)].id = q[i].id
                         /\ m.at[Start(i)].wrappedFor = q[i].key
      /\ m.at[Start(n + 1)].what = "nonce"
  <2>1. n % TwoBytes = n
    BY DEF TwoBytes
  <2> HIDE DEF m
  <2>2. /\ m.count = n % TwoBytes /\ m.size = Header + n * SessionSize + NonceSize + text + TagSize
        /\ DOMAIN m.at = {Start(i) : i \in 1..(n + 1)}
        /\ \A i \in 1..n : /\ m.at[Start(i)].what = "session" /\ m.at[Start(i)].id = q[i].id
                           /\ m.at[Start(i)].wrappedFor = q[i].key
        /\ m.at[Start(n + 1)].what = "nonce"
    BY MessageIs, Zenon DEF m
  <2> QED BY <2>1, <2>2
<1>2. read = IF \/ m.size < 1 + 2 + 32 + SessionSize + NonceSize
                \/ mine = {} \/ prefixSize \notin DOMAIN m.at
             THEN ""
             ELSE IF /\ m.at[first].wrappedFor = key /\ m.at[prefixSize].what = "nonce"
                     /\ m.size > prefixSize + NonceSize + TagSize
                  THEN "text" ELSE ""
  BY Zenon DEF DecryptMessageData
<1> HIDE DEF m, read
<1>3. prefixSize = Start(n + 1)
  <2>1. (n + 1) - 1 = n
    OBVIOUS
  <2> QED BY <1>1, <2>1 DEF Start
<1>4. \A o : o \in mine <=> \E i \in 1..n : Of(i) /\ o = Start(i)
  <2>1. ASSUME NEW o \in mine PROVE \E i \in 1..n : Of(i) /\ o = Start(i)
    <3>1. PICK i \in 1..(n + 1) : o = Start(i)
      BY <1>1
    <3>2. i # n + 1
      BY <1>1, <3>1
    <3>3. i \in 1..n
      BY <3>2
    <3> QED BY <1>1, <3>1, <3>3
  <2>2. ASSUME NEW i \in 1..n, Of(i) PROVE Start(i) \in mine
    <3>1. i \in 1..(n + 1) /\ i \in Nat \ {0} /\ n + 1 \in Nat \ {0} /\ i < n + 1
      OBVIOUS
    <3>2. Start(i) < Start(n + 1) /\ (Start(i) - Header) % SessionSize = 0
      BY <3>1, StartIs
    <3> QED BY <1>1, <1>3, <2>2, <3>1, <3>2
  <2> QED BY <2>1, <2>2
<1> HIDE DEF mine, prefixSize
<1>5. CASE ~\E i \in 1..n : Of(i)
  <2>1. mine = {}
    BY <1>4, <1>5
  <2>2. read = ""
    BY <1>2, <2>1, Zenon
  <2> QED BY <1>5, <2>2 DEF read, m, FirstHas
<1>6. CASE \E i \in 1..n : Of(i)
  <2>1. PICK f \in 1..n : Of(f) /\ \A i \in 1..n : Of(i) => f <= i
    <3> DEFINE S == {i \in 1..n : Of(i)}
    <3>1. S \in SUBSET Nat /\ S # {}
      BY <1>6
    <3>2. PICK x \in S : \A y \in S : x <= y
      BY <3>1, LeastOf
    <3> QED BY <3>2
  <2>2. /\ Start(f) \in mine /\ \A p \in mine : p \in Nat /\ Start(f) <= p
    <3>1. \A i \in 1..n : i \in Nat \ {0}
      OBVIOUS
    <3>2. \A i \in 1..n : Of(i) => Start(i) \in Nat /\ Start(f) <= Start(i)
      BY <2>1, <3>1, StartIs
    <3> QED BY <1>4, <2>1, <3>2
  <2>3. first = Start(f)
    <3>1. first \in mine /\ \A p \in mine : first <= p
      BY <2>2
    <3> HIDE DEF first
    <3> QED BY <2>2, <3>1
  <2>4. ~(m.size < 1 + 2 + 32 + SessionSize + NonceSize) /\ mine # {} /\ prefixSize \in DOMAIN m.at
    <3>1. n + 1 \in 1..(n + 1) /\ n >= 1
      OBVIOUS
    <3>2. prefixSize \in DOMAIN m.at
      BY <1>1, <1>3, <3>1
    <3>3. ~(m.size < 1 + 2 + 32 + SessionSize + NonceSize)
      BY <1>1, <3>1 DEF Header, SessionSize, NonceSize, TagSize
    <3> QED BY <2>2, <3>2, <3>3
  <2>9. m.size > prefixSize + NonceSize + TagSize <=> text > 0
    <3>1. prefixSize = Header + n * SessionSize /\ n * SessionSize \in Nat
      BY <1>1 DEF prefixSize, SessionSize
    <3> QED BY <1>1, <3>1 DEF Header, NonceSize, TagSize
  <2>5. read = IF q[f].key = key /\ text > 0 THEN "text" ELSE ""
    BY <1>1, <1>2, <1>3, <2>1, <2>3, <2>4, <2>9
  <2>6. read = "text" <=> q[f].key = key /\ text > 0
    BY <2>5
  <2>7. q[f].key = key <=> \E i \in 1..n : /\ q[i].id = id /\ q[i].key = key
                                           /\ \A k \in 1..(i - 1) : q[k].id # id
    <3>1. ASSUME q[f].key = key
          PROVE  \A k \in 1..(f - 1) : q[k].id # id
      BY <2>1
    <3>2. ASSUME NEW i \in 1..n, q[i].id = id, \A k \in 1..(i - 1) : q[k].id # id PROVE i = f
      <4>1. f <= i /\ q[f].id = id
        BY <2>1, <3>2
      <4>2. ~(f \in 1..(i - 1))
        BY <3>2, <4>1
      <4> QED BY <4>1, <4>2
    <3> QED BY <2>1, <3>1, <3>2
  <2> QED BY <2>6, <2>7 DEF read, m, FirstHas
<1> QED BY <1>5, <1>6

\* EncryptMessageData and DecryptMessageData: a session reads the text with its
\* own key, unless the text is empty or one before it has its id and another key,
\* and no other key reads it.
THEOREM SessionsAlways == Spec => []EverySessionReads
<1> DEFINE IsInput == in \in Payments \cup Addressed \cup Others
<1>1. Init => IsInput
  BY DEF Init
<1>2. IsInput /\ [Next]_<<in, done>> => IsInput'
  BY DEF Next, Compute
<1>3. ASSUME IsInput PROVE EverySessionReads
  <2> DEFINE q == in.sessions
             Reads(s) == DecryptMessageData(EncryptMessageData(q, in.text), s.id, s.key) = "text"
             hidden(i) == \E k \in 1..(i - 1) : q[k].id = q[i].id /\ q[k].key # q[i].key
  <2> SUFFICES ASSUME Is("message"), NEW s \in Sessions
               PROVE  Reads(s) <=> in.text > 0 /\ \E i \in DOMAIN q : q[i] = s /\ ~hidden(i)
    BY DEF EverySessionReads
  <2>1. q \in UNION {[1..n -> Sessions] : n \in 0..3} /\ in.text \in Nat
    BY <1>3 DEF Is, Payments, Addressed, Others
  <2> HIDE DEF q
  <2>2. PICK n \in 0..3 : q \in [1..n -> Sessions]
    BY <2>1
  <2>3. Len(q) = n /\ DOMAIN q = 1..n /\ n \in Nat /\ n < TwoBytes
    BY <2>2 DEF TwoBytes
  <2>4. Reads(s) <=> /\ in.text > 0
                     /\ \E i \in 1..n : /\ q[i].id = s.id /\ q[i].key = s.key
                                         /\ \A k \in 1..(i - 1) : q[k].id # s.id
    <3>1. Len(q) \in Nat /\ Len(q) < TwoBytes /\ in.text \in Nat
      BY <2>1, <2>3
    <3>2. Reads(s) <=> in.text > 0 /\ FirstHas(q, s.id, s.key)
      BY <3>1, ReadsFirst, Zenon
    <3> HIDE DEF Reads
    <3> QED BY <2>3, <3>2 DEF FirstHas
  <2> HIDE DEF Reads
  <2>5. \A i \in 1..n : q[i] = s <=> q[i].id = s.id /\ q[i].key = s.key
    BY <2>2 DEF Sessions
  <2>6. ASSUME NEW i \in 1..n, q[i] = s, ~hidden(i)
        PROVE  \E j \in 1..n : /\ q[j].id = s.id /\ q[j].key = s.key
                               /\ \A k \in 1..(j - 1) : q[k].id # s.id
    <3> DEFINE S == {j \in 1..n : q[j].id = s.id}
    <3>1. S \in SUBSET Nat /\ i \in S
      BY <2>6
    <3>2. PICK j \in S : \A k \in S : j <= k
      BY <3>1, LeastOf
    <3>3. j = i \/ j \in 1..(i - 1)
      BY <3>1, <3>2
    <3>4. q[j].key = s.key
      BY <2>5, <2>6, <3>2, <3>3
    <3>5. \A k \in 1..(j - 1) : k \in 1..n /\ ~(j <= k)
      BY <3>2
    <3> QED BY <3>2, <3>4, <3>5
  <2>7. ASSUME NEW i \in 1..n, q[i].id = s.id, q[i].key = s.key,
               \A k \in 1..(i - 1) : q[k].id # s.id
        PROVE  q[i] = s /\ ~hidden(i)
    BY <2>5, <2>7
  <2> QED BY <2>3, <2>4, <2>6, <2>7
<1> QED BY <1>1, <1>2, <1>3, PTL DEF Spec

-----------------------------------------------------------------------------
(* Invoices *)

\* How BytesUnchecked writes references: those by index, then the others.
References(indexes, hashes) ==
  [i \in DOMAIN indexes |-> <<1, indexes[i]>>] \o [i \in DOMAIN hashes |-> <<0, hashes[i]>>]
PlacesOf(refs, type) == InOrder({k \in DOMAIN refs : refs[k][1] = type}, Len(refs))
ValuesOf(refs, type) ==
  [k \in DOMAIN PlacesOf(refs, type) |-> refs[PlacesOf(refs, type)[k]][2]]

LEMMA ConcatIs ==
  ASSUME NEW S, NEW p \in Seq(S), NEW q \in Seq(S)
  PROVE  /\ Len(p \o q) = Len(p) + Len(q) /\ DOMAIN (p \o q) = 1..(Len(p) + Len(q))
         /\ \A i \in 1..Len(p) : (p \o q)[i] = p[i]
         /\ \A i \in 1..Len(q) : (p \o q)[Len(p) + i] = q[i]
OBVIOUS

\* A reader tells them apart again, each kind in its order.
LEMMA ReferencesRoundTrip ==
  ASSUME NEW X, NEW Y, NEW x \in Seq(X), NEW y \in Seq(Y)
  PROVE  LET refs == References(x, y)
         IN /\ Len(refs) = Len(x) + Len(y)
            /\ DOMAIN refs = 1..(Len(x) + Len(y))
            /\ \A k \in DOMAIN refs :
                 /\ refs[k][1] \in {0, 1}
                 /\ refs[k][1] = 1 => k \in DOMAIN x /\ refs[k][2] = x[k]
            /\ ValuesOf(refs, 1) = x /\ ValuesOf(refs, 0) = y
<1> DEFINE m == Len(x)
           n == Len(y)
           p == [i \in DOMAIN x |-> <<1, x[i]>>]
           q == [i \in DOMAIN y |-> <<0, y[i]>>]
           refs == References(x, y)
           A == [i \in 1..m |-> i]
           B == [i \in 1..n |-> m + i]
           At(type) == {k \in DOMAIN refs : refs[k][1] = type}
<1>1. m \in Nat /\ n \in Nat /\ DOMAIN x = 1..m /\ DOMAIN y = 1..n
  OBVIOUS
<1>2. /\ p \in Seq({0, 1} \X (X \cup Y)) /\ Len(p) = m /\ \A i \in 1..m : p[i] = <<1, x[i]>>
      /\ q \in Seq({0, 1} \X (X \cup Y)) /\ Len(q) = n /\ \A i \in 1..n : q[i] = <<0, y[i]>>
  BY <1>1
<1>3. refs = p \o q
  BY DEF References
<1> HIDE DEF refs, p, q, m, n
<1>4. /\ Len(refs) = m + n /\ DOMAIN refs = 1..(m + n)
      /\ \A i \in 1..m : refs[i] = <<1, x[i]>>
      /\ \A i \in 1..n : refs[m + i] = <<0, y[i]>>
  <2>1. /\ Len(refs) = Len(p) + Len(q) /\ DOMAIN refs = 1..(Len(p) + Len(q))
        /\ \A i \in 1..Len(p) : refs[i] = p[i]
        /\ \A i \in 1..Len(q) : refs[Len(p) + i] = q[i]
    <3> DEFINE S == {0, 1} \X (X \cup Y)
    <3>1. p \in Seq(S) /\ q \in Seq(S)
      BY <1>2
    <3> HIDE DEF S
    <3>2. /\ Len(p \o q) = Len(p) + Len(q) /\ DOMAIN (p \o q) = 1..(Len(p) + Len(q))
          /\ \A i \in 1..Len(p) : (p \o q)[i] = p[i]
          /\ \A i \in 1..Len(q) : (p \o q)[Len(p) + i] = q[i]
      BY <3>1, ConcatIs
    <3> QED BY <1>3, <3>2, Zenon
  <2> QED BY <1>2, <2>1
<1>5. \A k \in 1..(m + n) : k \in 1..m \/ \E i \in 1..n : k = m + i
  <2> SUFFICES ASSUME NEW k \in 1..(m + n), k \notin 1..m PROVE k - m \in 1..n /\ k = m + (k - m)
    OBVIOUS
  <2> QED BY <1>1
<1>6. \A i \in 1..m : i \in 1..(m + n)
  BY <1>1
<1>7. \A i \in 1..n : m + i \in 1..(m + n) /\ m + i \notin 1..m
  BY <1>1
<1>8. At(1) = 1..m /\ At(0) = {m + i : i \in 1..n}
  BY <1>4, <1>5, <1>6, <1>7
<1>9. PlacesOf(refs, 1) = A
  <2>1. /\ 1..m \subseteq 1..(m + n) /\ A \in Seq(1..m) /\ m + n \in Nat
        /\ Increasing(A) /\ \A k \in 1..m : Holds(A, k)
    BY <1>1, <1>6 DEF Increasing, Holds
  <2> HIDE DEF A
  <2>2. InOrder(1..m, m + n) = A
    BY <2>1, InOrderOnly
  <2> QED BY <1>4, <1>8, <2>2 DEF PlacesOf
<1>10. PlacesOf(refs, 0) = B
  <2> DEFINE S == {m + i : i \in 1..n}
  <2>1. S \subseteq 1..(m + n) /\ m + n \in Nat
    BY <1>1, <1>7
  <2>2. B \in Seq(S) /\ Len(B) = n /\ \A i \in 1..n : B[i] = m + i
    <3>1. \A i \in 1..n : m + i \in S
      OBVIOUS
    <3> HIDE DEF S
    <3> QED BY <1>1, <3>1
  <2>3. Increasing(B)
    BY <1>1, <2>2 DEF Increasing
  <2>4. \A k \in S : Holds(B, k)
    BY <1>1, <2>2 DEF Holds
  <2> HIDE DEF S, B
  <2>5. InOrder(S, m + n) = B
    BY <2>1, <2>2, <2>3, <2>4, InOrderOnly
  <2> QED BY <1>4, <1>8, <2>5 DEF PlacesOf, S
<1>11. ValuesOf(refs, 1) = x
  <2>1. DOMAIN A = 1..m /\ \A k \in 1..m : A[k] = k /\ refs[A[k]][2] = x[k]
    BY <1>4
  <2> HIDE DEF A
  <2>2. ValuesOf(refs, 1) = [k \in 1..m |-> refs[A[k]][2]]
    BY <1>9, <2>1 DEF ValuesOf
  <2>3. ValuesOf(refs, 1) = [k \in 1..m |-> x[k]]
    BY <2>1, <2>2
  <2> QED BY <1>1, <2>3
<1>12. ValuesOf(refs, 0) = y
  <2>1. DOMAIN B = 1..n /\ \A k \in 1..n : B[k] = m + k /\ refs[B[k]][2] = y[k]
    BY <1>4
  <2> HIDE DEF B
  <2>2. ValuesOf(refs, 0) = [k \in 1..n |-> refs[B[k]][2]]
    BY <1>10, <2>1 DEF ValuesOf
  <2>3. ValuesOf(refs, 0) = [k \in 1..n |-> y[k]]
    BY <2>1, <2>2
  <2> QED BY <1>1, <2>3
<1>13. \A k \in DOMAIN refs : /\ refs[k][1] \in {0, 1}
                              /\ refs[k][1] = 1 => k \in DOMAIN x /\ refs[k][2] = x[k]
  <2> SUFFICES ASSUME NEW k \in 1..(m + n)
               PROVE  refs[k][1] \in {0, 1} /\ (refs[k][1] = 1 => k \in 1..m /\ refs[k][2] = x[k])
    BY <1>1, <1>4
  <2>1. CASE k \in 1..m
    BY <1>4, <2>1
  <2>2. ASSUME NEW i \in 1..n, k = m + i PROVE refs[k] = <<0, y[i]>>
    BY <1>4, <2>2
  <2>3. CASE k \notin 1..m
    BY <1>5, <2>2, <2>3
  <2> QED BY <2>1, <2>3
<1> QED BY <1>4, <1>11, <1>12, <1>13 DEF refs, m, n

\* An entry as AddEntry and AddStorageEntry build it.
EntryOfInvoice(e) ==
  /\ e = [trace |-> e.trace, asset |-> e.asset, amount |-> e.amount, extra |-> e.extra,
          indexes |-> e.indexes, hashes |-> e.hashes]
  /\ \E X, Y : e.indexes \in Seq(X) /\ e.hashes \in Seq(Y)

\* BytesUnchecked and NewMixinInvoiceFromString: an invoice that is written is
\* read as it was, whatever its entries are and refer to among those before
\* them, and whoever it is for, as long as that address is read as it was
\* written (AddressRoundTrip).
THEOREM InvoiceRoundTrip ==
  ASSUME NEW ma, ReadAddressBytes(AddressBytes(ma)) = Written(ma),
         NEW entries, entries = [i \in 1..Len(entries) |-> entries[i]],
         \A i \in 1..Len(entries) : EntryOfInvoice(entries[i]),
         \A i \in 1..Len(entries) : \A k \in DOMAIN entries[i].indexes :
            ~(entries[i].indexes[k] >= i - 1),
         InvoiceBytes(ma, entries).ok
  PROVE  ReadInvoice(InvoiceBytes(ma, entries).value)
           = Written([recipient |-> ma, entries |-> entries])
<1> DEFINE N == 1..Len(entries)
           D == DOMAIN entries
           rb == AddressBytes(ma)
           refs(e) == References(e.indexes, e.hashes)
           written(e) == [trace |-> e.trace, asset |-> e.asset, amount |-> e.amount,
                          extra |-> e.extra, references |-> refs(e)]
           b == [version |-> 0, recipient |-> rb, entries |-> [i \in D |-> written(entries[i])]]
           read(w) == [trace |-> w.trace, asset |-> w.asset, amount |-> w.amount,
                       extra |-> w.extra, indexes |-> ValuesOf(w.references, 1),
                       hashes |-> ValuesOf(w.references, 0)]
           Bad(i) == LET w == b.entries[i]
                     IN \/ Len(w.references) > ReferencesCountLimit
                        \/ \E k \in DOMAIN w.references :
                             \/ w.references[k][1] \notin {0, 1}
                             \/ w.references[k][1] = 1 /\ w.references[k][2] >= i - 1
<1>1. D = N
  OBVIOUS
<1>2. /\ InvoiceBytes(ma, entries) = Written(b)
      /\ \A i \in N : ~(Len(refs(entries[i])) > ReferencesCountLimit)
  <2> DEFINE Panics ==
               \/ rb.size > 1024 \/ Len(entries) > 128
               \/ \E i \in D :
                    \/ entries[i].extra >= ExtraSizeStorageCapacity \/ entries[i].extra >= TwoBytes
                    \/ Len(written(entries[i]).references) > ReferencesCountLimit
  <2>1. InvoiceBytes(ma, entries) = IF Panics THEN Panicked ELSE Written(b)
    BY Zenon DEF InvoiceBytes, References
  <2>2. ~Panicked.ok
    BY Zenon DEF Panicked
  <2> HIDE DEF b
  <2>3. ~Panics
    <3> HIDE DEF Panics
    <3> QED BY <2>1, <2>2, Zenon
  <2>4. InvoiceBytes(ma, entries) = Written(b)
    <3> HIDE DEF Panics
    <3> QED BY <2>1, <2>3
  <2>5. \A e : written(e).references = refs(e)
    BY Zenon
  <2> HIDE DEF written, refs
  <2> QED BY <1>1, <2>3, <2>4, <2>5, Zenon
<1>3. b.version = 0 /\ b.recipient = rb /\ DOMAIN b.entries = N
      /\ \A i \in N : b.entries[i] = written(entries[i])
  BY <1>1
<1> HIDE DEF b, rb, written
<1>4. ASSUME NEW i \in N
      PROVE  /\ ~Bad(i)
             /\ read(b.entries[i]) = entries[i]
  <2> DEFINE e == entries[i]
             w == b.entries[i]
  <2>1. PICK X, Y : e.indexes \in Seq(X) /\ e.hashes \in Seq(Y)
    BY DEF EntryOfInvoice
  <2>2. e = [trace |-> e.trace, asset |-> e.asset, amount |-> e.amount, extra |-> e.extra,
             indexes |-> e.indexes, hashes |-> e.hashes]
    BY Zenon DEF EntryOfInvoice
  <2>3. /\ w.trace = e.trace /\ w.asset = e.asset /\ w.amount = e.amount /\ w.extra = e.extra
        /\ w.references = refs(e)
    <3> DEFINE r == [trace |-> e.trace, asset |-> e.asset, amount |-> e.amount,
                     extra |-> e.extra, references |-> refs(e)]
    <3>1. /\ r.trace = e.trace /\ r.asset = e.asset /\ r.amount = e.amount /\ r.extra = e.extra
          /\ r.references = refs(e)
      <4> HIDE DEF refs, e
      <4> QED OBVIOUS
    <3>2. w = r
      BY <1>3, Zenon DEF written
    <3> HIDE DEF r, w, refs, e
    <3> QED BY <3>1, <3>2, Zenon
  <2>4. \A k \in DOMAIN e.indexes : ~(e.indexes[k] >= i - 1)
    OBVIOUS
  <2>5. ~(Len(refs(e)) > ReferencesCountLimit)
    BY <1>2
  <2> HIDE DEF e, w
  <2>6. /\ \A k \in DOMAIN refs(e) :
             /\ refs(e)[k][1] \in {0, 1}
             /\ refs(e)[k][1] = 1 => k \in DOMAIN e.indexes /\ refs(e)[k][2] = e.indexes[k]
        /\ ValuesOf(refs(e), 1) = e.indexes /\ ValuesOf(refs(e), 0) = e.hashes
    BY <2>1, ReferencesRoundTrip
  <2> HIDE DEF refs
  <2>7. ~Bad(i)
    BY <2>3, <2>4, <2>5, <2>6 DEF w
  <2>8. read(w) = [trace |-> e.trace, asset |-> e.asset, amount |-> e.amount, extra |-> e.extra,
                   indexes |-> e.indexes, hashes |-> e.hashes]
    BY <2>3, <2>6, Zenon
  <2>9. read(w) = e
    <3> HIDE DEF read
    <3> QED BY <2>2, <2>8, Zenon
  <2> QED BY <2>7, <2>9 DEF w, e
<1>5. ReadInvoice(b) = IF \/ b.version # 0 \/ ~ReadAddressBytes(b.recipient).ok
                          \/ \E i \in DOMAIN b.entries : Bad(i)
                       THEN Refused
                       ELSE Written([recipient |-> ReadAddressBytes(b.recipient).value,
                                     entries |-> [i \in DOMAIN b.entries |-> read(b.entries[i])]])
  BY Zenon DEF ReadInvoice, ValuesOf, PlacesOf
<1>6. Written(ma).ok /\ Written(ma).value = ma /\ Written(b).value = b
  BY Zenon DEF Written
<1>7. [i \in DOMAIN b.entries |-> read(b.entries[i])] = entries
  <2>1. [i \in DOMAIN b.entries |-> read(b.entries[i])] = [i \in N |-> entries[i]]
    <3> HIDE DEF read, N
    <3> QED BY <1>3, <1>4, Zenon
  <2> QED BY <2>1
<1> HIDE DEF read, Bad
<1>8. ReadInvoice(b) = Written([recipient |-> ma, entries |-> entries])
  <2>1. ReadAddressBytes(b.recipient) = Written(ma)
    BY <1>3 DEF rb
  <2>2. ReadInvoice(b) = Written([recipient |-> Written(ma).value, entries |->
                                    [i \in DOMAIN b.entries |-> read(b.entries[i])]])
    BY <1>3, <1>4, <1>5, <1>6, <2>1, Zenon
  <2> QED BY <1>6, <1>7, <2>2, Zenon
<1> QED BY <1>2, <1>6, <1>8, Zenon

\* The entry a call adds.
EntryOf(c) ==
  IF c.storage THEN [trace |-> "t", asset |-> "XIN", amount |-> EstimateStorageCost(c.entry.extra),
                     extra |-> c.entry.extra, indexes |-> <<>>, hashes |-> <<>>]
  ELSE c.entry

\* What AddEntry and AddStorageEntry make sure of at the k-th call.
Allowed(c, k) ==
  IF c.storage THEN ~(c.entry.extra > ExtraSizeStorageCapacity)
  ELSE /\ ~(c.entry.extra >= ExtraSizeGeneralLimit)
       /\ \A i \in DOMAIN c.entry.indexes : ~(c.entry.indexes[i] >= k - 1)

\* The recursion of Built has a solution, and Built is its last value.
LEMMA BuiltSteps ==
  ASSUME Len(in.calls) \in Nat
  PROVE  \E f : /\ Built = f[Len(in.calls)]
                /\ f[0] = Written(<<>>)
                /\ \A i \in 1..Len(in.calls) : f[i] = Call(f[i - 1], in.calls[i])
<1> DEFINE n == Len(in.calls)
           Step(f, i) == IF i = 0 THEN Written(<<>>) ELSE Call(f[i - 1], in.calls[i])
           Solves(f, m) == f = [i \in 0..m |-> Step(f, i)]
           T == {m \in Nat : m <= n => \E f : Solves(f, m)}
<1>1. 0 \in T
  <2>1. Solves([i \in 0..0 |-> Written(<<>>)], 0)
    OBVIOUS
  <2> QED BY <2>1
<1>2. ASSUME NEW m \in Nat, m \in T PROVE m + 1 \in T
  <2> HIDE DEF Solves
  <2> SUFFICES ASSUME m + 1 <= n PROVE \E f : Solves(f, m + 1)
    OBVIOUS
  <2>1. PICK f : Solves(f, m)
    BY <1>2
  <2> USE DEF Solves
  <2> DEFINE last == Call(f[m], in.calls[m + 1])
             g == [i \in 0..(m + 1) |-> IF i <= m THEN f[i] ELSE last]
  <2>2. \A i \in 0..m : f[i] = Step(f, i)
    BY <2>1
  <2> HIDE DEF last
  <2>3. \A i \in 0..(m + 1) : g[i] = Step(g, i)
    <3> TAKE i \in 0..(m + 1)
    <3>1. CASE i <= m
      <4>1. i \in 0..m /\ g[i] = f[i] /\ (i # 0 => g[i - 1] = f[i - 1])
        BY <3>1
      <4> HIDE DEF g
      <4> QED BY <2>2, <4>1
    <3>2. CASE i = m + 1
      <4>1. i # 0 /\ g[i] = last /\ g[i - 1] = f[m]
        BY <3>2
      <4> HIDE DEF g
      <4> QED BY <3>2, <4>1 DEF last
    <3> QED BY <3>1, <3>2
  <2>4. g = [i \in 0..(m + 1) |-> Step(g, i)]
    <3>1. g = [i \in 0..(m + 1) |-> g[i]]
      OBVIOUS
    <3> HIDE DEF g
    <3> QED BY <2>3, <3>1
  <2> HIDE DEF g
  <2> QED BY <2>4
<1>3. \E f : Solves(f, n)
  <2> HIDE DEF T
  <2>1. n \in T
    BY <1>1, <1>2, Induction
  <2> HIDE DEF Solves
  <2> QED BY <2>1 DEF T
<1> DEFINE Rec(f) == f = [i \in 0..Len(in.calls) |-> IF i = 0 THEN Written(<<>>)
                                                     ELSE Call(f[i - 1], in.calls[i])]
           after == CHOOSE f : Rec(f)
<1>4. Built = after[n]
  BY DEF Built
<1>5. Rec(after)
  BY <1>3
<1> HIDE DEF after
<1>6. \A i \in 0..n : after[i] = IF i = 0 THEN Written(<<>>) ELSE Call(after[i - 1], in.calls[i])
  BY <1>5
<1>7. after[0] = Written(<<>>) /\ \A i \in 1..n : after[i] = Call(after[i - 1], in.calls[i])
  BY <1>6
<1> QED BY <1>4, <1>7

\* A call that does not panic adds its entry and was allowed to.
LEMMA CallAdds ==
  ASSUME NEW entries, NEW c, c.storage \in BOOLEAN, Call(Written(entries), c).ok
  PROVE  /\ Call(Written(entries), c) = Written(Append(entries, EntryOf(c)))
         /\ Len(entries) \in Nat => Allowed(c, Len(entries) + 1)
<1> DEFINE e == c.entry
<1>1. Written(entries).ok /\ Written(entries).value = entries /\ ~Panicked.ok
  BY Zenon DEF Written, Panicked
<1> HIDE DEF e
<1>2. CASE c.storage
  <2>1. Call(Written(entries), c) = AddStorageEntry(entries, "t", e.extra)
    BY <1>1, <1>2, Zenon DEF Call, e
  <2>2. ~(e.extra > ExtraSizeStorageCapacity)
    BY <1>1, <2>1 DEF AddStorageEntry
  <2>3. AddStorageEntry(entries, "t", e.extra)
          = Written(Append(entries, [trace |-> "t", asset |-> "XIN", extra |-> e.extra,
                                     amount |-> EstimateStorageCost(e.extra),
                                     indexes |-> <<>>, hashes |-> <<>>]))
    BY <2>2 DEF AddStorageEntry
  <2>4. EntryOf(c) = [trace |-> "t", asset |-> "XIN", extra |-> e.extra,
                      amount |-> EstimateStorageCost(e.extra), indexes |-> <<>>, hashes |-> <<>>]
    BY <1>2 DEF EntryOf, e
  <2> QED BY <1>2, <2>1, <2>2, <2>3, <2>4 DEF Allowed, e
<1>3. CASE ~c.storage
  <2> DEFINE Panics == \/ e.extra >= ExtraSizeGeneralLimit
                       \/ Len(e.hashes) + Len(e.indexes) > ReferencesCountLimit
                       \/ \E i \in DOMAIN e.indexes : e.indexes[i] >= Len(entries)
  <2>1. Call(Written(entries), c) = AddEntry(entries, e)
    BY <1>1, <1>3, Zenon DEF Call, e
  <2>2. AddEntry(entries, e) = IF Panics THEN Panicked ELSE Written(Append(entries, e))
    BY Zenon DEF AddEntry
  <2>3. ~Panics
    <3> HIDE DEF Panics
    <3> QED BY <1>1, <2>1, <2>2
  <2>4. AddEntry(entries, e) = Written(Append(entries, e))
    BY <2>2, <2>3
  <2>5. EntryOf(c) = e
    BY <1>3 DEF EntryOf, e
  <2>6. Len(entries) \in Nat => (Len(entries) + 1) - 1 = Len(entries)
    OBVIOUS
  <2>7. Len(entries) \in Nat => Allowed(c, Len(entries) + 1)
    BY <1>3, <2>3, <2>6 DEF Allowed, e
  <2> QED BY <2>1, <2>4, <2>5, <2>7
<1> QED BY <1>2, <1>3

\* The entries of an invoice, as many as the calls it was built with.
LEMMA BuiltIs ==
  ASSUME Len(in.calls) \in Nat, \A k \in 1..Len(in.calls) : in.calls[k].storage \in BOOLEAN,
         Built.ok
  PROVE  /\ Built = Written([k \in 1..Len(in.calls) |-> EntryOf(in.calls[k])])
         /\ \A k \in 1..Len(in.calls) : Allowed(in.calls[k], k)
<1> DEFINE n == Len(in.calls)
           first(i) == [k \in 1..i |-> EntryOf(in.calls[k])]
<1>1. PICK f : /\ Built = f[n] /\ f[0] = Written(<<>>)
               /\ \A i \in 1..n : f[i] = Call(f[i - 1], in.calls[i])
  BY BuiltSteps
<1> DEFINE Fine(i) == f[i].ok => /\ f[i] = Written(first(i))
                                 /\ \A k \in 1..i : Allowed(in.calls[k], k)
           T == {i \in Nat : i <= n => Fine(i)}
<1>2. \A x : Written(x).ok /\ Written(x).value = x
  BY Zenon DEF Written
<1>3. 0 \in T
  <2>1. first(0) = <<>>
    OBVIOUS
  <2> HIDE DEF first
  <2> QED BY <1>1, <2>1
<1>4. ASSUME NEW i \in Nat, i \in T PROVE i + 1 \in T
  <2> SUFFICES ASSUME i + 1 <= n, f[i + 1].ok
               PROVE  /\ f[i + 1] = Written(first(i + 1))
                      /\ \A k \in 1..(i + 1) : Allowed(in.calls[k], k)
    OBVIOUS
  <2> DEFINE c == in.calls[i + 1]
  <2>1. i + 1 \in 1..n /\ (i + 1) - 1 = i
    OBVIOUS
  <2>2. f[i + 1] = Call(f[i], c)
    BY <1>1, <2>1
  <2>3. f[i].ok
    BY <2>2 DEF Call
  <2>4. f[i] = Written(first(i)) /\ \A k \in 1..i : Allowed(in.calls[k], k)
    BY <1>4, <2>3
  <2>5. Len(first(i)) = i
    OBVIOUS
  <2>6. Append(first(i), EntryOf(c)) = first(i + 1)
    <3> DEFINE g == first(i)
               h == first(i + 1)
    <3>1. /\ DOMAIN g = 1..i /\ DOMAIN h = 1..(i + 1) /\ g = [k \in 1..i |-> g[k]]
          /\ h = [k \in 1..(i + 1) |-> h[k]] /\ h[i + 1] = EntryOf(c)
          /\ \A k \in 1..i : h[k] = g[k]
      OBVIOUS
    <3> HIDE DEF g, h
    <3>2. Append(g, EntryOf(c)) = [k \in 1..(Len(g) + 1) |-> IF k = Len(g) + 1 THEN EntryOf(c) ELSE g[k]]
      BY <2>5 DEF g
    <3> QED BY <2>5, <3>1, <3>2 DEF g, h
  <2> HIDE DEF c, first
  <2>7. c.storage \in BOOLEAN
    BY <2>1 DEF c
  <2>8. /\ Call(Written(first(i)), c) = Written(Append(first(i), EntryOf(c)))
        /\ Allowed(c, i + 1)
    BY <2>2, <2>4, <2>5, <2>7, CallAdds
  <2>9. \A k \in 1..(i + 1) : k = i + 1 \/ k \in 1..i
    BY LastOrBefore
  <2> QED BY <2>2, <2>4, <2>6, <2>8, <2>9 DEF c
<1>5. n \in T
  <2> HIDE DEF T
  <2> QED BY <1>3, <1>4, Induction
<1>6. Fine(n)
  <2> HIDE DEF Fine
  <2> QED BY <1>5
<1>7. f[n].ok
  BY <1>1
<1>8. f[n] = Written(first(n)) /\ \A k \in 1..n : Allowed(in.calls[k], k)
  BY <1>6, <1>7
<1> QED BY <1>1, <1>8, Zenon

\* What the calls of the runs are made of.
LEMMA CallsAre ==
  ASSUME NEW c \in Calls
  PROVE  /\ c.storage \in BOOLEAN /\ c.entry.extra \in Nat
         /\ ~c.storage => c.entry \in Entries
<1>1. ASSUME NEW X, NEW Y, NEW d \in [storage : X, entry : Y] PROVE d.storage \in X /\ d.entry \in Y
  OBVIOUS
<1>2. \A x \in Entries \cup Stored : x.extra \in Nat
  <2>1. \A x \in Entries : x.extra \in {0, 255, 256}
    BY DEF Entries
  <2>2. \A x \in Stored : x.extra \in Nat
    BY SMT DEF Stored
  <2> HIDE DEF Entries, Stored
  <2> QED BY <2>1, <2>2
<1> HIDE DEF Entries, Stored
<1>3. CASE c \in [storage : {FALSE}, entry : Entries]
  <2>1. c.storage \in {FALSE} /\ c.entry \in Entries
    BY <1>1, <1>3
  <2> QED BY <1>2, <2>1
<1>4. CASE c \in [storage : {TRUE}, entry : Stored]
  <2>1. c.storage \in {TRUE} /\ c.entry \in Stored
    BY <1>1, <1>4
  <2> QED BY <1>2, <2>1
<1> QED BY <1>3, <1>4, Zenon DEF Calls

\* What they add is an entry.
LEMMA EntryOfCall ==
  ASSUME NEW c \in Calls
  PROVE  /\ EntryOfInvoice(EntryOf(c)) /\ EntryOf(c).extra = c.entry.extra
         /\ c.storage => /\ EntryOf(c).indexes = <<>> /\ EntryOf(c).asset = "XIN"
                         /\ EntryOf(c).amount = EstimateStorageCost(c.entry.extra)
         /\ ~c.storage => EntryOf(c) = c.entry
<1>1. CASE c.storage
  <2> DEFINE e == [trace |-> "t", asset |-> "XIN", amount |-> EstimateStorageCost(c.entry.extra),
                   extra |-> c.entry.extra, indexes |-> <<>>, hashes |-> <<>>]
  <2>1. EntryOf(c) = e
    BY <1>1 DEF EntryOf
  <2>2. /\ e = [trace |-> e.trace, asset |-> e.asset, amount |-> e.amount, extra |-> e.extra,
                indexes |-> e.indexes, hashes |-> e.hashes]
        /\ e.extra = c.entry.extra /\ e.indexes = <<>> /\ e.asset = "XIN"
        /\ e.amount = EstimateStorageCost(c.entry.extra)
        /\ e.indexes \in Seq(Nat) /\ e.hashes \in Seq(Nat)
    OBVIOUS
  <2> HIDE DEF e
  <2>3. EntryOfInvoice(e)
    BY <2>2 DEF EntryOfInvoice
  <2> QED BY <1>1, <2>1, <2>2, <2>3
<1>2. CASE ~c.storage
  <2> DEFINE e == c.entry
  <2>1. e \in Entries
    BY <1>2, CallsAre
  <2>2. e = [trace |-> e.trace, asset |-> e.asset, amount |-> e.amount, extra |-> e.extra,
             indexes |-> e.indexes, hashes |-> e.hashes]
    BY <2>1 DEF Entries
  <2>3. /\ e.indexes \in {<<>>, <<0>>, <<1>>, <<1, 0>>}
        /\ e.hashes \in {<<>>, <<"h">>, <<"h", "g">>}
    BY <2>1 DEF Entries
  <2> HIDE DEF e
  <2>4. e.indexes \in Seq({0, 1}) /\ e.hashes \in Seq({"h", "g"})
    <3>1. ASSUME NEW S, NEW a \in S, NEW b \in S
          PROVE  <<>> \in Seq(S) /\ <<a>> \in Seq(S) /\ <<a, b>> \in Seq(S)
      OBVIOUS
    <3>2. 0 \in {0, 1} /\ 1 \in {0, 1} /\ "h" \in {"h", "g"} /\ "g" \in {"h", "g"}
      OBVIOUS
    <3>3. /\ <<>> \in Seq({0, 1}) /\ <<0>> \in Seq({0, 1}) /\ <<1>> \in Seq({0, 1})
          /\ <<1, 0>> \in Seq({0, 1}) /\ <<>> \in Seq({"h", "g"}) /\ <<"h">> \in Seq({"h", "g"})
          /\ <<"h", "g">> \in Seq({"h", "g"})
      BY <3>1, <3>2, Zenon
    <3> QED BY <2>3, <3>3, Zenon
  <2>5. EntryOfInvoice(e)
    BY <2>2, <2>4 DEF EntryOfInvoice
  <2>6. EntryOf(c) = e
    BY <1>2 DEF EntryOf, e
  <2> QED BY <1>2, <2>5, <2>6 DEF e
<1>3. c.storage \in BOOLEAN
  BY CallsAre
<1> QED BY <1>1, <1>2, <1>3

\* The entries that pay for storage are those of AddStorageEntry whose extra no
\* other entry could carry, and they pay what a transaction would pay for it.
LEMMA StorageOf ==
  ASSUME NEW c \in Calls, NEW k, Allowed(c, k)
  PROVE  LET e == EntryOf(c)
         IN /\ IsStorage(e) <=> c.storage /\ c.entry.extra > ExtraSizeGeneralLimit
            /\ IsStorage(e) => StorageRecipients(<<>>, e.extra, 0)
                                 = Written(<<[to |-> "storage", amount |-> e.amount]>>)
<1> DEFINE e == EntryOf(c)
           x == c.entry.extra
<1>1. /\ e.extra = x /\ x \in Nat /\ c.storage \in BOOLEAN
      /\ c.storage => e.asset = "XIN" /\ e.amount = EstimateStorageCost(x)
      /\ ~c.storage => e = c.entry
  BY CallsAre, EntryOfCall
<1>2. /\ c.storage => ~(x > ExtraSizeStorageCapacity)
      /\ ~c.storage => ~(x >= ExtraSizeGeneralLimit)
  BY <1>1, Zenon DEF Allowed
<1> HIDE DEF e, x
<1>3. IsStorage(e) <=> c.storage /\ x > ExtraSizeGeneralLimit
  <2>1. CASE c.storage
    BY <1>1, <2>1 DEF IsStorage
  <2>2. CASE ~c.storage
    BY <1>1, <1>2, <2>2 DEF IsStorage, ExtraSizeGeneralLimit
  <2> QED BY <1>1, <2>1, <2>2
<1>4. ASSUME IsStorage(e)
      PROVE  StorageRecipients(<<>>, e.extra, 0)
               = Written(<<[to |-> "storage", amount |-> e.amount]>>)
  <2> DEFINE cost == EstimateStorageCost(x)
             r == <<[to |-> "storage", amount |-> IF 0 > cost THEN 0 ELSE cost]>>
  <2>1. cost \in Nat \ {0}
    BY <1>1 DEF EstimateStorageCost, ExtraSizeStorageStep
  <2>2. ~(x > ExtraSizeStorageCapacity) /\ e.extra = x /\ e.amount = cost
    BY <1>1, <1>2, <1>3, <1>4
  <2>3. StorageRecipients(<<>>, x, 0) = Written(r \o <<>>)
    BY <2>2, Zenon DEF StorageRecipients
  <2>4. r = <<[to |-> "storage", amount |-> cost]>>
    <3>1. ~(0 > cost)
      BY <2>1
    <3> HIDE DEF cost
    <3> QED BY <3>1
  <2>5. r \o <<>> = r
    <3>1. \E S : r \in Seq(S)
      <4> DEFINE y == [to |-> "storage", amount |-> IF 0 > cost THEN 0 ELSE cost]
      <4> HIDE DEF y
      <4>1. <<y>> \in Seq({y})
        OBVIOUS
      <4> QED BY <4>1 DEF y
    <3> HIDE DEF r
    <3> QED BY <3>1
  <2> HIDE DEF r, cost
  <2> QED BY <2>2, <2>3, <2>4, <2>5, Zenon
<1> QED BY <1>3, <1>4 DEF e, x

\* The invoices of the runs.
LEMMA InvoicesAre ==
  ASSUME in \in Payments \cup Addressed \cup Others, Is("invoice")
  PROVE  /\ in.recipient \in Addresses /\ in.recipient.ok
         /\ Len(in.calls) \in Nat /\ \A k \in 1..Len(in.calls) : in.calls[k] \in Calls
<1>1. /\ in.recipient \in {a \in Addresses : a.ok} \cup {Address("uuid", 2, 1)}
      /\ in.calls \in (UNION {[1..n -> Calls] : n \in {0, 1}}) \cup [1..2 -> Calls]
  <2> DEFINE some == {a \in Addresses : a.ok}
             atMostOne == UNION {[1..n -> Calls] : n \in {0, 1}}
             two == [1..2 -> Calls]
  <2>1. \/ in \in [kind : {"invoice"}, recipient : some, calls : atMostOne]
        \/ in \in [kind : {"invoice"}, recipient : {Address("uuid", 2, 1)}, calls : two]
    <3> HIDE DEF Addresses, Sessions, Wallets, ShareLists, Amounts
    <3> QED BY DEF Is, Payments, Addressed, Others
  <2>2. /\ in.recipient \in some \cup {Address("uuid", 2, 1)}
        /\ in.calls \in atMostOne \cup two
    <3> HIDE DEF some, atMostOne, two, Address
    <3> QED BY <2>1
  <2> QED BY <2>2, Zenon
<1>2. Address("uuid", 2, 1) \in Addresses
  <2> HIDE DEF Address
  <2> QED BY DEF Addresses
<1>3. Address("uuid", 2, 1).ok
  <2>1. Len([i \in 1..2 |-> i]) = 2
    OBVIOUS
  <2> HIDE DEF Addresses
  <2> QED BY <2>1 DEF Address, NewMixAddress, Written
<1>4. ASSUME NEW S, NEW x \in (UNION {[1..n -> S] : n \in {0, 1}}) \cup [1..2 -> S]
      PROVE  Len(x) \in Nat /\ \A k \in 1..Len(x) : x[k] \in S
  <2>1. PICK n \in 0..2 : x \in [1..n -> S]
    <3>1. CASE x \in [1..2 -> S]
      BY <3>1
    <3>2. CASE x \in UNION {[1..n -> S] : n \in {0, 1}}
      <4>1. PICK n \in {0, 1} : x \in [1..n -> S]
        BY <3>2, Zenon
      <4> QED BY <4>1
    <3> QED BY <3>1, <3>2
  <2> QED BY <2>1
<1> HIDE DEF Calls, Addresses, Address
<1>5. Len(in.calls) \in Nat /\ \A k \in 1..Len(in.calls) : in.calls[k] \in Calls
  BY <1>1, <1>4, Zenon
<1> QED BY <1>1, <1>2, <1>3, <1>5

\* An invoice that AddEntry and AddStorageEntry let one build and String write
\* is read back with the same recipient, entries and references, and the reader
\* knows the entries that pay for storage.
THEOREM InvoicesReadBack == Spec => []InvoiceReadsBack
<1> DEFINE IsInput == in \in Payments \cup Addressed \cup Others
<1>1. Init => IsInput
  BY DEF Init
<1>2. IsInput /\ [Next]_<<in, done>> => IsInput'
  BY DEF Next, Compute
<1>3. ASSUME IsInput PROVE InvoiceReadsBack
  <2> DEFINE n == Len(in.calls)
             ma == in.recipient.value
             entries == [k \in 1..n |-> EntryOf(in.calls[k])]
             written == InvoiceBytes(ma, entries)
             read == ReadInvoice(written.value)
             Pays(e) == StorageRecipients(<<>>, e.extra, 0)
                          = Written(<<[to |-> "storage", amount |-> e.amount]>>)
  <2> SUFFICES ASSUME Is("invoice"), Built.ok, InvoiceBytes(ma, Built.value).ok,
                      Len(ma.members) <= 64
               PROVE  /\ ReadInvoice(InvoiceBytes(ma, Built.value).value)
                           = Written([recipient |-> ma, entries |-> Built.value])
                      /\ \A i \in DOMAIN Built.value :
                           LET e == ReadInvoice(InvoiceBytes(ma, Built.value).value).value.entries[i]
                           IN /\ IsStorage(e) <=> in.calls[i].storage
                                                  /\ in.calls[i].entry.extra > ExtraSizeGeneralLimit
                              /\ IsStorage(e) => Pays(e)
    BY Zenon DEF InvoiceReadsBack
  <2>1. /\ in.recipient \in Addresses /\ in.recipient.ok
        /\ n \in Nat /\ \A k \in 1..n : in.calls[k] \in Calls
    BY <1>3, InvoicesAre
  <2>2. \A k \in 1..n : in.calls[k].storage \in BOOLEAN
    BY <2>1, CallsAre
  <2>3. Built = Written(entries) /\ \A k \in 1..n : Allowed(in.calls[k], k)
    <3> HIDE DEF entries
    <3> QED BY <2>1, <2>2, BuiltIs DEF entries
  <2>4. \A x : Written(x).value = x
    BY Zenon DEF Written
  <2>5. Built.value = entries
    BY <2>3, <2>4, Zenon
  <2>6. /\ DOMAIN entries = 1..n /\ Len(entries) = n
        /\ \A k \in 1..n : entries[k] = EntryOf(in.calls[k])
        /\ entries = [i \in 1..Len(entries) |-> entries[i]]
    BY <2>1
  <2> HIDE DEF entries, n, ma
  <2>7. ReadAddressBytes(AddressBytes(ma)) = Written(ma)
    BY <2>1, AddressOf DEF ma
  <2>8. \A k \in 1..n : EntryOfInvoice(entries[k])
    BY <2>1, <2>6, EntryOfCall
  <2>9. ASSUME NEW k \in 1..n, NEW i \in DOMAIN entries[k].indexes
        PROVE  ~(entries[k].indexes[i] >= k - 1)
    <3> DEFINE c == in.calls[k]
    <3>1. /\ c.storage => EntryOf(c).indexes = <<>>
          /\ ~c.storage => EntryOf(c) = c.entry
          /\ c.storage \in BOOLEAN
      BY <2>1, <2>2, EntryOfCall
    <3>2. entries[k] = EntryOf(c) /\ Allowed(c, k)
      BY <2>3, <2>6
    <3> HIDE DEF c
    <3>3. ~c.storage
      BY <3>1, <3>2
    <3>4. entries[k] = c.entry
      BY <3>1, <3>2, <3>3
    <3> QED BY <3>2, <3>3, <3>4, Zenon DEF Allowed
  <2>10. read = Written([recipient |-> ma, entries |-> entries])
    <3>1. InvoiceBytes(ma, entries).ok
      BY <2>5
    <3> QED BY <2>6, <2>7, <2>8, <2>9, <3>1, InvoiceRoundTrip
  <2>11. read.value.entries = entries
    <3> DEFINE r == [recipient |-> ma, entries |-> entries]
    <3>1. r.entries = entries
      OBVIOUS
    <3>2. read.value = r
      BY <2>4, <2>10, Zenon
    <3> QED BY <3>1, <3>2, Zenon
  <2>12. ASSUME NEW i \in 1..n
         PROVE  LET e == read.value.entries[i]
                IN /\ IsStorage(e) <=> in.calls[i].storage
                                       /\ in.calls[i].entry.extra > ExtraSizeGeneralLimit
                   /\ IsStorage(e) => Pays(e)
    <3>1. in.calls[i] \in Calls /\ Allowed(in.calls[i], i)
      BY <2>1, <2>3
    <3>2. read.value.entries[i] = EntryOf(in.calls[i])
      BY <2>6, <2>11
    <3> HIDE DEF read
    <3> QED BY <3>1, <3>2, StorageOf, Zenon
  <2> HIDE DEF Pays, read, written
  <2>13. ReadInvoice(InvoiceBytes(ma, Built.value).value) = read
    BY <2>5, Zenon DEF read, written
  <2>14. DOMAIN Built.value = 1..n
    BY <2>5, <2>6
  <2> QED BY <2>5, <2>10, <2>12, <2>13, <2>14, Zenon
<1> QED BY <1>1, <1>2, <1>3, PTL DEF Spec
==============================================================================
