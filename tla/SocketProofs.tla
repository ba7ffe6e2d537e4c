----------------------------- MODULE SocketProofs -----------------------------
(***************************************************************************)
(* Theorems about Socket and WindowsSocket, for messages of any number of  *)
(* blocks, any sizes of buffers and any number of calls and connections.   *)
(***************************************************************************)
EXTENDS WindowsSocket, WellFoundedInduction, SequenceTheorems, TLAPS

-------------------------------------------------------------------------------
(* Induction over sets of numbers, from the order of the numbers, and the  *)
(* sum it is needed for.                                                   *)

Below == {ss \in Nat \X Nat : ss[1] < ss[2]}

LEMMA LeastNumber ==
  ASSUME NEW T \in SUBSET Nat, T # {}
  PROVE  \E x \in T : \A y \in T : x <= y
<1>1. Below = OpToRel(<, Nat)
  BY DEF Below, OpToRel
<1>2. IsWellFoundedOn(Below, Nat)
  BY <1>1, NatLessThanWellFounded
<1>3. PICK x \in T : \A y \in T : <<y, x>> \notin Below
  BY <1>2, WFMin
<1>4. ASSUME NEW y \in T PROVE x <= y
  <2>1. y \in Nat /\ x \in Nat /\ ~(y < x)
    BY <1>3 DEF Below
  <2> QED BY <2>1
<1> QED BY <1>4

LEMMA SetInduction ==
  ASSUME NEW S, 0 \in S, \A n \in Nat : n \in S => n + 1 \in S
  PROVE  Nat \subseteq S
<1>1. SUFFICES ASSUME Nat \ S # {} PROVE FALSE
  OBVIOUS
<1>2. PICK x \in Nat \ S : \A y \in Nat \ S : x <= y
  BY <1>1, LeastNumber
<1>3. x # 0 /\ x - 1 \in Nat
  BY <1>2
<1> QED BY <1>2, <1>3

(* The sums of the first sizes are one function.                           *)
Sums(sizes, m) ==
  {f \in [0 .. m -> Nat] : f[0] = 0 /\ \A i \in 1 .. m : f[i] = f[i - 1] + sizes[i]}

LEMMA SumsExist ==
  ASSUME NEW sizes \in Seq(Nat)
  PROVE  Sums(sizes, Len(sizes)) # {}
<1> DEFINE S == {m \in Nat : m <= Len(sizes) => Sums(sizes, m) # {}}
<1>1. 0 \in S
  <2>1. [i \in 0 .. 0 |-> 0] \in Sums(sizes, 0)
    BY DEF Sums
  <2> QED BY <2>1
<1>2. ASSUME NEW n \in Nat, n \in S PROVE n + 1 \in S
  <2>1. SUFFICES ASSUME n + 1 <= Len(sizes) PROVE Sums(sizes, n + 1) # {}
    OBVIOUS
  <2>2. Len(sizes) \in Nat /\ Sums(sizes, n) # {}
    BY <1>2, <2>1
  <2>3. PICK f \in [0 .. n -> Nat] : f[0] = 0 /\ \A i \in 1 .. n : f[i] = f[i - 1] + sizes[i]
    BY <2>2 DEF Sums
  <2> DEFINE g == [i \in 0 .. n + 1 |-> IF i = n + 1 THEN f[n] + sizes[n + 1] ELSE f[i]]
  <2>4. f[n] \in Nat /\ sizes[n + 1] \in Nat
    BY <2>1, <2>2, <2>3
  <2>5. g \in [0 .. n + 1 -> Nat] /\ g[0] = 0
    BY <2>3, <2>4
  <2>6. ASSUME NEW i \in 1 .. n + 1 PROVE g[i] = g[i - 1] + sizes[i]
    BY <2>3, <2>4, SMTT(30)
  <2> HIDE DEF g
  <2>7. g \in Sums(sizes, n + 1)
    BY <2>5, <2>6 DEF Sums
  <2> QED BY <2>7
<1> HIDE DEF S
<1>3. Nat \subseteq S
  BY <1>1, <1>2, SetInduction
<1>4. Len(sizes) \in Nat
  OBVIOUS
<1> QED BY <1>3, <1>4 DEF S

LEMMA UpToIs ==
  ASSUME NEW sizes \in Seq(Nat)
  PROVE  /\ UpTo(sizes, 0) = 0
         /\ \A i \in 0 .. Len(sizes) : UpTo(sizes, i) \in Nat
         /\ \A i \in 1 .. Len(sizes) : UpTo(sizes, i) = UpTo(sizes, i - 1) + sizes[i]
<1> DEFINE Def(f) == f = [i \in 0 .. Len(sizes) |-> IF i = 0 THEN 0 ELSE f[i - 1] + sizes[i]]
           sum == CHOOSE f : Def(f)
<1>0. Len(sizes) \in Nat
  OBVIOUS
<1>1. PICK g : g \in Sums(sizes, Len(sizes))
  BY SumsExist
<1>2. Def(g)
  BY <1>0, <1>1 DEF Sums
<1>3. Def(sum)
  BY <1>2
<1>4. \A n \in 0 .. Len(sizes) : UpTo(sizes, n) = sum[n]
  BY DEF UpTo
<1> HIDE DEF sum
<1>5. /\ sum[0] = 0
      /\ \A i \in 1 .. Len(sizes) : sum[i] = sum[i - 1] + sizes[i]
  BY <1>0, <1>3
<1> HIDE DEF Def
<1> DEFINE S == {n \in Nat : n <= Len(sizes) => sum[n] \in Nat}
<1>6. 0 \in S
  BY <1>5
<1>7. ASSUME NEW n \in Nat, n \in S PROVE n + 1 \in S
  <2>1. SUFFICES ASSUME n + 1 <= Len(sizes) PROVE sum[n + 1] \in Nat
    OBVIOUS
  <2>2. n + 1 \in 1 .. Len(sizes) /\ (n + 1) - 1 = n /\ n <= Len(sizes)
    BY <1>0, <2>1
  <2>3. sum[n] \in Nat /\ sizes[n + 1] \in Nat /\ sum[n + 1] = sum[n] + sizes[n + 1]
    BY <1>5, <1>7, <2>2
  <2> QED BY <2>3
<1>8. Nat \subseteq S
  <2> HIDE DEF S
  <2> QED BY <1>6, <1>7, SetInduction
<1>9. \A i \in 0 .. Len(sizes) : sum[i] \in Nat
  BY <1>0, <1>8
<1> HIDE DEF S
<1>10. \A i \in 1 .. Len(sizes) : i \in 0 .. Len(sizes) /\ i - 1 \in 0 .. Len(sizes)
  BY <1>0
<1>11. 0 \in 0 .. Len(sizes)
  BY <1>0
<1> QED BY <1>4, <1>5, <1>9, <1>10, <1>11

LEMMA UpToGrows ==
  ASSUME NEW sizes \in Seq(Nat), NEW i \in 0 .. Len(sizes), NEW j \in i .. Len(sizes)
  PROVE  UpTo(sizes, i) <= UpTo(sizes, j)
<1> DEFINE S == {n \in Nat : i + n <= Len(sizes) => UpTo(sizes, i) <= UpTo(sizes, i + n)}
<1>0. Len(sizes) \in Nat /\ i \in Nat /\ j \in Nat
  OBVIOUS
<1>1. \A k \in 0 .. Len(sizes) : UpTo(sizes, k) \in Nat
  BY UpToIs
<1>2. \A k \in 1 .. Len(sizes) : UpTo(sizes, k) = UpTo(sizes, k - 1) + sizes[k]
  BY UpToIs
<1>3. 0 \in S
  BY <1>0, <1>1
<1>4. ASSUME NEW n \in Nat, n \in S PROVE n + 1 \in S
  <2>1. SUFFICES ASSUME i + (n + 1) <= Len(sizes)
                 PROVE  UpTo(sizes, i) <= UpTo(sizes, i + (n + 1))
    OBVIOUS
  <2>2. /\ i + (n + 1) \in 1 .. Len(sizes) /\ (i + (n + 1)) - 1 = i + n
        /\ i + n \in 0 .. Len(sizes) /\ i + n <= Len(sizes) /\ i \in 0 .. Len(sizes)
    BY <1>0, <2>1
  <2>3. UpTo(sizes, i + (n + 1)) = UpTo(sizes, i + n) + sizes[i + (n + 1)]
    BY <1>2, <2>2
  <2>4. /\ UpTo(sizes, i + n) \in Nat /\ UpTo(sizes, i) \in Nat
        /\ sizes[i + (n + 1)] \in Nat
    BY <1>1, <2>2
  <2>5. UpTo(sizes, i) <= UpTo(sizes, i + n)
    BY <1>4, <2>2
  <2> QED BY <2>3, <2>4, <2>5
<1>5. Nat \subseteq S
  <2> HIDE DEF S
  <2> QED BY <1>3, <1>4, SetInduction
<1>6. j - i \in Nat /\ i + (j - i) = j /\ j <= Len(sizes)
  BY <1>0
<1>7. j - i \in S
  BY <1>5, <1>6
<1> QED BY <1>6, <1>7

(* Entries of length 0 in front of the blocks add nothing.                 *)
LEMMA PaddedTotal ==
  ASSUME NEW zeros \in Seq(Nat), \A i \in 1 .. Len(zeros) : zeros[i] = 0,
         NEW blocks \in Seq(Nat)
  PROVE  zeros \o blocks \in Seq(Nat) /\ Total(zeros \o blocks) = Total(blocks)
<1> DEFINE all == zeros \o blocks
           S == {n \in Nat : n <= Len(zeros) => UpTo(all, n) = 0}
           R == {n \in Nat : n <= Len(blocks) => UpTo(all, Len(zeros) + n) = UpTo(blocks, n)}
<1>0. /\ all \in Seq(Nat) /\ Len(all) = Len(zeros) + Len(blocks)
      /\ Len(zeros) \in Nat /\ Len(blocks) \in Nat
      /\ \A i \in 1 .. Len(zeros) : all[i] = 0
      /\ \A i \in 1 .. Len(blocks) : all[Len(zeros) + i] = blocks[i]
  OBVIOUS
<1> HIDE DEF all
<1>1. /\ UpTo(all, 0) = 0 /\ UpTo(blocks, 0) = 0
      /\ \A i \in 0 .. Len(all) : UpTo(all, i) \in Nat
      /\ \A i \in 0 .. Len(blocks) : UpTo(blocks, i) \in Nat
      /\ \A i \in 1 .. Len(all) : UpTo(all, i) = UpTo(all, i - 1) + all[i]
      /\ \A i \in 1 .. Len(blocks) : UpTo(blocks, i) = UpTo(blocks, i - 1) + blocks[i]
  BY <1>0, UpToIs
<1>2. 0 \in S
  BY <1>1
<1>3. ASSUME NEW n \in Nat, n \in S PROVE n + 1 \in S
  <2>1. SUFFICES ASSUME n + 1 <= Len(zeros) PROVE UpTo(all, n + 1) = 0
    OBVIOUS
  <2>2. /\ n + 1 \in 1 .. Len(all) /\ n + 1 \in 1 .. Len(zeros)
        /\ (n + 1) - 1 = n /\ n <= Len(zeros)
    BY <1>0, <2>1
  <2>3. UpTo(all, n + 1) = UpTo(all, n) + all[n + 1] /\ all[n + 1] = 0 /\ UpTo(all, n) = 0
    BY <1>0, <1>1, <1>3, <2>2
  <2> QED BY <2>3
<1>4. Nat \subseteq S
  <2> HIDE DEF S
  <2> QED BY <1>2, <1>3, SetInduction
<1>5. UpTo(all, Len(zeros)) = 0
  BY <1>0, <1>4
<1>6. 0 \in R
  <2>1. Len(zeros) + 0 = Len(zeros)
    BY <1>0
  <2> QED BY <1>1, <1>5, <2>1
<1>7. ASSUME NEW n \in Nat, n \in R PROVE n + 1 \in R
  <2>1. SUFFICES ASSUME n + 1 <= Len(blocks)
                 PROVE  UpTo(all, Len(zeros) + (n + 1)) = UpTo(blocks, n + 1)
    OBVIOUS
  <2>2. /\ Len(zeros) + (n + 1) \in 1 .. Len(all) /\ n + 1 \in 1 .. Len(blocks)
        /\ (n + 1) - 1 = n /\ (Len(zeros) + (n + 1)) - 1 = Len(zeros) + n
        /\ n <= Len(blocks)
    BY <1>0, <2>1
  <2>3. /\ UpTo(all, Len(zeros) + (n + 1)) =
             UpTo(all, Len(zeros) + n) + all[Len(zeros) + (n + 1)]
        /\ UpTo(blocks, n + 1) = UpTo(blocks, n) + blocks[n + 1]
    BY <1>1, <2>2
  <2>4. /\ all[Len(zeros) + (n + 1)] = blocks[n + 1]
        /\ UpTo(all, Len(zeros) + n) = UpTo(blocks, n)
    BY <1>0, <1>7, <2>2
  <2> QED BY <2>3, <2>4
<1>8. Nat \subseteq R
  <2> HIDE DEF R
  <2> QED BY <1>6, <1>7, SetInduction
<1>9. UpTo(all, Len(all)) = UpTo(blocks, Len(blocks))
  BY <1>0, <1>8
<1> QED BY <1>0, <1>9 DEF Total, all

LEMMA SingleTotal ==
  ASSUME NEW size \in Nat
  PROVE  <<size>> \in Seq(Nat) /\ Len(<<size>>) = 1 /\ Total(<<size>>) = size
<1>1. PICK s : s = <<size>>
  OBVIOUS
<1>2. s \in Seq(Nat) /\ Len(s) = 1 /\ s[1] = size /\ 1 \in 1 .. Len(s)
  BY <1>1
<1>3. UpTo(s, 0) = 0 /\ UpTo(s, 1) = UpTo(s, 1 - 1) + s[1]
  BY <1>2, UpToIs
<1>4. UpTo(s, 1) = size
  BY <1>2, <1>3
<1> QED BY <1>1, <1>2, <1>4 DEF Total

(* -1 as an unsigned number, and back.                                     *)
LEMMA MinusOne ==
  ASSUME SizeLimit # 0
  PROVE  AsSize(-1) = SizeLimit - 1 /\ AsSigned(SizeLimit - 1) = -1
<1>1. SizeLimit \in Nat /\ SizeLimit > 0
  BY SocketAssumption
<1>2. (-1) % SizeLimit = SizeLimit - 1
  BY <1>1
<1>3. SizeLimit - 1 >= SizeLimit \div 2
  BY <1>1
<1> QED BY <1>1, <1>2, <1>3 DEF AsSize, AsSigned

-------------------------------------------------------------------------------
(* Sequences: what they consist of, and their order.                       *)

Byte == Nat \X Nat

LEMMA Elements ==
  ASSUME NEW S, NEW s \in Seq(S)
  PROVE  ToSet(s) \subseteq S /\ ToSet(s) = {s[i] : i \in 1 .. Len(s)}
BY DEF ToSet

LEMMA ElementsOfBoth ==
  ASSUME NEW S, NEW s \in Seq(S), NEW t \in Seq(S)
  PROVE  s \o t \in Seq(S) /\ ToSet(s \o t) = ToSet(s) \cup ToSet(t)
<1> DEFINE m == Len(s)  n == Len(t)
<1>0. PICK u : u = s \o t
  OBVIOUS
<1>1. /\ u \in Seq(S) /\ Len(u) = m + n /\ m \in Nat /\ n \in Nat
      /\ \A i \in 1 .. m : u[i] = s[i]
      /\ \A i \in 1 .. n : u[m + i] = t[i]
  BY <1>0
<1>2. ASSUME NEW x \in ToSet(u) PROVE x \in ToSet(s) \cup ToSet(t)
  <2>1. PICK i \in 1 .. m + n : x = u[i]
    BY <1>1, <1>2, Elements
  <2>2. CASE i <= m
    <3>1. i \in 1 .. m
      BY <1>1, <2>2
    <3> QED BY <1>1, <2>1, <3>1, Elements
  <2>3. CASE i > m
    <3>1. i - m \in 1 .. n /\ m + (i - m) = i
      BY <1>1, <2>3
    <3>2. x = t[i - m]
      BY <1>1, <2>1, <3>1
    <3> QED BY <3>1, <3>2, Elements
  <2> QED BY <1>1, <2>2, <2>3
<1>3. ASSUME NEW x \in ToSet(s) PROVE x \in ToSet(u)
  <2>1. PICK i \in 1 .. m : x = s[i]
    BY <1>3, Elements
  <2>2. i \in 1 .. Len(u) /\ x = u[i]
    BY <1>1, <2>1
  <2> QED BY <1>1, <2>2, Elements
<1>4. ASSUME NEW x \in ToSet(t) PROVE x \in ToSet(u)
  <2>1. PICK i \in 1 .. n : x = t[i]
    BY <1>4, Elements
  <2>2. m + i \in 1 .. Len(u)
    BY <1>1
  <2>3. x = u[m + i]
    BY <1>1, <2>1
  <2>4. ToSet(u) = {u[k] : k \in 1 .. Len(u)}
    BY <1>1, Elements
  <2> QED BY <2>2, <2>3, <2>4
<1> QED BY <1>0, <1>1, <1>2, <1>3, <1>4

(* Bytes in order, put together: each part is in order, and so are they.   *)
LEMMA OrderOfBoth ==
  ASSUME NEW s \in Seq(Byte), NEW t \in Seq(Byte)
  PROVE  InOrder(s \o t) <=> /\ InOrder(s) /\ InOrder(t)
                            /\ \A a \in ToSet(s), b \in ToSet(t) : Before(a, b)
<1> DEFINE m == Len(s)  n == Len(t)
<1>0. PICK u : u = s \o t
  OBVIOUS
<1>1. /\ u \in Seq(Byte) /\ Len(u) = m + n /\ m \in Nat /\ n \in Nat
      /\ DOMAIN u = 1 .. m + n /\ DOMAIN s = 1 .. m /\ DOMAIN t = 1 .. n
      /\ \A i \in 1 .. m : u[i] = s[i]
      /\ \A i \in 1 .. n : u[m + i] = t[i]
  BY <1>0
<1> HIDE DEF m, n
<1>2. ASSUME InOrder(u)
      PROVE  /\ InOrder(s) /\ InOrder(t)
             /\ \A a \in ToSet(s), b \in ToSet(t) : Before(a, b)
  <2>1. ASSUME NEW i \in 1 .. m, NEW j \in 1 .. m, i < j PROVE Before(s[i], s[j])
    <3>1. i \in 1 .. m + n /\ j \in 1 .. m + n /\ u[i] = s[i] /\ u[j] = s[j]
      BY <1>1
    <3> QED BY <1>1, <1>2, <2>1, <3>1 DEF InOrder
  <2>2. ASSUME NEW i \in 1 .. n, NEW j \in 1 .. n, i < j PROVE Before(t[i], t[j])
    <3>1. /\ m + i \in 1 .. m + n /\ m + j \in 1 .. m + n /\ m + i < m + j
          /\ u[m + i] = t[i] /\ u[m + j] = t[j]
      BY <1>1, <2>2
    <3> QED BY <1>1, <1>2, <3>1 DEF InOrder
  <2>3. ASSUME NEW a \in ToSet(s), NEW b \in ToSet(t) PROVE Before(a, b)
    <3>1. PICK i \in 1 .. m, j \in 1 .. n : a = s[i] /\ b = t[j]
      BY <1>1, Elements DEF ToSet
    <3>2. i \in 1 .. m + n /\ m + j \in 1 .. m + n /\ i < m + j
      BY <1>1
    <3>3. u[i] = a /\ u[m + j] = b
      BY <1>1, <3>1
    <3> QED BY <1>1, <1>2, <3>2, <3>3 DEF InOrder
  <2> QED BY <1>1, <2>1, <2>2, <2>3 DEF InOrder
<1>3. ASSUME InOrder(s), InOrder(t), \A a \in ToSet(s), b \in ToSet(t) : Before(a, b),
             NEW i \in 1 .. m + n, NEW j \in 1 .. m + n, i < j
      PROVE  Before(u[i], u[j])
  <2>1. CASE j <= m
    <3>1. i \in 1 .. m /\ j \in 1 .. m
      BY <1>1, <1>3, <2>1
    <3> QED BY <1>1, <1>3, <3>1 DEF InOrder
  <2>2. CASE i > m
    <3>1. i - m \in 1 .. n /\ j - m \in 1 .. n /\ i - m < j - m
          /\ m + (i - m) = i /\ m + (j - m) = j
      BY <1>1, <1>3, <2>2
    <3>2. u[i] = t[i - m] /\ u[j] = t[j - m]
      BY <1>1, <3>1
    <3> QED BY <1>1, <1>3, <3>1, <3>2 DEF InOrder
  <2>3. CASE i <= m /\ j > m
    <3>1. i \in 1 .. m /\ j - m \in 1 .. n /\ m + (j - m) = j
      BY <1>1, <2>3
    <3>2. u[i] = s[i] /\ u[j] = t[j - m]
      BY <1>1, <3>1
    <3>3. s[i] \in ToSet(s) /\ t[j - m] \in ToSet(t)
      BY <1>1, <3>1 DEF ToSet
    <3> QED BY <1>3, <3>2, <3>3
  <2> QED BY <1>1, <2>1, <2>2, <2>3
<1> QED BY <1>0, <1>1, <1>2, <1>3 DEF InOrder

(* Bytes that follow all others keep the wire in order.                    *)
LEMMA WireGrows ==
  ASSUME NEW w \in Seq(Nat), NEW from \in Nat, NEW n \in Nat
  PROVE  /\ w \o Bytes(from, n) \in Seq(Nat)
         /\ Len(w) <= Len(w \o Bytes(from, n))
         /\ ToSet(w \o Bytes(from, n)) = ToSet(w) \cup (from + 1 .. from + n)
         /\ Ascending(w) /\ (\A x \in ToSet(w) : x <= from) => Ascending(w \o Bytes(from, n))
<1> DEFINE m == Len(w)
<1>0. PICK t, u : t = Bytes(from, n) /\ u = w \o t
  OBVIOUS
<1>1. /\ t \in Seq(Nat) /\ Len(t) = n /\ DOMAIN t = 1 .. n
      /\ \A i \in 1 .. n : t[i] = from + i
  BY <1>0 DEF Bytes
<1>2. /\ u \in Seq(Nat) /\ Len(u) = m + n /\ m \in Nat
      /\ DOMAIN u = 1 .. m + n /\ DOMAIN w = 1 .. m
      /\ \A i \in 1 .. m : u[i] = w[i] /\ w[i] \in Nat
      /\ \A i \in 1 .. n : u[m + i] = t[i]
  <2>1. /\ u \in Seq(Nat) /\ Len(u) = m + Len(t) /\ m \in Nat
        /\ DOMAIN u = 1 .. Len(u) /\ DOMAIN w = 1 .. m
        /\ \A i \in 1 .. m : u[i] = w[i] /\ w[i] \in Nat
        /\ \A i \in 1 .. Len(t) : u[m + i] = t[i]
    <3> HIDE <1>1
    <3>1. t \in Seq(Nat)
      BY <1>1
    <3> QED BY <1>0, <3>1
  <2> QED BY <1>1, <2>1
<1>3. ToSet(t) = from + 1 .. from + n
  <2>1. ASSUME NEW x \in from + 1 .. from + n PROVE x \in ToSet(t)
    <3>1. x - from \in 1 .. n /\ t[x - from] = x
      BY <1>1
    <3> QED BY <1>1, <3>1 DEF ToSet
  <2>2. ASSUME NEW x \in ToSet(t) PROVE x \in from + 1 .. from + n
    <3>1. PICK i \in 1 .. n : x = t[i]
      BY <1>1 DEF ToSet
    <3> QED BY <1>1, <3>1
  <2> QED BY <2>1, <2>2
<1>4. ToSet(u) = ToSet(w) \cup ToSet(t)
  BY <1>0, <1>1, ElementsOfBoth
<1> HIDE DEF m
<1>5. ASSUME Ascending(w), \A x \in ToSet(w) : x <= from,
             NEW i \in 1 .. m + n, NEW j \in 1 .. m + n, i < j
      PROVE  u[i] < u[j]
  <2>1. CASE j <= m
    <3>1. i \in 1 .. m /\ j \in 1 .. m
      BY <1>2, <1>5, <2>1
    <3> QED BY <1>2, <1>5, <3>1 DEF Ascending
  <2>2. CASE i > m
    <3>1. i - m \in 1 .. n /\ j - m \in 1 .. n /\ i - m < j - m
          /\ m + (i - m) = i /\ m + (j - m) = j
      BY <1>2, <1>5, <2>2
    <3>2. u[i] = from + (i - m) /\ u[j] = from + (j - m)
      BY <1>1, <1>2, <3>1
    <3> QED BY <1>2, <3>1, <3>2
  <2>3. CASE i <= m /\ j > m
    <3>1. i \in 1 .. m /\ j - m \in 1 .. n /\ m + (j - m) = j
      BY <1>2, <2>3
    <3>2. u[i] = w[i] /\ u[j] = from + (j - m)
      BY <1>1, <1>2, <3>1
    <3>3. w[i] \in ToSet(w) /\ w[i] \in Nat
      BY <1>2, <3>1 DEF ToSet
    <3>4. w[i] <= from /\ j - m \in Nat /\ j - m > 0
      BY <1>5, <3>1, <3>3
    <3> QED BY <3>2, <3>3, <3>4
  <2> QED BY <1>2, <2>1, <2>2, <2>3
<1>6. Len(w) <= Len(u)
  BY <1>2 DEF m
<1> QED BY <1>0, <1>2, <1>3, <1>4, <1>5, <1>6 DEF Ascending

-------------------------------------------------------------------------------
(* The invariant of sending.                                               *)

SendRecord == [first : Nat, size : Nat, result : Int, on : Nat]

(* In sendBlock.                                                           *)
BlockType ==
  [at : {"send", "poll"}, first : Nat, sizes : Seq(Nat),
   from : Nat, left : Nat, index : Nat, written : Nat]

SenderType ==
  {NotSending}
    \cup [at : {"writev"}, first : Nat, sizes : Seq(Nat)]
    \cup [at : {"rest"}, first : Nat, sizes : Seq(Nat), index : Nat, written : Nat]
    \cup BlockType

OutTypes ==
  /\ conn \in ConnStates /\ connects \in 0 .. MaxConnects
  /\ wire \in Seq(Nat) /\ peerRead \in 0 .. Len(wire)
  /\ sender \in SenderType /\ sends \in Seq(SendRecord) /\ handedOver \in Nat

InRange(sizes) == Total(sizes) < SizeLimit \div 2

(* How the counts of a call hang together: the blocks before the present   *)
(* one are written; of it, there is left what is left up to its end.       *)
Fits(s) ==
  /\ s.at = "writev" => InRange(s.sizes)
  /\ s.at = "rest" =>
       /\ InRange(s.sizes) /\ s.index \in 1 .. Len(s.sizes) + 1
       /\ UpTo(s.sizes, s.index - 1) <= s.written
       /\ s.written <= Total(s.sizes) \/ s.written = SizeLimit - 1
  /\ s.at \in {"send", "poll"} =>
       /\ s.index = 0 => Len(s.sizes) = 1 /\ s.from + s.left = s.first + s.sizes[1]
       /\ s.index # 0 =>
            /\ InRange(s.sizes) /\ s.index \in 1 .. Len(s.sizes)
            /\ UpTo(s.sizes, s.index - 1) <= s.written
            /\ s.written < UpTo(s.sizes, s.index)
            /\ s.from + s.left = s.first + UpTo(s.sizes, s.index)
       /\ s.first <= s.from

(* How many bytes of its call the kernel has taken.  A number of bytes     *)
(* above their total is the -1 of a writev that wrote nothing.             *)
Done(s) ==
  IF s.at = "rest" /\ s.written <= Total(s.sizes) THEN s.written
  ELSE IF s.at \in {"send", "poll"} THEN s.from - s.first
  ELSE 0

Stands == conn \in {"open", "connecting"}

(* Bytes from here on belong to no call that has returned.                 *)
Fresh == IF sender = NotSending THEN handedOver ELSE sender.first

Logged ==
  \A i \in DOMAIN sends :
    sends[i].on <= connects /\ sends[i].first + sends[i].size <= Fresh

Counted ==
  sender # NotSending => handedOver = sender.first + Total(sender.sizes) /\ Fits(sender)

OnWire ==
  /\ Ascending(wire)
  /\ ToSet(wire) = WholeBytes \cup (Fresh + 1 .. Fresh + Done(sender))

SendInv == OutTypes /\ Logged /\ Counted /\ (Stands /\ ~waitFailed => OnWire)

LEMMA SenderFields ==
  ASSUME NEW s \in SenderType
  PROVE  /\ s = NotSending <=> s.at = "idle"
         /\ s # NotSending =>
              /\ s.at \in {"writev", "rest", "send", "poll"}
              /\ s.first \in Nat /\ s.sizes \in Seq(Nat)
              /\ Len(s.sizes) \in Nat /\ Total(s.sizes) \in Nat
         /\ s.at = "rest" => s.index \in Nat /\ s.written \in Nat
         /\ s.at \in {"send", "poll"} =>
              /\ s \in BlockType
              /\ s.from \in Nat /\ s.left \in Nat /\ s.index \in Nat /\ s.written \in Nat
<1>1. s # NotSending => s.sizes \in Seq(Nat)
  BY DEF SenderType, BlockType, NotSending
<1>2. s # NotSending => Len(s.sizes) \in Nat /\ Len(s.sizes) \in 0 .. Len(s.sizes)
  BY <1>1
<1>3. s # NotSending => Total(s.sizes) \in Nat
  BY <1>1, <1>2, UpToIs DEF Total
<1> QED BY <1>1, <1>2, <1>3 DEF SenderType, BlockType, NotSending

LEMMA DoneType ==
  ASSUME NEW s \in SenderType, Fits(s)
  PROVE  Done(s) \in Nat /\ (s = NotSending => Done(s) = 0)
<1>1. CASE s.at = "rest"
  BY <1>1, SenderFields DEF Done
<1>2. CASE s.at \in {"send", "poll"}
  <2>1. s.from \in Nat /\ s.first \in Nat /\ s.first <= s.from
    BY <1>2, SenderFields DEF Fits
  <2> QED BY <1>2, <2>1, SenderFields DEF Done
<1>3. CASE s.at \notin {"rest", "send", "poll"}
  BY <1>3 DEF Done
<1> QED BY <1>1, <1>2, <1>3, SenderFields

LEMMA DoneBounded ==
  ASSUME NEW s \in SenderType, Fits(s), s # NotSending
  PROVE  Done(s) \in 0 .. Total(s.sizes)
<1>1. /\ Done(s) \in Nat /\ s.first \in Nat /\ s.sizes \in Seq(Nat)
      /\ Len(s.sizes) \in Nat /\ Total(s.sizes) \in Nat
  BY DoneType, SenderFields
<1>2. CASE s.at \notin {"send", "poll"}
  BY <1>1, <1>2 DEF Done
<1>3. CASE s.at \in {"send", "poll"}
  <2>1. s.from \in Nat /\ s.left \in Nat /\ s.index \in Nat /\ Done(s) = s.from - s.first
    BY <1>3, SenderFields DEF Done
  <2>2. PICK k \in 1 .. Len(s.sizes) : s.from + s.left = s.first + UpTo(s.sizes, k)
    <3>1. CASE s.index = 0
      <4>1. Len(s.sizes) = 1 /\ s.from + s.left = s.first + s.sizes[1]
        BY <1>3, <3>1 DEF Fits
      <4>2. 1 \in 1 .. Len(s.sizes) /\ s.sizes[1] \in Nat
        BY <1>1, <4>1
      <4>3. UpTo(s.sizes, 1) = UpTo(s.sizes, 1 - 1) + s.sizes[1] /\ UpTo(s.sizes, 0) = 0
        BY <1>1, <4>2, UpToIs
      <4>4. UpTo(s.sizes, 1) = s.sizes[1]
        BY <4>2, <4>3
      <4> QED BY <4>1, <4>2, <4>4
    <3>2. CASE s.index # 0
      BY <1>3, <3>2 DEF Fits
    <3> QED BY <3>1, <3>2
  <2>3. UpTo(s.sizes, k) \in Nat /\ UpTo(s.sizes, k) <= Total(s.sizes)
    <3>1. k \in 0 .. Len(s.sizes) /\ Len(s.sizes) \in k .. Len(s.sizes)
      BY <1>1, <2>2
    <3> QED BY <1>1, <3>1, UpToIs, UpToGrows DEF Total
  <2> QED BY <1>1, <2>1, <2>2, <2>3
<1> QED BY <1>2, <1>3

LEMMA FreshType == OutTypes => Fresh \in Nat
BY SenderFields DEF OutTypes, Fresh

(* What is on the wire in whole comes before anything else.                *)
LEMMA WholeBytesBelow ==
  ASSUME OutTypes, Logged, NEW b \in WholeBytes
  PROVE  b \in Nat /\ b <= Fresh
<1>1. PICK i \in InFull : b \in sends[i].first + 1 .. sends[i].first + sends[i].size
  BY DEF WholeBytes
<1>2. i \in DOMAIN sends /\ sends[i] \in SendRecord
  BY <1>1 DEF InFull, OutTypes
<1>3. sends[i].first \in Nat /\ sends[i].size \in Nat /\ sends[i].first + sends[i].size <= Fresh
  BY <1>2 DEF SendRecord, Logged
<1>4. Fresh \in Nat
  BY FreshType
<1> QED BY <1>1, <1>3, <1>4

LEMMA Adjoining ==
  ASSUME NEW a \in Nat, NEW b \in Nat, NEW n \in Nat, a <= b
  PROVE  (a + 1 .. b) \cup (b + 1 .. b + n) = a + 1 .. b + n
OBVIOUS

LEMMA NoBytes ==
  ASSUME NEW w \in Seq(Nat), NEW from \in Nat
  PROVE  w \o Bytes(from, 0) = w
<1>1. Bytes(from, 0) = <<>>
  BY DEF Bytes
<1> QED BY <1>1, ConcatEmptySeq

(* A call goes on: it takes n bytes more to the wire.                      *)
LEMMA ContinueKeeps ==
  ASSUME SendInv, sender # NotSending,
         NEW s \in SenderType, s # NotSending, Fits(s),
         s.first = sender.first, s.sizes = sender.sizes,
         NEW n \in Nat,
         sender' = s, wire' = wire \o Bytes(sender.first + Done(sender), n),
         Stands /\ ~waitFailed => Done(s) = Done(sender) + n,
         UNCHANGED <<connVars, peerRead, sends, handedOver, waitFailed>>
  PROVE  SendInv'
<1>1. /\ OutTypes /\ Logged /\ Fits(sender)
      /\ handedOver = sender.first + Total(sender.sizes)
      /\ conn' = conn /\ connects' = connects
  BY DEF SendInv, Counted, connVars
<1> DEFINE from == sender.first + Done(sender)
<1>2. /\ sender \in SenderType /\ wire \in Seq(Nat) /\ sender.first \in Nat
      /\ Done(sender) \in Nat /\ from \in Nat /\ Len(wire) \in Nat /\ peerRead \in 0 .. Len(wire)
  BY <1>1, SenderFields, DoneType, SMTT(30) DEF OutTypes
<1>3. /\ wire' \in Seq(Nat) /\ Len(wire) <= Len(wire')
      /\ ToSet(wire') = ToSet(wire) \cup (from + 1 .. from + n)
      /\ Ascending(wire) /\ (\A x \in ToSet(wire) : x <= from) => Ascending(wire')
  <2> HIDE DEF from
  <2>1. PICK w : w = wire \o Bytes(from, n)
    OBVIOUS
  <2>2. /\ w \in Seq(Nat) /\ Len(wire) <= Len(w)
        /\ ToSet(w) = ToSet(wire) \cup (from + 1 .. from + n)
        /\ Ascending(wire) /\ (\A x \in ToSet(wire) : x <= from) => Ascending(w)
    BY <1>2, <2>1, WireGrows
  <2>3. wire' = w
    BY <2>1 DEF from
  <2> QED BY <2>2, <2>3
<1>4. peerRead' \in 0 .. Len(wire')
  <2>1. Len(wire') \in Nat
    BY <1>3
  <2> QED BY <1>2, <1>3, <2>1
<1>5. OutTypes'
  BY <1>1, <1>3, <1>4 DEF OutTypes
<1>6. Fresh' = Fresh /\ Fresh = sender.first
  BY DEF Fresh
<1>7. Logged'
  BY <1>1, <1>6 DEF Logged
<1>8. Counted'
  BY <1>1 DEF Counted
<1>9. WholeBytes' = WholeBytes
  BY <1>1 DEF WholeBytes, InFull
<1>10. ASSUME Stands', ~waitFailed' PROVE OnWire'
  <2>1. OnWire /\ Done(s) = Done(sender) + n
    BY <1>1, <1>10 DEF SendInv, Stands
  <2>2. ToSet(wire) = WholeBytes \cup (sender.first + 1 .. from)
    BY <1>6, <2>1 DEF OnWire
  <2>3. \A x \in ToSet(wire) : x <= from
    BY <1>1, <1>2, <1>6, <2>2, WholeBytesBelow
  <2>4. Ascending(wire')
    BY <1>3, <2>1, <2>3 DEF OnWire
  <2>5. ToSet(wire') = WholeBytes \cup (sender.first + 1 .. from + n)
    <3>1. sender.first \in Nat /\ from \in Nat /\ n \in Nat /\ sender.first <= from
      BY <1>2
    <3>2. (sender.first + 1 .. from) \cup (from + 1 .. from + n) = sender.first + 1 .. from + n
      BY <3>1, Adjoining
    <3> QED BY <1>3, <2>2, <3>2, Zenon
  <2>6. Fresh' + 1 = sender.first + 1 /\ Fresh' + Done(sender)' = from + n
    BY <1>2, <1>6, <2>1
  <2> QED BY <1>9, <2>4, <2>5, <2>6 DEF OnWire
<1> QED BY <1>5, <1>7, <1>8, <1>10 DEF SendInv

(* A call returns, after n more bytes.                                     *)
LEMMA ReturnKeeps ==
  ASSUME SendInv, sender # NotSending,
         NEW value \in Int, SendReturns(value), NEW n \in Nat,
         wire' = wire \o Bytes(sender.first + Done(sender), n),
         UNCHANGED <<connVars, peerRead, handedOver>>,
         Stands /\ ~waitFailed' =>
           /\ ~waitFailed
           /\ Done(sender) + n = IF value = Total(sender.sizes) THEN Total(sender.sizes) ELSE 0
  PROVE  SendInv'
<1> DEFINE from == sender.first + Done(sender)
           total == Total(sender.sizes)
           rec == [first |-> sender.first, size |-> total, result |-> value, on |-> connects]
           last == Len(sends) + 1
<1>1. /\ OutTypes /\ Logged /\ Fits(sender)
      /\ handedOver = sender.first + total
      /\ conn' = conn /\ connects' = connects /\ sender' = NotSending
      /\ sends' = Append(sends, rec)
  BY DEF SendInv, Counted, connVars, SendReturns
<1>2. /\ sender \in SenderType /\ wire \in Seq(Nat) /\ sender.first \in Nat
      /\ Done(sender) \in Nat /\ from \in Nat /\ Len(wire) \in Nat /\ peerRead \in 0 .. Len(wire)
      /\ total \in Nat /\ connects \in Nat /\ sends \in Seq(SendRecord) /\ handedOver \in Nat
  BY <1>1, SenderFields, DoneType, SMTT(30) DEF OutTypes
<1>3. /\ wire' \in Seq(Nat) /\ Len(wire) <= Len(wire')
      /\ ToSet(wire') = ToSet(wire) \cup (from + 1 .. from + n)
      /\ Ascending(wire) /\ (\A x \in ToSet(wire) : x <= from) => Ascending(wire')
  <2> HIDE DEF from
  <2>1. PICK w : w = wire \o Bytes(from, n)
    OBVIOUS
  <2>2. /\ w \in Seq(Nat) /\ Len(wire) <= Len(w)
        /\ ToSet(w) = ToSet(wire) \cup (from + 1 .. from + n)
        /\ Ascending(wire) /\ (\A x \in ToSet(wire) : x <= from) => Ascending(w)
    BY <1>2, <2>1, WireGrows
  <2>3. wire' = w
    BY <2>1 DEF from
  <2> QED BY <2>2, <2>3
<1>4. peerRead' \in 0 .. Len(wire')
  <2>1. Len(wire') \in Nat
    BY <1>3
  <2> QED BY <1>2, <1>3, <2>1
<1>5. rec \in SendRecord /\ rec.first = sender.first /\ rec.size = total
      /\ rec.result = value /\ rec.on = connects
  BY <1>2 DEF SendRecord
<1> HIDE DEF rec, total, from
<1>6. /\ sends' \in Seq(SendRecord) /\ DOMAIN sends' = 1 .. last /\ DOMAIN sends = 1 .. last - 1
      /\ last \in Nat /\ sends'[last] = rec /\ \A i \in 1 .. last - 1 : sends'[i] = sends[i]
  BY <1>1, <1>2, <1>5, SMTT(30)
<1> HIDE DEF last
<1>7. OutTypes'
  <2>1. sender' \in SenderType
    BY <1>1 DEF SenderType
  <2> QED BY <1>1, <1>3, <1>4, <1>6, <2>1 DEF OutTypes
<1>8. Fresh' = handedOver /\ Fresh = sender.first
  BY <1>1 DEF Fresh
<1>9. ASSUME NEW i \in 1 .. last
      PROVE  sends'[i].on <= connects' /\ sends'[i].first + sends'[i].size <= Fresh'
  <2>1. CASE i = last
    BY <1>1, <1>2, <1>5, <1>6, <1>8, <2>1, SMTT(30)
  <2>2. CASE i # last
    <3>1. /\ i \in 1 .. last - 1 /\ i \in DOMAIN sends /\ sends'[i] = sends[i]
          /\ sends[i] \in SendRecord
      BY <1>2, <1>6, <2>2
    <3>2. sends[i].first \in Nat /\ sends[i].size \in Nat
      BY <3>1 DEF SendRecord
    <3>3. PICK end \in Nat : end = sends[i].first + sends[i].size
      BY <3>2
    <3>4. sends[i].on <= connects /\ end <= sender.first
      BY <1>1, <1>8, <3>1, <3>3 DEF Logged
    <3>5. sender.first <= handedOver
      BY <1>1, <1>2, SMTT(30)
    <3>6. end <= handedOver
      BY <1>2, <3>4, <3>5
    <3> QED BY <1>1, <1>8, <3>1, <3>3, <3>4, <3>6
  <2> QED BY <2>1, <2>2
<1>10. Logged'
  BY <1>6, <1>9 DEF Logged
<1>11. Counted'
  BY <1>1 DEF Counted
<1>12. InFull' = InFull \cup (IF value = total THEN {last} ELSE {})
  BY <1>1, <1>5, <1>6 DEF InFull
<1>13. WholeBytes' = WholeBytes
         \cup (IF value = total THEN sender.first + 1 .. sender.first + total ELSE {})
  <2>1. \A i \in InFull : sends'[i] = sends[i]
    BY <1>6 DEF InFull
  <2> QED BY <1>5, <1>6, <1>12, <2>1, SMTT(30) DEF WholeBytes
<1>14. ASSUME Stands', ~waitFailed' PROVE OnWire'
  <2>1. OnWire /\ Done(sender) + n = IF value = total THEN total ELSE 0
    BY <1>1, <1>14 DEF SendInv, Stands, total
  <2>2. ToSet(wire) = WholeBytes \cup (sender.first + 1 .. from)
    BY <1>8, <2>1 DEF OnWire, from
  <2>3. \A x \in ToSet(wire) : x <= from
    <3>1. \A x \in WholeBytes : x \in Nat /\ x <= sender.first
      BY <1>1, <1>8, WholeBytesBelow
    <3>2. sender.first <= from
      BY <1>2 DEF from
    <3> QED BY <1>2, <2>2, <3>1, <3>2
  <2>4. Ascending(wire')
    BY <1>3, <2>1, <2>3 DEF OnWire
  <2>5. ToSet(wire') = WholeBytes \cup (sender.first + 1 .. from + n)
    <3>0. sender.first <= from
      BY <1>2 DEF from
    <3>1. (sender.first + 1 .. from) \cup (from + 1 .. from + n) = sender.first + 1 .. from + n
      BY <1>2, <3>0, Adjoining, SMTT(30)
    <3> QED BY <1>3, <2>2, <3>1
  <2>6. ToSet(wire') = WholeBytes'
    <3>1. CASE value = total
      <4>1. from + n = sender.first + total
        BY <1>2, <2>1, <3>1 DEF from
      <4> QED BY <1>13, <2>5, <3>1, <4>1
    <3>2. CASE value # total
      <4>1. sender.first + 1 .. from + n = {}
        BY <1>2, <2>1, <3>2 DEF from
      <4> QED BY <1>13, <2>5, <3>2, <4>1
    <3> QED BY <3>1, <3>2
  <2>7. (Fresh' + 1 .. Fresh' + Done(sender)') = {}
    <3>1. Done(NotSending) = 0
      BY DEF Done, NotSending
    <3> QED BY <1>1, <1>2, <1>8, <3>1, SMTT(30)
  <2> QED BY <2>4, <2>6, <2>7 DEF OnWire
<1> QED BY <1>7, <1>10, <1>11, <1>14 DEF SendInv

(* Nothing of it changes, and no connection comes about.                   *)
LEMMA SendStays ==
  ASSUME SendInv, UNCHANGED <<connects, outVars>>, conn' \in ConnStates, Stands' => Stands
  PROVE  SendInv'
<1>1. UNCHANGED <<connects, wire, peerRead, sender, sends, handedOver, waitFailed>>
  BY DEF outVars
<1>2. OutTypes'
  BY <1>1 DEF SendInv, OutTypes
<1>3. Fresh' = Fresh /\ WholeBytes' = WholeBytes
  BY <1>1 DEF Fresh, WholeBytes, InFull
<1>4. Logged' /\ Counted'
  BY <1>1, <1>3 DEF SendInv, Logged, Counted
<1>5. Stands' /\ ~waitFailed' => OnWire'
  BY <1>1, <1>3 DEF SendInv, OnWire
<1> QED BY <1>2, <1>4, <1>5 DEF SendInv

LEMMA PeerReadsKeepsSend == ASSUME SendInv, PeerReads PROVE SendInv'
<1>1. UNCHANGED <<conn, connects, wire, sender, sends, handedOver, waitFailed>>
      /\ peerRead' = Len(wire)
  BY DEF PeerReads, connVars
<1>2. OutTypes'
  <2>1. wire \in Seq(Nat) /\ Len(wire) \in Nat /\ Len(wire) \in 0 .. Len(wire)
    BY DEF SendInv, OutTypes
  <2> QED BY <1>1, <2>1 DEF SendInv, OutTypes
<1>3. Fresh' = Fresh /\ WholeBytes' = WholeBytes
  BY <1>1 DEF Fresh, WholeBytes, InFull
<1>4. Logged' /\ Counted'
  BY <1>1, <1>3 DEF SendInv, Logged, Counted
<1>5. Stands' /\ ~waitFailed' => OnWire'
  BY <1>1, <1>3 DEF SendInv, OnWire, Stands
<1> QED BY <1>2, <1>4, <1>5 DEF SendInv

(* No call that has returned was made on the new connection.               *)
LEMMA ConnectKeepsSend ==
  ASSUME SendInv, NEW outcome \in ConnStates, Connect(outcome)
  PROVE  SendInv'
<1>1. /\ sender = NotSending /\ connects < MaxConnects /\ connects' = connects + 1
      /\ conn' = outcome /\ wire' = <<>> /\ peerRead' = 0
      /\ UNCHANGED <<sender, sends, handedOver>>
  BY DEF Connect
<1>2. connects \in Nat /\ MaxConnects \in Nat /\ sends \in Seq(SendRecord)
  BY SocketAssumption DEF SendInv, OutTypes
<1>3. connects' \in 0 .. MaxConnects
  BY <1>1, <1>2
<1>4. wire' \in Seq(Nat) /\ peerRead' \in 0 .. Len(wire')
  BY <1>1
<1>5. OutTypes'
  BY <1>1, <1>3, <1>4 DEF SendInv, OutTypes
<1>6. Fresh' = Fresh
  BY <1>1 DEF Fresh
<1>7. ASSUME NEW i \in DOMAIN sends
      PROVE  sends[i].on < connects' /\ sends[i].first + sends[i].size <= Fresh
  <2>1. sends[i] \in SendRecord
    BY <1>2
  <2>2. sends[i].on \in Nat
    BY <2>1 DEF SendRecord
  <2> QED BY <1>1, <1>2, <2>2 DEF SendInv, Logged
<1>8. \A i \in DOMAIN sends : sends[i].on \in Nat
  <2>1. \A i \in DOMAIN sends : sends[i] \in SendRecord
    BY <1>2
  <2> QED BY <2>1 DEF SendRecord
<1>9. connects' \in Nat
  BY <1>1, <1>2
<1>10. Logged'
  BY <1>1, <1>6, <1>7, <1>8, <1>9 DEF Logged
<1>11. Counted'
  BY <1>1 DEF Counted
<1>12. InFull' = {}
  BY <1>1, <1>7, <1>8, <1>9 DEF InFull
<1>13. WholeBytes' = {}
  BY <1>12 DEF WholeBytes
<1>14. Done(sender)' = 0 /\ Fresh' \in Nat
  BY <1>1, <1>5, FreshType DEF Done, NotSending, Fresh, OutTypes
<1>15. Fresh' + 1 .. Fresh' + Done(sender)' = {}
  <2>1. \A f \in Nat : f + 1 .. f + 0 = {}
    OBVIOUS
  <2> QED BY <1>14, <2>1
<1>16. Ascending(wire') /\ ToSet(wire') = {}
  BY <1>1 DEF Ascending, ToSet
<1> QED BY <1>5, <1>10, <1>11, <1>13, <1>15, <1>16 DEF SendInv, OnWire

(* A call begins.                                                          *)
LEMMA BeginKeeps ==
  ASSUME SendInv, sender = NotSending,
         NEW s \in SenderType, s # NotSending, Fits(s), Done(s) = 0,
         s.first = handedOver, sender' = s, handedOver' = handedOver + Total(s.sizes),
         UNCHANGED <<connVars, wire, peerRead, sends, waitFailed>>
  PROVE  SendInv'
<1>1. conn' = conn /\ connects' = connects /\ Total(s.sizes) \in Nat /\ handedOver \in Nat
  BY SenderFields DEF connVars, SendInv, OutTypes
<1>2. handedOver' \in Nat
  BY <1>1
<1>3. OutTypes'
  BY <1>1, <1>2 DEF SendInv, OutTypes
<1>4. Fresh = handedOver /\ Fresh' = handedOver
  BY DEF Fresh
<1>5. WholeBytes' = WholeBytes
  BY <1>1 DEF WholeBytes, InFull
<1>6. Logged' /\ Counted'
  BY <1>1, <1>4 DEF SendInv, Logged, Counted
<1>7. Done(sender) = 0 /\ Done(sender)' = 0
  BY DEF Done, NotSending
<1>8. Stands' /\ ~waitFailed' => OnWire'
  BY <1>1, <1>4, <1>5, <1>7 DEF SendInv, OnWire, Stands
<1> QED BY <1>3, <1>6, <1>8 DEF SendInv

LEMMA SendBlocksKeeps ==
  ASSUME SendInv, NEW blocks \in Messages, NEW zeros \in Seq(Nat),
         \A i \in 1 .. Len(zeros) : zeros[i] = 0, MaySend,
         sender' = [at |-> "writev", first |-> handedOver, sizes |-> zeros \o blocks],
         handedOver' = handedOver + Total(blocks),
         UNCHANGED <<connVars, wire, peerRead, sends, waitFailed>>
  PROVE  SendInv'
<1>1. blocks \in Seq(Nat)
  BY SocketAssumption
<1>2. PICK sizes : sizes = zeros \o blocks
  OBVIOUS
<1>3. sizes \in Seq(Nat) /\ Total(sizes) = Total(blocks)
  BY <1>1, <1>2, PaddedTotal
<1>4. InRange(sizes)
  BY <1>3, SizesAssumption DEF InRange
<1>5. PICK s : s = [at |-> "writev", first |-> handedOver, sizes |-> sizes]
  OBVIOUS
<1>6. s \in SenderType /\ s # NotSending
  BY <1>3, <1>5 DEF SenderType, NotSending, SendInv, OutTypes
<1>7. Fits(s) /\ Done(s) = 0
  BY <1>4, <1>5 DEF Fits, Done
<1>8. s.first = handedOver /\ s.sizes = sizes /\ sender' = s
  BY <1>2, <1>5
<1> QED BY <1>3, <1>6, <1>7, <1>8, BeginKeeps DEF MaySend

LEMMA LinuxSendBlocksKeeps ==
  ASSUME SendInv, NEW blocks \in Messages, SendBlocks(blocks)
  PROVE  SendInv'
<1>1. PICK zeros : zeros = <<0, 0, 0, 0, 0, 0>>
  OBVIOUS
<1>2. zeros \in Seq(Nat) /\ \A i \in 1 .. Len(zeros) : zeros[i] = 0
  BY <1>1
<1> QED BY <1>1, <1>2, SendBlocksKeeps DEF SendBlocks, Iovs

LEMMA WindowsSendBlocksKeeps ==
  ASSUME SendInv, NEW blocks \in Messages, WinSendBlocks(blocks)
  PROVE  SendInv'
<1>1. PICK zeros : zeros = [i \in DOMAIN blocks |-> 0]
  OBVIOUS
<1>2. blocks \in Seq(Nat) /\ Len(blocks) \in Nat /\ DOMAIN blocks = 1 .. Len(blocks)
  BY SocketAssumption
<1>3. zeros \in Seq(Nat) /\ \A i \in 1 .. Len(zeros) : zeros[i] = 0
  BY <1>1, <1>2
<1> QED BY <1>1, <1>3, SendBlocksKeeps DEF WinSendBlocks, WSABufs

LEMMA SendBlockKeeps ==
  ASSUME SendInv, NEW size \in Nat, SendBlock(size), UNCHANGED connVars
  PROVE  SendInv'
<1>1. PICK s : s = [at |-> "send", first |-> handedOver, sizes |-> <<size>>,
                    from |-> handedOver, left |-> size, index |-> 0, written |-> 0]
  OBVIOUS
<1>2. /\ <<size>> \in Seq(Nat) /\ Len(<<size>>) = 1 /\ Total(<<size>>) = size
      /\ handedOver \in Nat
  BY SingleTotal DEF SendInv, OutTypes
<1>3. s \in SenderType /\ s # NotSending
  BY <1>1, <1>2 DEF SenderType, BlockType, NotSending
<1>4. Fits(s) /\ Done(s) = 0
  BY <1>1, <1>2 DEF Fits, Done
<1> QED BY <1>1, <1>2, <1>3, <1>4, BeginKeeps DEF SendBlock, MaySend

LEMMA RestFields ==
  ASSUME SendInv, sender # NotSending, NEW index \in Nat, NEW written \in Nat
  PROVE  LET s == RestFrom(index, written)
         IN  /\ s \in SenderType /\ s # NotSending /\ s.at = "rest"
             /\ s.first = sender.first /\ s.sizes = sender.sizes
             /\ s.index = index /\ s.written = written
<1>1. PICK s : s = RestFrom(index, written)
  OBVIOUS
<1>2. sender.first \in Nat /\ sender.sizes \in Seq(Nat)
  BY SenderFields DEF SendInv, OutTypes
<1>3. s \in [at : {"rest"}, first : Nat, sizes : Seq(Nat), index : Nat, written : Nat]
  BY <1>1, <1>2 DEF RestFrom
<1>4. s \in SenderType
  BY <1>3 DEF SenderType
<1> QED BY <1>1, <1>4 DEF RestFrom, NotSending

(* After the writev the rest begins with the first block.                  *)
LEMMA RestBegins ==
  ASSUME SendInv, sender.at = "writev", NEW n \in Nat, NEW written \in Nat,
         \/ written = n /\ n <= Total(sender.sizes)
         \/ written = SizeLimit - 1 /\ n = 0,
         sender' = RestFrom(1, written), wire' = wire \o Bytes(sender.first, n),
         UNCHANGED <<connVars, peerRead, sends, handedOver, waitFailed>>
  PROVE  SendInv'
<1>1. PICK s : s = RestFrom(1, written)
  OBVIOUS
<1>2. /\ sender # NotSending /\ sender.first \in Nat /\ sender.sizes \in Seq(Nat)
      /\ Len(sender.sizes) \in Nat /\ Total(sender.sizes) \in Nat
  BY SenderFields DEF SendInv, OutTypes
<1>3. InRange(sender.sizes)
  BY <1>2 DEF SendInv, Counted, Fits
<1>4. /\ s \in SenderType /\ s # NotSending /\ s.at = "rest"
      /\ s.first = sender.first /\ s.sizes = sender.sizes /\ s.index = 1 /\ s.written = written
  BY <1>1, <1>2, RestFields
<1>5. UpTo(sender.sizes, 0) = 0
  BY <1>2, UpToIs
<1>6. /\ SizeLimit \in Nat /\ Total(sender.sizes) < SizeLimit \div 2
      /\ Total(sender.sizes) < SizeLimit - 1
  BY <1>2, <1>3, SocketAssumption DEF InRange
<1>7. Fits(s)
  <2>1. s.index \in 1 .. Len(s.sizes) + 1 /\ UpTo(s.sizes, s.index - 1) <= s.written
    BY <1>2, <1>4, <1>5
  <2>2. s.written <= Total(s.sizes) \/ s.written = SizeLimit - 1
    BY <1>4
  <2> QED BY <1>3, <1>4, <2>1, <2>2 DEF Fits
<1>8. Done(sender) = 0 /\ Done(s) = n
  BY <1>2, <1>4, <1>6 DEF Done
<1>9. sender.first + Done(sender) = sender.first /\ Done(s) = Done(sender) + n
  BY <1>2, <1>8
<1> QED BY <1>1, <1>2, <1>4, <1>7, <1>9, ContinueKeeps

(* The kernel has taken n bytes of the vector, or refused it.              *)
LEMMA VectorKeeps ==
  ASSUME SendInv, sender.at = "writev",
         UNCHANGED <<connVars, peerRead, handedOver, waitFailed>>
  PROVE  /\ \A n \in 0 .. Total(sender.sizes) :
              /\ wire' = wire \o Bytes(sender.first, n)
              /\ IF n = Total(sender.sizes)
                 THEN SendReturns(n)
                 ELSE sender' = RestFrom(1, n) /\ UNCHANGED sends
              => SendInv'
         /\ \A value \in Int :
              Failed /\ SendReturns(value) /\ UNCHANGED wire => SendInv'
<1> DEFINE complete == Total(sender.sizes)
<1>1. /\ sender # NotSending /\ sender.first \in Nat /\ complete \in Nat /\ wire \in Seq(Nat)
  BY SenderFields DEF SendInv, OutTypes
<1>2. Done(sender) = 0 /\ sender.first + Done(sender) = sender.first
  BY <1>1 DEF Done
<1>3. ASSUME NEW n \in 0 .. complete, wire' = wire \o Bytes(sender.first, n),
             IF n = complete THEN SendReturns(n) ELSE sender' = RestFrom(1, n) /\ UNCHANGED sends
      PROVE  SendInv'
  <2>1. n \in Nat /\ n <= complete /\ n \in Int /\ Done(sender) + n = n
    BY <1>1, <1>2
  <2>2. CASE n = complete
    BY <1>1, <1>2, <1>3, <2>1, <2>2, ReturnKeeps
  <2>3. CASE n # complete
    BY <1>3, <2>1, <2>3, RestBegins
  <2> QED BY <2>2, <2>3
<1>4. ASSUME NEW value \in Int, Failed, SendReturns(value), UNCHANGED wire PROVE SendInv'
  <2>1. ~Stands
    BY <1>4 DEF Failed, Stands
  <2>2. wire' = wire \o Bytes(sender.first + Done(sender), 0)
    BY <1>1, <1>2, <1>4, NoBytes
  <2>3. 0 \in Nat /\ ~(Stands /\ ~waitFailed')
    BY <2>1
  <2>4. SendReturns(value)
    BY <1>4
  <2>5. UNCHANGED <<connVars, peerRead, handedOver>>
    OBVIOUS
  <2> QED BY <1>1, <2>2, <2>3, <2>4, <2>5, ReturnKeeps
<1> QED BY <1>3, <1>4

LEMMA WriteVKeeps == ASSUME SendInv, WriteV PROVE SendInv'
<1>1. sender.at = "writev" /\ UNCHANGED <<connVars, peerRead, handedOver, waitFailed>>
  BY DEF WriteV
<1>2. /\ sender # NotSending /\ sender.first \in Nat /\ Total(sender.sizes) \in Nat
      /\ wire \in Seq(Nat)
  BY <1>1, SenderFields DEF SendInv, OutTypes
<1>3. ASSUME sender' = RestFrom(1, AsSize(-1)), UNCHANGED <<wire, sends>> PROVE SendInv'
  <2>1. InRange(sender.sizes)
    BY <1>1, <1>2 DEF SendInv, Counted, Fits
  <2>2. SizeLimit \in Nat /\ SizeLimit # 0 /\ SizeLimit - 1 \in Nat
    BY <1>2, <2>1, SocketAssumption DEF InRange
  <2>3. AsSize(-1) = SizeLimit - 1
    BY <2>2, MinusOne
  <2>4. wire \o Bytes(sender.first, 0) = wire
    BY <1>2, NoBytes
  <2> QED BY <1>1, <1>3, <2>2, <2>3, <2>4, RestBegins
<1> QED BY <1>1, <1>3, VectorKeeps DEF WriteV

LEMMA WSASendKeeps == ASSUME SendInv, WSASend PROVE SendInv'
<1>1. sender.at = "writev" /\ UNCHANGED <<connVars, peerRead, handedOver, waitFailed>>
  BY DEF WSASend
<1>2. WSAError \in Int
  BY WindowsAssumption
<1> QED BY <1>1, <1>2, VectorKeeps DEF WSASend

(* What sendBlock returns of a block it has sent.                          *)
LEMMA BlockSize ==
  ASSUME SendInv, sender.at \in {"send", "poll"}
  PROVE  LET size == IF sender.index = 0 THEN sender.sizes[1]
                     ELSE UpTo(sender.sizes, sender.index) - sender.written
         IN  size \in Nat
<1>1. /\ sender # NotSending /\ sender.sizes \in Seq(Nat)
      /\ Len(sender.sizes) \in Nat /\ sender.index \in Nat /\ sender.written \in Nat
  BY SenderFields DEF SendInv, OutTypes
<1>2. Fits(sender)
  BY <1>1 DEF SendInv, Counted
<1>3. CASE sender.index = 0
  <2>1. 1 \in 1 .. Len(sender.sizes)
    BY <1>2, <1>3 DEF Fits
  <2>2. sender.sizes[1] \in Nat
    BY <1>1, <2>1
  <2> QED BY <1>3, <2>2
<1>4. CASE sender.index # 0
  <2>1. /\ sender.index \in 0 .. Len(sender.sizes)
        /\ sender.written < UpTo(sender.sizes, sender.index)
    BY <1>1, <1>2, <1>4 DEF Fits
  <2>2. UpTo(sender.sizes, sender.index) \in Nat
    BY <1>1, <2>1, UpToIs
  <2> QED BY <1>1, <1>4, <2>1, <2>2
<1> QED BY <1>3, <1>4

(* The end of sendBlock.  While the connection stands it is called when    *)
(* the block is sent.                                                      *)
LEMMA SendBlockReturnsKeeps ==
  ASSUME SendInv, sender.at \in {"send", "poll"}, NEW value \in Int,
         \/ value = -1
         \/ value = IF sender.index = 0 THEN sender.sizes[1]
                    ELSE UpTo(sender.sizes, sender.index) - sender.written,
         SendBlockReturns(value),
         UNCHANGED <<connVars, wire, peerRead, handedOver>>,
         value > 0 => UNCHANGED waitFailed,
         Stands /\ ~waitFailed' => ~waitFailed /\ value # -1 /\ sender.left = 0
  PROVE  SendInv'
<1> DEFINE sizes == sender.sizes
           index == sender.index
<1>1. /\ sender # NotSending /\ sender.first \in Nat /\ Total(sizes) \in Nat /\ wire \in Seq(Nat)
      /\ sizes \in Seq(Nat) /\ Len(sizes) \in Nat /\ index \in Nat /\ sender.written \in Nat
      /\ sender.from \in Nat /\ sender.left \in Nat
  BY SenderFields DEF SendInv, OutTypes
<1>2. Fits(sender)
  BY <1>1 DEF SendInv, Counted
<1>3. Done(sender) = sender.from - sender.first /\ Done(sender) \in Nat
  <2>1. sender.first <= sender.from
    BY <1>2 DEF Fits
  <2> QED BY <1>1, <2>1 DEF Done
<1>4. sender.first + Done(sender) = sender.from /\ wire \o Bytes(sender.from, 0) = wire
  <2>1. wire \o Bytes(sender.from, 0) = wire
    BY <1>1, NoBytes
  <2> QED BY <1>1, <1>3, <2>1
<1>5. CASE index = 0 \/ value <= 0
  <2>1. SendReturns(value)
    BY <1>5 DEF SendBlockReturns
  <2>2. ASSUME Stands, ~waitFailed'
        PROVE  ~waitFailed /\ Done(sender) + 0 = IF value = Total(sizes) THEN Total(sizes) ELSE 0
    <3>1. ~waitFailed /\ value # -1 /\ sender.left = 0
      BY <2>2
    <3>2. CASE index = 0
      <4>1. Len(sizes) = 1 /\ sender.from + sender.left = sender.first + sizes[1]
        BY <1>2, <3>2 DEF Fits
      <4>2. Total(sizes) = sizes[1]
        <5>1. 1 \in 1 .. Len(sizes) /\ sizes[1] \in Nat
          BY <1>1, <4>1
        <5>2. UpTo(sizes, 1) = UpTo(sizes, 1 - 1) + sizes[1] /\ UpTo(sizes, 0) = 0
          BY <1>1, <5>1, UpToIs
        <5> QED BY <4>1, <5>1, <5>2 DEF Total
      <4>3. Done(sender) = Total(sizes)
        BY <1>1, <1>3, <3>1, <4>1, <4>2
      <4> QED BY <1>1, <3>1, <3>2, <4>2, <4>3
    <3>3. CASE index # 0
      <4>1. sender.written < UpTo(sizes, index) /\ index \in 1 .. Len(sizes)
        BY <1>2, <3>3 DEF Fits
      <4>2. UpTo(sizes, index) \in Nat
        <5>1. index \in 0 .. Len(sizes)
          BY <1>1, <4>1
        <5> QED BY <1>1, <5>1, UpToIs
      <4>3. value > 0
        BY <1>1, <3>1, <3>3, <4>1, <4>2
      <4> QED BY <1>5, <3>3, <4>3
    <3> QED BY <3>2, <3>3
  <2> QED BY <1>1, <1>4, <2>1, <2>2, ReturnKeeps
<1>6. CASE index # 0 /\ value > 0
  <2>1. /\ sender' = RestFrom(index + 1, sender.written + value) /\ UNCHANGED sends
        /\ waitFailed' = waitFailed /\ value = UpTo(sizes, index) - sender.written
    BY <1>6 DEF SendBlockReturns
  <2>2. /\ InRange(sizes) /\ index \in 1 .. Len(sizes) /\ sender.written < UpTo(sizes, index)
        /\ sender.from + sender.left = sender.first + UpTo(sizes, index)
    BY <1>2, <1>6 DEF Fits
  <2>3. UpTo(sizes, index) \in Nat /\ UpTo(sizes, index) <= Total(sizes)
    <3>1. index \in 0 .. Len(sizes) /\ Len(sizes) \in index .. Len(sizes)
      BY <1>1, <2>2
    <3> QED BY <1>1, <3>1, UpToIs, UpToGrows DEF Total
  <2>4. sender.written + value = UpTo(sizes, index) /\ index + 1 \in Nat
    BY <1>1, <2>1, <2>3, SMTT(30)
  <2>5. PICK s : s = RestFrom(index + 1, UpTo(sizes, index))
    OBVIOUS
  <2>6. /\ s \in SenderType /\ s # NotSending /\ s.at = "rest"
        /\ s.first = sender.first /\ s.sizes = sizes
        /\ s.index = index + 1 /\ s.written = UpTo(sizes, index)
    BY <1>1, <2>3, <2>4, <2>5, RestFields, SMTT(30)
  <2>7. Fits(s) /\ Done(s) = UpTo(sizes, index)
    <3>1. s.index \in 1 .. Len(s.sizes) + 1 /\ s.index - 1 = index
      <4>1. \A k, m \in Nat : k \in 1 .. m => k + 1 \in 1 .. m + 1 /\ (k + 1) - 1 = k
        OBVIOUS
      <4> QED BY <1>1, <2>2, <2>6, <4>1
    <3>2. UpTo(s.sizes, s.index - 1) <= s.written
      BY <2>3, <2>6, <3>1
    <3> QED BY <2>2, <2>3, <2>6, <3>1, <3>2 DEF Fits, Done
  <2>8. Stands /\ ~waitFailed => Done(s) = Done(sender) + 0
    <3>1. Stands /\ ~waitFailed => sender.left = 0
      BY <2>1
    <3>2. sender.left = 0 => Done(sender) = UpTo(sizes, index)
      BY <1>1, <1>3, <2>2, <2>3
    <3> QED BY <1>3, <2>7, <3>1, <3>2
  <2>9. sender' = s
    BY <2>1, <2>4, <2>5
  <2> QED BY <1>1, <1>4, <2>1, <2>6, <2>7, <2>8, <2>9, ContinueKeeps
<1>7. (index = 0 \/ value <= 0) \/ (index # 0 /\ value > 0)
  OBVIOUS
<1> QED BY <1>5, <1>6, <1>7

(* sendBlock goes on, after n more bytes.                                  *)
LEMMA SendTurnKeeps ==
  ASSUME SendInv, sender.at \in {"send", "poll"}, NEW n \in 0 .. sender.left,
         sender' \in BlockType,
         sender'.first = sender.first, sender'.sizes = sender.sizes,
         sender'.index = sender.index, sender'.written = sender.written,
         sender'.from = sender.from + n, sender'.left = sender.left - n,
         wire' = wire \o Bytes(sender.from, n),
         UNCHANGED <<connVars, peerRead, sends, handedOver, waitFailed>>
  PROVE  SendInv'
<1>1. /\ sender # NotSending /\ sender.first \in Nat
      /\ sender.from \in Nat /\ sender.left \in Nat /\ n \in Nat
  BY SenderFields DEF SendInv, OutTypes
<1>2. Fits(sender)
  BY <1>1 DEF SendInv, Counted
<1>3. sender.first <= sender.from
  BY <1>2 DEF Fits
<1>4. PICK s \in BlockType : s = sender'
  OBVIOUS
<1>5. s \in SenderType /\ s # NotSending /\ s.at \in {"send", "poll"}
  BY <1>4 DEF SenderType, BlockType, NotSending
<1>6. s.first = sender.first /\ s.sizes = sender.sizes
      /\ s.index = sender.index /\ s.written = sender.written
      /\ s.from = sender.from + n /\ s.left = sender.left - n
  BY <1>4
<1>7. s.from + s.left = sender.from + sender.left /\ s.first <= s.from
  BY <1>1, <1>3, <1>6
<1>8. Fits(s)
  BY <1>2, <1>5, <1>6, <1>7 DEF Fits
<1>9. Done(sender) = sender.from - sender.first /\ Done(s) = s.from - s.first
  BY <1>5 DEF Done
<1>10. sender.first + Done(sender) = sender.from /\ Done(s) = Done(sender) + n
  BY <1>1, <1>3, <1>6, <1>9
<1> QED BY <1>1, <1>4, <1>5, <1>6, <1>8, <1>10, ContinueKeeps

LEMMA SendWaitsKeeps ==
  ASSUME SendInv, sender.at \in {"send", "poll"}, NEW at \in {"send", "poll"},
         sender' = [sender EXCEPT !.at = at],
         UNCHANGED <<connVars, wire, peerRead, sends, handedOver, waitFailed>>
  PROVE  SendInv'
<1>1. sender \in BlockType /\ sender.from \in Nat /\ sender.left \in Nat /\ wire \in Seq(Nat)
  BY SenderFields DEF SendInv, OutTypes
<1>2. wire' = wire \o Bytes(sender.from, 0) /\ 0 \in 0 .. sender.left
  BY <1>1, NoBytes
<1>3. /\ sender' \in BlockType
      /\ sender'.first = sender.first /\ sender'.sizes = sender.sizes
      /\ sender'.index = sender.index /\ sender'.written = sender.written
      /\ sender'.from = sender.from /\ sender'.left = sender.left
  BY <1>1 DEF BlockType
<1>4. sender.from = sender.from + 0 /\ sender.left = sender.left - 0
  BY <1>1
<1> QED BY <1>2, <1>3, <1>4, SendTurnKeeps

(* A send that takes n bytes.                                              *)
LEMMA SendTakesKeeps ==
  ASSUME SendInv, sender.at = "send", NEW n \in 1 .. sender.left,
         sender' = [sender EXCEPT !.from = @ + n, !.left = @ - n],
         wire' = wire \o Bytes(sender.from, n),
         UNCHANGED <<connVars, peerRead, sends, handedOver, waitFailed>>
  PROVE  SendInv'
<1>1. sender \in BlockType /\ sender.from \in Nat /\ sender.left \in Nat
  BY SenderFields DEF SendInv, OutTypes
<1>2. n \in 0 .. sender.left /\ sender.from + n \in Nat /\ sender.left - n \in Nat
  BY <1>1
<1>3. /\ sender' \in BlockType
      /\ sender'.first = sender.first /\ sender'.sizes = sender.sizes
      /\ sender'.index = sender.index /\ sender'.written = sender.written
      /\ sender'.from = sender.from + n /\ sender'.left = sender.left - n
  BY <1>1, <1>2 DEF BlockType
<1> QED BY <1>2, <1>3, SendTurnKeeps

LEMMA SendKeeps == ASSUME SendInv, Send PROVE SendInv'
<1> DEFINE size == IF sender.index = 0 THEN sender.sizes[1]
                   ELSE UpTo(sender.sizes, sender.index) - sender.written
<1>1. sender.at = "send" /\ UNCHANGED <<connVars, peerRead, handedOver, waitFailed>>
  BY DEF Send
<1>2. size \in Int
  BY <1>1, BlockSize
<1>3. ASSUME sender.left = 0, SendBlockReturns(size), UNCHANGED wire PROVE SendInv'
  <2>1. size # -1
    BY <1>1, BlockSize
  <2> QED BY <1>1, <1>2, <1>3, <2>1, SendBlockReturnsKeeps
<1>4. ASSUME Failed, SendBlockReturns(-1), UNCHANGED wire PROVE SendInv'
  <2>1. ~Stands
    BY <1>4 DEF Failed, Stands
  <2> QED BY <1>1, <1>4, <2>1, SendBlockReturnsKeeps
<1>5. ASSUME NEW n \in 1 .. sender.left, wire' = wire \o Bytes(sender.from, n),
             sender' = [sender EXCEPT !.from = @ + n, !.left = @ - n], UNCHANGED sends
      PROVE  SendInv'
  BY <1>1, <1>5, SendTakesKeeps
<1>6. ASSUME sender' = [sender EXCEPT !.at = "poll"], UNCHANGED <<wire, sends>> PROVE SendInv'
  BY <1>1, <1>6, SendWaitsKeeps, SMTT(30)
<1> QED BY <1>3, <1>4, <1>5, <1>6 DEF Send

LEMMA WinSendKeeps == ASSUME SendInv, WinSend PROVE SendInv'
<1> DEFINE size == IF sender.index = 0 THEN sender.sizes[1]
                   ELSE UpTo(sender.sizes, sender.index) - sender.written
<1>1. sender.at = "send" /\ UNCHANGED <<connVars, peerRead, handedOver, waitFailed>>
  BY DEF WinSend
<1>2. size \in Int
  BY <1>1, BlockSize
<1>3. ASSUME sender.left = 0 \/ conn = "broken", SendBlockReturns(size), UNCHANGED wire
      PROVE  SendInv'
  <2>1. size # -1
    BY <1>1, BlockSize
  <2>2. Stands => sender.left = 0
    BY <1>3 DEF Stands
  <2> QED BY <1>1, <1>2, <1>3, <2>1, <2>2, SendBlockReturnsKeeps
<1>4. ASSUME conn = "none", SendBlockReturns(-1), UNCHANGED wire PROVE SendInv'
  <2>1. ~Stands
    BY <1>4 DEF Stands
  <2> QED BY <1>1, <1>4, <2>1, SendBlockReturnsKeeps
<1>5. ASSUME NEW n \in 1 .. sender.left, wire' = wire \o Bytes(sender.from, n),
             sender' = [sender EXCEPT !.from = @ + n, !.left = @ - n], UNCHANGED sends
      PROVE  SendInv'
  BY <1>1, <1>5, SendTakesKeeps
<1> QED BY <1>3, <1>4, <1>5 DEF WinSend

LEMMA WaitToSendKeeps == ASSUME SendInv, WaitToSend \/ WaitToSendFails PROVE SendInv'
<1>1. CASE WaitToSend
  BY <1>1, SendWaitsKeeps DEF WaitToSend
<1>2. CASE WaitToSendFails
  <2>1. /\ sender.at = "poll" /\ SendBlockReturns(-1) /\ waitFailed' = TRUE
        /\ UNCHANGED <<connVars, wire, peerRead, handedOver>>
    BY <1>2 DEF WaitToSendFails
  <2>2. -1 \in Int /\ ~(-1 > 0) /\ ~(Stands /\ ~waitFailed')
    BY <2>1
  <2> QED BY <2>1, <2>2, SendBlockReturnsKeeps
<1> QED BY <1>1, <1>2

(* The next block that is not sent: the blocks before it are, and of it    *)
(* what was written beyond them.                                           *)
LEMMA NextRestKeeps == ASSUME SendInv, NextRest PROVE SendInv'
<1> DEFINE sizes == sender.sizes
           written == sender.written
           open == {i \in sender.index .. Len(sizes) : written < UpTo(sizes, i)}
<1>1. sender.at = "rest"
      /\ UNCHANGED <<connVars, wire, peerRead, handedOver, waitFailed>>
  BY DEF NextRest
<1>2. /\ sender # NotSending /\ sender.first \in Nat /\ Total(sizes) \in Nat /\ wire \in Seq(Nat)
      /\ sizes \in Seq(Nat) /\ Len(sizes) \in Nat /\ sender.index \in Nat /\ written \in Nat
  BY <1>1, SenderFields DEF SendInv, OutTypes
<1>3. /\ InRange(sizes) /\ sender.index \in 1 .. Len(sizes) + 1
      /\ UpTo(sizes, sender.index - 1) <= written
      /\ written <= Total(sizes) \/ written = SizeLimit - 1
  BY <1>1, <1>2 DEF SendInv, Counted, Fits
<1>4. /\ SizeLimit \in Nat /\ Total(sizes) < SizeLimit \div 2 /\ SizeLimit # 0
      /\ Total(sizes) < SizeLimit - 1
  <2>1. \A t, l \in Nat : t < l \div 2 => l # 0 /\ t < l - 1
    OBVIOUS
  <2>2. SizeLimit \in Nat
    BY SocketAssumption
  <2> QED BY <1>2, <1>3, <2>1, <2>2 DEF InRange
<1>5. /\ \A i \in 0 .. Len(sizes) : UpTo(sizes, i) \in Nat
      /\ \A i \in 1 .. Len(sizes) : UpTo(sizes, i) = UpTo(sizes, i - 1) + sizes[i]
      /\ \A i \in 1 .. Len(sizes) : UpTo(sizes, i) <= Total(sizes)
  <2> HIDE DEF sizes
  <2>1. ASSUME NEW i \in 1 .. Len(sizes) PROVE UpTo(sizes, i) <= Total(sizes)
    <3>1. i \in 0 .. Len(sizes) /\ Len(sizes) \in i .. Len(sizes)
      BY <1>2
    <3> QED BY <1>2, <3>1, UpToGrows DEF Total
  <2>2. /\ \A i \in 0 .. Len(sizes) : UpTo(sizes, i) \in Nat
        /\ \A i \in 1 .. Len(sizes) : UpTo(sizes, i) = UpTo(sizes, i - 1) + sizes[i]
    BY <1>2, UpToIs
  <2> QED BY <2>1, <2>2
<1>6. wire \o Bytes(sender.first + Done(sender), 0) = wire
  <2>1. Done(sender) \in Nat
    BY <1>1, <1>2 DEF Done
  <2>2. sender.first + Done(sender) \in Nat
    BY <1>2, <2>1
  <2> QED BY <1>2, <2>2, NoBytes
<1>7. CASE open = {}
  <2>1. SendReturns(AsSigned(written))
    BY <1>7 DEF NextRest
  <2>2. written <= Total(sizes) => written = Total(sizes)
    <3>1. CASE sender.index = Len(sizes) + 1
      <4>1. sender.index - 1 = Len(sizes)
        BY <1>2, <3>1
      <4> QED BY <1>2, <1>3, <4>1 DEF Total
    <3>2. CASE sender.index # Len(sizes) + 1
      <4>1. Len(sizes) \in sender.index .. Len(sizes)
        BY <1>2, <1>3, <3>2
      <4>2. ~(written < UpTo(sizes, Len(sizes)))
        BY <1>7, <4>1
      <4> QED BY <1>2, <4>2 DEF Total
    <3> QED BY <3>1, <3>2
  <2>3. CASE written <= Total(sizes)
    <3>1. AsSigned(written) = Total(sizes) /\ Done(sender) = Total(sizes)
      BY <1>1, <1>2, <1>4, <2>2, <2>3 DEF AsSigned, Done
    <3>2. Done(sender) + 0 = Total(sizes) /\ AsSigned(written) \in Int
      BY <1>2, <3>1
    <3> QED BY <1>1, <1>2, <1>6, <2>1, <3>1, <3>2, ReturnKeeps
  <2>4. CASE ~(written <= Total(sizes))
    <3>1. AsSigned(written) = -1 /\ Done(sender) = 0
      BY <1>1, <1>3, <1>4, <2>4, MinusOne DEF Done
    <3>2. Done(sender) + 0 = 0 /\ AsSigned(written) \in Int /\ AsSigned(written) # Total(sizes)
      BY <1>2, <3>1
    <3> QED BY <1>1, <1>2, <1>6, <2>1, <3>2, ReturnKeeps
  <2> QED BY <2>3, <2>4
<1>8. CASE open # {}
  <2> DEFINE i == CHOOSE i \in open : \A j \in open : i <= j
             remaining == UpTo(sizes, i) - written
             from == sender.first + UpTo(sizes, i - 1) + (sizes[i] - remaining)
             s == [at |-> "send", first |-> sender.first, sizes |-> sizes, index |-> i,
                   written |-> written, left |-> remaining, from |-> from]
  <2>1. sender' = s /\ UNCHANGED sends
    BY <1>8 DEF NextRest
  <2>2. i \in open /\ \A j \in open : i <= j
    <3>1. open \in SUBSET Nat
      BY <1>2
    <3> HIDE DEF open
    <3>2. \E x \in open : \A j \in open : x <= j
      BY <1>8, <3>1, LeastNumber
    <3> QED BY <3>2
  <2> HIDE DEF i
  <2>3. /\ i \in sender.index .. Len(sizes) /\ written < UpTo(sizes, i)
        /\ i \in 1 .. Len(sizes) /\ i \in Nat /\ i - 1 \in 0 .. Len(sizes)
        /\ i \in 0 .. Len(sizes)
    BY <1>2, <1>3, <2>2
  <2>4. UpTo(sizes, i - 1) <= written
    <3>1. CASE i = sender.index
      BY <1>3, <3>1
    <3>2. CASE i # sender.index
      <4>1. i - 1 \in sender.index .. Len(sizes) /\ ~(i <= i - 1)
        BY <1>2, <1>3, <2>3, <3>2
      <4>2. ~(written < UpTo(sizes, i - 1))
        BY <2>2, <4>1
      <4> QED BY <1>2, <1>5, <2>3, <4>2
    <3> QED BY <3>1, <3>2
  <2>5. /\ UpTo(sizes, i) \in Nat /\ UpTo(sizes, i - 1) \in Nat /\ sizes[i] \in Nat
        /\ UpTo(sizes, i) = UpTo(sizes, i - 1) + sizes[i] /\ UpTo(sizes, i) <= Total(sizes)
    <3> HIDE DEF sizes
    <3>1. sizes[i] \in Nat
      BY <1>2, <2>3
    <3> QED BY <1>5, <2>3, <3>1
  <2>6. from = sender.first + written /\ remaining \in Nat
        /\ from + remaining = sender.first + UpTo(sizes, i) /\ from \in Nat
        /\ sender.first <= from /\ from - sender.first = written /\ written <= Total(sizes)
    <3> HIDE DEF sizes, written
    <3>1. PICK f, w, u, q, z, t \in Nat :
            /\ f = sender.first /\ w = written /\ u = UpTo(sizes, i)
            /\ q = UpTo(sizes, i - 1) /\ z = sizes[i] /\ t = Total(sizes)
      BY <1>2, <2>5
    <3>2. u = q + z /\ w < u /\ u <= t
      BY <2>3, <2>5, <3>1
    <3>3. from = f + q + (z - (u - w)) /\ remaining = u - w
      BY <3>1
    <3> HIDE DEF from, remaining
    <3>4. /\ from = f + w /\ remaining \in Nat /\ from + remaining = f + u
          /\ from \in Nat /\ f <= from /\ from - f = w /\ w <= t
      BY <3>2, <3>3
    <3> QED BY <3>1, <3>4
  <2> HIDE DEF from, remaining
  <2>7. s \in SenderType /\ s # NotSending
    <3>1. s \in [at : {"send", "poll"}, first : Nat, sizes : Seq(Nat),
                 from : Nat, left : Nat, index : Nat, written : Nat]
      BY <1>2, <2>3, <2>6
    <3> QED BY <3>1 DEF SenderType, BlockType, NotSending
  <2>8. Fits(s)
    BY <1>3, <2>3, <2>4, <2>6 DEF Fits
  <2>9. Done(s) = written /\ Done(sender) = written /\ Done(s) = Done(sender) + 0
    BY <1>1, <1>2, <2>6 DEF Done
  <2>10. s.first = sender.first /\ s.sizes = sizes
    OBVIOUS
  <2> HIDE DEF s
  <2> QED BY <1>1, <1>2, <1>6, <2>1, <2>7, <2>8, <2>9, <2>10, ContinueKeeps
<1> QED BY <1>7, <1>8

-------------------------------------------------------------------------------
(* The invariant of receiving.                                             *)

ReaderType ==
  [at : {"idle", "handler", "echo"}]
    \cup [at : {"recv", "poll"}, left : Nat \ {0}, got : Seq(Byte)]

InTypes ==
  /\ conn \in ConnStates /\ connects \in 0 .. MaxConnects
  /\ arrived \in Seq(Byte) /\ peerSent \in 0 .. MaxArriving
  /\ buffer \in Seq(Byte) /\ alreadyRead \in 0 .. Len(buffer) /\ Len(buffer) <= ReadBuffer
  /\ reader \in ReaderType
  /\ returned \in Seq(Byte) /\ dropped \in Seq(Byte) /\ stale \in Seq(Byte)

(* What was there to be read since connect.                                *)
Offered == ToSet(stale) \cup FromPeer

GoesWithoutGap(got) ==
  /\ InOrder(got) /\ ToSet(got) \subseteq Owed
  /\ \A a \in Owed, b \in ToSet(got) : Before(a, b) => a \in ToSet(got)

ReadInv ==
  /\ InTypes
  /\ \A b \in ToSet(stale) : b[1] < connects
  /\ ToSet(dropped) \subseteq Offered
  /\ IF Stands
     THEN InOrder(Got \o arrived) /\ ToSet(Got \o arrived) = Owed
     ELSE GoesWithoutGap(Got)

LEMMA Associative ==
  ASSUME NEW s \in Seq(Byte), NEW t \in Seq(Byte), NEW u \in Seq(Byte)
  PROVE  (s \o t) \o u = s \o (t \o u)
BY ConcatAssociative

LEMMA Cut ==
  ASSUME NEW s \in Seq(Byte), NEW n \in 0 .. Len(s)
  PROVE  /\ SubSeq(s, 1, n) \in Seq(Byte) /\ Len(SubSeq(s, 1, n)) = n
         /\ SubSeq(s, n + 1, Len(s)) \in Seq(Byte)
         /\ Len(SubSeq(s, n + 1, Len(s))) = Len(s) - n
         /\ SubSeq(s, 1, n) \o SubSeq(s, n + 1, Len(s)) = s
<1>1. Len(s) \in Nat /\ n \in Nat /\ n <= Len(s)
  OBVIOUS
<1>2. \A i \in 1 .. Len(s) : s[i] \in Byte
  OBVIOUS
<1>3. SubSeq(s, 1, n) \in Seq(Byte) /\ Len(SubSeq(s, 1, n)) = n
  <2>1. \A i \in 1 .. n : s[i] \in Byte
    BY <1>1, <1>2
  <2>2. Len(SubSeq(s, 1, n)) = IF 1 <= n THEN n - 1 + 1 ELSE 0
    BY <1>1, <2>1, SubSeqProperties
  <2> QED BY <1>1, <2>1, <2>2, SubSeqProperties
<1>4. /\ SubSeq(s, n + 1, Len(s)) \in Seq(Byte)
      /\ Len(SubSeq(s, n + 1, Len(s))) = Len(s) - n
  <2>1. \A i \in n + 1 .. Len(s) : s[i] \in Byte
    BY <1>1, <1>2
  <2>2. n + 1 \in Int /\ Len(s) \in Int
    BY <1>1
  <2>3. Len(SubSeq(s, n + 1, Len(s))) = IF n + 1 <= Len(s) THEN Len(s) - (n + 1) + 1 ELSE 0
    BY <2>1, <2>2, SubSeqProperties
  <2>4. (IF n + 1 <= Len(s) THEN Len(s) - (n + 1) + 1 ELSE 0) = Len(s) - n
    BY <1>1
  <2> QED BY <2>1, <2>2, <2>3, <2>4, SubSeqProperties
<1>5. SubSeq(s, 1, n) \o SubSeq(s, n + 1, Len(s)) = s
  <2>1. 1 \in 1 .. Len(s) + 1 /\ n \in 1 - 1 .. Len(s) /\ Len(s) \in n .. Len(s)
    BY <1>1
  <2> QED BY <2>1, ConcatAdjacentSubSeq, SubSeqFull
<1> QED BY <1>3, <1>4, <1>5

(* The smaller of two numbers.                                             *)
LEMMA MinIs ==
  ASSUME NEW a \in Nat, NEW b \in Nat
  PROVE  Min({a, b}) \in Nat /\ Min({a, b}) <= a /\ Min({a, b}) <= b /\ Min({a, b}) \in {a, b}
<1>1. \E x \in {a, b} : \A y \in {a, b} : x <= y
  <2>1. CASE a <= b
    BY <2>1
  <2>2. CASE b <= a
    BY <2>2
  <2> QED BY <2>1, <2>2
<1>2. Min({a, b}) \in {a, b} /\ \A y \in {a, b} : Min({a, b}) <= y
  BY <1>1 DEF Min
<1> QED BY <1>2

(* The buffer after a recv.                                                *)
Rest(r) == SubSeq(r.buffer, r.read + 1, Len(r.buffer))

(* A recv hands bytes on, and loses none.                                  *)
LEMMA RecvIs ==
  ASSUME InTypes, NEW wish \in Nat \ {0}
  PROVE  LET r == Recv(wish) IN
         /\ r.buffer \in Seq(Byte) /\ Len(r.buffer) <= ReadBuffer
         /\ r.read \in 0 .. Len(r.buffer) /\ r.arrived \in Seq(Byte)
         /\ r.result \in Int /\ r.result <= wish
         /\ r.data \in Seq(Byte) /\ Rest(r) \in Seq(Byte)
         /\ (r.data \o Rest(r)) \o r.arrived = LeftOver \o arrived
         /\ conn # "open" => r.data \o Rest(r) = LeftOver /\ r.arrived = arrived
         /\ r.result <= 0 =>
              /\ r.data = <<>> /\ r.buffer = buffer
              /\ r.read = alreadyRead /\ r.arrived = arrived
<1>0. PICK r : r = Recv(wish)
  OBVIOUS
<1>1. /\ buffer \in Seq(Byte) /\ Len(buffer) \in Nat /\ alreadyRead \in 0 .. Len(buffer)
      /\ alreadyRead \in Nat /\ Len(buffer) <= ReadBuffer
      /\ arrived \in Seq(Byte) /\ Len(arrived) \in Nat /\ wish \in Nat /\ wish > 0
      /\ ReadBuffer \in Nat /\ ReadBuffer > 0
  BY SocketAssumption DEF InTypes
<1>2. PICK left : left = LeftOver
  OBVIOUS
<1>3. left \in Seq(Byte) /\ Len(left) = Len(buffer) - alreadyRead /\ Len(left) \in Nat
  BY <1>1, <1>2, Cut DEF LeftOver
<1>4. CASE left # <<>>
  <2> DEFINE n == Min({Len(left), wish})
  <2>1. r = [result |-> n, data |-> SubSeq(left, 1, n), buffer |-> buffer,
             read |-> alreadyRead + n, arrived |-> arrived]
    BY <1>0, <1>2, <1>4 DEF Recv
  <2>2. Len(left) > 0
    BY <1>3, <1>4
  <2>3. n \in Nat /\ n <= Len(left) /\ n <= wish /\ n > 0
    BY <1>1, <1>3, <2>2, MinIs
  <2> HIDE DEF n
  <2>4. SubSeq(left, 1, n) \in Seq(Byte)
    BY <1>3, <2>3, Cut
  <2>5. /\ alreadyRead + n \in 0 .. Len(buffer)
        /\ alreadyRead + 1 \in 1 .. Len(buffer) /\ Len(buffer) \in 1 .. Len(buffer)
        /\ 1 \in 1 .. Len(buffer) - (alreadyRead + 1) + 1
        /\ n \in 1 .. Len(buffer) - (alreadyRead + 1) + 1
        /\ alreadyRead + 1 \in 1 .. Len(buffer) + 1
        /\ alreadyRead + n \in (alreadyRead + 1) - 1 .. Len(buffer)
        /\ Len(buffer) \in alreadyRead + n .. Len(buffer)
        /\ (alreadyRead + 1) + 1 - 1 = alreadyRead + 1
        /\ (alreadyRead + 1) + n - 1 = alreadyRead + n
    BY <1>1, <1>3, <2>3
  <2>6. SubSeq(left, 1, n) = SubSeq(buffer, alreadyRead + 1, alreadyRead + n)
    <3>1. SubSeq(left, 1, n)
            = SubSeq(buffer, (alreadyRead + 1) + 1 - 1, (alreadyRead + 1) + n - 1)
      BY <1>1, <1>2, <2>5, SubSeqOfSubSeq DEF LeftOver
    <3> QED BY <2>5, <3>1
  <2>7. SubSeq(left, 1, n) \o SubSeq(buffer, (alreadyRead + n) + 1, Len(buffer)) = left
    BY <1>1, <1>2, <2>5, <2>6, ConcatAdjacentSubSeq DEF LeftOver
  <2>8. SubSeq(buffer, (alreadyRead + n) + 1, Len(buffer)) \in Seq(Byte)
    BY <1>1, <2>5, Cut
  <2>9. /\ r.result = n /\ r.data = SubSeq(left, 1, n) /\ r.buffer = buffer
        /\ r.read = alreadyRead + n /\ r.arrived = arrived
        /\ Rest(r) = SubSeq(buffer, (alreadyRead + n) + 1, Len(buffer))
    <3>1. /\ r.result = n /\ r.data = SubSeq(left, 1, n) /\ r.buffer = buffer
          /\ r.read = alreadyRead + n /\ r.arrived = arrived
      BY <2>1
    <3> QED BY <3>1 DEF Rest
  <2>10. r.result \in Int /\ r.result <= wish /\ ~(r.result <= 0)
    BY <1>1, <2>3, <2>9
  <2> HIDE <2>1
  <2> QED BY <1>0, <1>1, <1>2, <2>4, <2>5, <2>7, <2>8, <2>9, <2>10
<1>5. CASE left = <<>> /\ conn = "open" /\ arrived # <<>>
  <2> DEFINE m == Min({Len(arrived), ReadBuffer})
             chunk == SubSeq(arrived, 1, m)
             n == Min({Len(chunk), wish})
  <2>1. r = [result |-> n, data |-> SubSeq(chunk, 1, n), buffer |-> chunk, read |-> n,
             arrived |-> SubSeq(arrived, Len(chunk) + 1, Len(arrived))]
    BY <1>0, <1>2, <1>5 DEF Recv
  <2>2. Len(arrived) > 0
    BY <1>1, <1>5
  <2>3. m \in Nat /\ m <= Len(arrived) /\ m <= ReadBuffer /\ m > 0
    BY <1>1, <2>2, MinIs
  <2> HIDE DEF m
  <2>4. /\ chunk \in Seq(Byte) /\ Len(chunk) = m
        /\ SubSeq(arrived, m + 1, Len(arrived)) \in Seq(Byte)
        /\ chunk \o SubSeq(arrived, m + 1, Len(arrived)) = arrived
    <3>1. m \in 0 .. Len(arrived)
      BY <1>1, <2>3
    <3> QED BY <1>1, <3>1, Cut
  <2> HIDE DEF chunk
  <2>5. n \in Nat /\ n <= Len(chunk) /\ n <= wish /\ n > 0
    BY <1>1, <2>3, <2>4, MinIs
  <2> HIDE DEF n
  <2>6. n \in 0 .. Len(chunk)
    BY <2>3, <2>4, <2>5
  <2>7. /\ SubSeq(chunk, 1, n) \in Seq(Byte) /\ SubSeq(chunk, n + 1, Len(chunk)) \in Seq(Byte)
        /\ SubSeq(chunk, 1, n) \o SubSeq(chunk, n + 1, Len(chunk)) = chunk
    BY <2>4, <2>6, Cut
  <2>8. LeftOver \o arrived = arrived
    BY <1>1, <1>2, <1>5, ConcatEmptySeq
  <2>9. /\ r.result = n /\ r.data = SubSeq(chunk, 1, n) /\ r.buffer = chunk /\ r.read = n
        /\ r.arrived = SubSeq(arrived, m + 1, Len(arrived))
        /\ Rest(r) = SubSeq(chunk, n + 1, Len(chunk))
    <3>1. /\ r.result = n /\ r.data = SubSeq(chunk, 1, n) /\ r.buffer = chunk /\ r.read = n
          /\ r.arrived = SubSeq(arrived, Len(chunk) + 1, Len(arrived))
      BY <2>1
    <3> QED BY <2>4, <3>1 DEF Rest
  <2>10. /\ r.result \in Int /\ r.result <= wish /\ ~(r.result <= 0)
         /\ Len(r.buffer) <= ReadBuffer
    BY <1>1, <2>3, <2>4, <2>5, <2>9
  <2> HIDE <2>1
  <2> QED BY <1>0, <1>5, <2>4, <2>6, <2>7, <2>8, <2>9, <2>10
<1>6. CASE left = <<>> /\ ~(conn = "open" /\ arrived # <<>>)
  <2>1. /\ r.result \in {0, -1} /\ r.data = <<>> /\ r.buffer = buffer
        /\ r.read = alreadyRead /\ r.arrived = arrived
    BY <1>0, <1>2, <1>6 DEF Recv
  <2>2. Rest(r) = <<>>
    BY <1>2, <1>6, <2>1 DEF Rest, LeftOver
  <2>3. <<>> \in Seq(Byte) /\ <<>> \o <<>> = <<>>
    OBVIOUS
  <2>4. r.result \in Int /\ r.result <= wish
    BY <1>1, <2>1
  <2> QED BY <1>0, <1>1, <1>2, <1>6, <2>1, <2>2, <2>3, <2>4
<1> QED BY <1>4, <1>5, <1>6

(* One byte is before another: an order.                                   *)
LEMMA BeforeIsOrder ==
  ASSUME NEW a \in Byte, NEW b \in Byte, Before(a, b)
  PROVE  a # b /\ ~Before(b, a)
BY DEF Byte, Before

LEMMA GotTypes ==
  ASSUME InTypes
  PROVE  /\ returned \in Seq(Byte) /\ InHand \in Seq(Byte) /\ LeftOver \in Seq(Byte)
         /\ arrived \in Seq(Byte) /\ returned \o InHand \in Seq(Byte) /\ Got \in Seq(Byte)
         /\ ToSet(stale) \subseteq Byte /\ ToSet(dropped) \subseteq Byte
         /\ connects \in Nat /\ peerSent \in Nat
<1>1. returned \in Seq(Byte) /\ arrived \in Seq(Byte) /\ connects \in Nat /\ peerSent \in Nat
  BY SocketAssumption DEF InTypes
<1>2. InHand \in Seq(Byte)
  <2>1. <<>> \in Seq(Byte)
    OBVIOUS
  <2> QED BY <2>1 DEF InTypes, ReaderType, InHand
<1>3. LeftOver \in Seq(Byte)
  <2>1. buffer \in Seq(Byte) /\ alreadyRead \in 0 .. Len(buffer)
    BY DEF InTypes
  <2> QED BY <2>1, Cut DEF LeftOver
<1>4. returned \o InHand \in Seq(Byte)
  BY <1>1, <1>2, ConcatProperties
<1>5. Got \in Seq(Byte)
  BY <1>3, <1>4, ConcatProperties DEF Got
<1>6. stale \in Seq(Byte) /\ dropped \in Seq(Byte)
  BY DEF InTypes
<1>7. ToSet(stale) \subseteq Byte /\ ToSet(dropped) \subseteq Byte
  BY <1>6, Elements
<1> QED BY <1>1, <1>2, <1>3, <1>4, <1>5, <1>7

(* Where a byte comes from.                                                *)
LEMMA OfferedBytes ==
  ASSUME ReadInv, NEW b \in Offered
  PROVE  /\ b \in Byte /\ b[1] <= connects
         /\ b[1] = connects => b[2] <= peerSent
<1>1. connects \in Nat /\ peerSent \in Nat /\ ToSet(stale) \subseteq Byte
  BY GotTypes DEF ReadInv
<1>2. CASE b \in ToSet(stale)
  <2>1. b \in Byte /\ b[1] < connects
    BY <1>1, <1>2 DEF ReadInv
  <2>2. b[1] \in Nat
    BY <2>1 DEF Byte
  <2> QED BY <1>1, <2>1, <2>2
<1>3. CASE b \in FromPeer
  <2>1. PICK k \in 1 .. peerSent : b = <<connects, k>>
    BY <1>3 DEF FromPeer
  <2>2. k \in Nat /\ k <= peerSent
    BY <1>1, <2>1
  <2> QED BY <1>1, <2>1, <2>2 DEF Byte
<1> QED BY <1>2, <1>3 DEF Offered

(* With the connection gone, what the callers got has no gap.              *)
LEMMA NoGap ==
  ASSUME ReadInv
  PROVE  GoesWithoutGap(Got)
<1>1. CASE ~Stands
  BY <1>1 DEF ReadInv
<1>2. CASE Stands
  <2>1. InOrder(Got \o arrived) /\ ToSet(Got \o arrived) = Owed
    BY <1>2 DEF ReadInv
  <2>2. Got \in Seq(Byte) /\ arrived \in Seq(Byte)
    BY GotTypes DEF ReadInv
  <2>3. ToSet(Got \o arrived) = ToSet(Got) \cup ToSet(arrived)
    BY <2>2, ElementsOfBoth
  <2>4. InOrder(Got) /\ \A a \in ToSet(Got), b \in ToSet(arrived) : Before(a, b)
    BY <2>1, <2>2, OrderOfBoth
  <2>5. ASSUME NEW a \in Owed, NEW b \in ToSet(Got), Before(a, b) PROVE a \in ToSet(Got)
    <3>1. SUFFICES ASSUME a \in ToSet(arrived) PROVE FALSE
      BY <2>1, <2>3, <2>5
    <3>2. a \in Byte /\ b \in Byte
      BY <2>2, <3>1, Elements
    <3> QED BY <2>4, <2>5, <3>1, <3>2, BeforeIsOrder
  <2> QED BY <2>1, <2>3, <2>4, <2>5 DEF GoesWithoutGap
<1> QED BY <1>1, <1>2

(* The connection is gone, and with it what the kernel may have had.       *)
LEMMA LostKeeps ==
  ASSUME ReadInv, conn' \in {"none", "broken"}, arrived' \in Seq(Byte),
         UNCHANGED <<connects, peerSent, buffer, alreadyRead, reader, returned, dropped, stale>>
  PROVE  ReadInv'
<1>1. InTypes'
  BY DEF ReadInv, InTypes, ConnStates
<1>2. Got' = Got /\ Owed' = Owed /\ Offered' = Offered
  BY DEF Got, InHand, LeftOver, Owed, Offered, FromPeer
<1>3. ~Stands'
  BY DEF Stands
<1>4. GoesWithoutGap(Got)'
  BY <1>2, NoGap DEF GoesWithoutGap
<1> QED BY <1>1, <1>2, <1>3, <1>4 DEF ReadInv

(* The bytes stay where they are.                                          *)
LEMMA BytesStay ==
  ASSUME ReadInv, reader' \in ReaderType, InHand' = InHand, conn' \in ConnStates,
         Stands' = Stands,
         UNCHANGED <<connects, arrived, peerSent, buffer, alreadyRead, returned, dropped, stale>>
  PROVE  ReadInv'
<1>1. InTypes'
  BY DEF ReadInv, InTypes
<1>2. Got' = Got /\ Owed' = Owed /\ Offered' = Offered
  BY DEF Got, LeftOver, Owed, Offered, FromPeer
<1>3. GoesWithoutGap(Got)' <=> GoesWithoutGap(Got)
  BY <1>2 DEF GoesWithoutGap
<1> QED BY <1>1, <1>2, <1>3 DEF ReadInv

(* A recv, and its data with those who asked for it.                       *)
LEMMA TakeKeeps ==
  ASSUME ReadInv, NEW wish \in Nat \ {0}, Take(Recv(wish)), reader' \in ReaderType,
         returned' \in Seq(Byte),
         returned' \o InHand' = (returned \o InHand) \o Recv(wish).data,
         UNCHANGED <<conn, connects, peerSent, dropped, stale>>
  PROVE  ReadInv'
<1>1. PICK r : r = Recv(wish)
  OBVIOUS
<1>2. /\ r.buffer \in Seq(Byte) /\ Len(r.buffer) <= ReadBuffer
      /\ r.read \in 0 .. Len(r.buffer) /\ r.arrived \in Seq(Byte)
      /\ r.data \in Seq(Byte) /\ Rest(r) \in Seq(Byte)
      /\ (r.data \o Rest(r)) \o r.arrived = LeftOver \o arrived
      /\ conn # "open" => r.data \o Rest(r) = LeftOver /\ r.arrived = arrived
  BY <1>1, RecvIs DEF ReadInv
<1>3. buffer' = r.buffer /\ alreadyRead' = r.read /\ arrived' = r.arrived
  BY <1>1 DEF Take
<1>4. InTypes'
  BY <1>2, <1>3 DEF ReadInv, InTypes
<1>5. LeftOver' = Rest(r)
  BY <1>3 DEF LeftOver, Rest
<1>6. PICK had : had = returned \o InHand
  OBVIOUS
<1>7. had \in Seq(Byte) /\ LeftOver \in Seq(Byte) /\ arrived \in Seq(Byte)
  BY <1>6, GotTypes DEF ReadInv
<1>8. Got = had \o LeftOver /\ Got' = (had \o r.data) \o Rest(r)
  BY <1>1, <1>5, <1>6 DEF Got
<1>9. Got' = had \o (r.data \o Rest(r))
  <2>1. had \in Seq(Byte) /\ r.data \in Seq(Byte) /\ Rest(r) \in Seq(Byte)
    BY <1>2, <1>7
  <2>2. (had \o r.data) \o Rest(r) = had \o (r.data \o Rest(r))
    BY ONLY <2>1, Associative
  <2> QED BY <1>8, <2>2
<1>10. Got' \o arrived' = Got \o arrived
  <2>1. /\ r.data \o Rest(r) \in Seq(Byte) /\ r.arrived \in Seq(Byte)
        /\ had \in Seq(Byte) /\ LeftOver \in Seq(Byte) /\ arrived \in Seq(Byte)
    BY <1>2, <1>7, ConcatProperties
  <2>2. (had \o (r.data \o Rest(r))) \o r.arrived = had \o ((r.data \o Rest(r)) \o r.arrived)
    BY ONLY <2>1, Associative, ZenonT(60)
  <2>3. (had \o LeftOver) \o arrived = had \o (LeftOver \o arrived)
    BY ONLY <2>1, Associative, ZenonT(60)
  <2> QED BY <1>2, <1>3, <1>8, <1>9, <2>2, <2>3
<1>11. conn # "open" => Got' = Got
  BY <1>2, <1>8, <1>9
<1>12. Owed' = Owed /\ Offered' = Offered /\ Stands' = Stands
  BY DEF Owed, Offered, FromPeer, Stands
<1>13. CASE Stands
  BY <1>4, <1>10, <1>12, <1>13 DEF ReadInv
<1>14. CASE ~Stands
  <2>1. Got' = Got
    BY <1>11, <1>14 DEF Stands
  <2>2. GoesWithoutGap(Got)'
    BY <1>12, <1>14, <2>1 DEF ReadInv, GoesWithoutGap
  <2> QED BY <1>4, <1>12, <1>14, <2>2 DEF ReadInv
<1> QED BY <1>13, <1>14

(* Bytes in order, some of them taken out of the middle.                   *)
LEMMA WithoutMiddle ==
  ASSUME NEW s \in Seq(Byte), NEW m \in Seq(Byte), NEW t \in Seq(Byte), InOrder((s \o m) \o t)
  PROVE  /\ InOrder(s \o t)
         /\ ToSet(s \o t) = ToSet((s \o m) \o t) \ ToSet(m)
<1>1. PICK u : u = s \o m
  OBVIOUS
<1>2. u \in Seq(Byte) /\ ToSet(u) = ToSet(s) \cup ToSet(m)
  BY <1>1, ElementsOfBoth
<1>3. /\ InOrder(u) /\ InOrder(t)
      /\ \A a \in ToSet(u), b \in ToSet(t) : Before(a, b)
  BY <1>1, <1>2, OrderOfBoth
<1>4. InOrder(s) /\ \A a \in ToSet(s), b \in ToSet(m) : Before(a, b)
  BY <1>1, <1>3, OrderOfBoth
<1>5. InOrder(s \o t)
  BY <1>2, <1>3, <1>4, OrderOfBoth
<1>6. ToSet(s \o t) = ToSet(s) \cup ToSet(t) /\ ToSet(u \o t) = ToSet(u) \cup ToSet(t)
  BY <1>2, ElementsOfBoth
<1>7. ToSet(s) \subseteq Byte /\ ToSet(m) \subseteq Byte /\ ToSet(t) \subseteq Byte
  BY Elements
<1>8. ASSUME NEW b \in ToSet(m) PROVE b \notin ToSet(s) /\ b \notin ToSet(t)
  <2>1. ~Before(b, b)
    BY <1>7, <1>8, BeforeIsOrder
  <2>2. b \in ToSet(u)
    BY <1>2, <1>8
  <2> QED BY <1>3, <1>4, <1>8, <2>1, <2>2
<1> QED BY <1>1, <1>2, <1>5, <1>6, <1>8

(* receiveComplete fails: what it had is dropped.                          *)
LEMMA DropKeeps ==
  ASSUME ReadInv, reader.at \in {"recv", "poll"}, ReceiveFails(reader.got),
         UNCHANGED <<conn, connects, arrived, peerSent, buffer, alreadyRead, returned, stale>>
  PROVE  ReadInv'
<1>1. /\ reader' = NotReading /\ dropped' = dropped \o InHand /\ InHand' = <<>>
  BY DEF ReceiveFails, InHand, NotReading
<1>2. /\ returned \in Seq(Byte) /\ InHand \in Seq(Byte) /\ LeftOver \in Seq(Byte)
      /\ arrived \in Seq(Byte) /\ Got \in Seq(Byte) /\ dropped \in Seq(Byte)
  BY GotTypes DEF ReadInv, InTypes
<1>3. dropped' \in Seq(Byte) /\ ToSet(dropped') = ToSet(dropped) \cup ToSet(InHand)
  BY <1>1, <1>2, ElementsOfBoth
<1>4. InTypes'
  <2>1. reader' \in ReaderType
    BY <1>1 DEF ReaderType, NotReading
  <2> QED BY <1>3, <2>1 DEF ReadInv, InTypes
<1>5. Got = (returned \o InHand) \o LeftOver /\ Got' = returned \o LeftOver
  <2>1. returned \o <<>> = returned
    BY <1>2, ConcatEmptySeq
  <2>2. Got' = (returned \o <<>>) \o LeftOver
    BY <1>1 DEF Got, LeftOver
  <2> QED BY <2>1, <2>2 DEF Got
<1>6. Offered' = Offered /\ Owed' = Owed \ ToSet(InHand) /\ Stands' = Stands
  BY <1>3 DEF Offered, Owed, FromPeer, Stands
<1>7. ToSet(InHand) \subseteq ToSet(Got)
  <2>1. returned \o InHand \in Seq(Byte) /\ ToSet(InHand) \subseteq ToSet(returned \o InHand)
    BY <1>2, ElementsOfBoth
  <2>2. ToSet(Got) = ToSet(returned \o InHand) \cup ToSet(LeftOver)
    BY <1>2, <1>5, <2>1, ElementsOfBoth, ZenonT(60)
  <2> QED BY <2>1, <2>2
<1>8. GoesWithoutGap(Got)
  BY NoGap
<1>9. ToSet(dropped') \subseteq Offered'
  BY <1>3, <1>6, <1>7, <1>8 DEF ReadInv, GoesWithoutGap, Owed, Offered
<1>10. CASE Stands
  <2>1. PICK tail : tail = LeftOver \o arrived
    OBVIOUS
  <2>2. /\ tail \in Seq(Byte) /\ returned \o InHand \in Seq(Byte)
        /\ returned \in Seq(Byte) /\ LeftOver \in Seq(Byte) /\ arrived \in Seq(Byte)
    BY <1>2, <2>1, ConcatProperties
  <2>3. /\ Got \o arrived = (returned \o InHand) \o tail
        /\ Got' \o arrived' = returned \o tail
    <3>1. ((returned \o InHand) \o LeftOver) \o arrived = (returned \o InHand) \o tail
      BY ONLY <2>1, <2>2, Associative, SMTT(30)
    <3>2. (returned \o LeftOver) \o arrived = returned \o tail
      BY ONLY <2>1, <2>2, Associative
    <3> QED BY <1>5, <3>1, <3>2
  <2>4. InOrder(Got \o arrived) /\ ToSet(Got \o arrived) = Owed
    BY <1>10 DEF ReadInv
  <2>5. /\ InOrder(Got' \o arrived')
        /\ ToSet(Got' \o arrived') = ToSet(Got \o arrived) \ ToSet(InHand)
    BY <1>2, <2>2, <2>3, <2>4, WithoutMiddle
  <2> QED BY <1>4, <1>6, <1>9, <1>10, <2>4, <2>5 DEF ReadInv
<1>11. CASE ~Stands
  <2>1. InOrder(Got') /\ ToSet(Got') = ToSet(Got) \ ToSet(InHand)
    BY <1>2, <1>5, <1>8, WithoutMiddle DEF GoesWithoutGap
  <2>2. GoesWithoutGap(Got)'
    BY <1>6, <1>8, <2>1 DEF GoesWithoutGap
  <2> QED BY <1>4, <1>6, <1>9, <1>11, <2>2 DEF ReadInv
<1> QED BY <1>10, <1>11

(* The new byte comes after all that were offered before.                  *)
LEMMA PeerSendsKeeps == ASSUME ReadInv, PeerSends PROVE ReadInv'
<1> DEFINE new == <<connects, peerSent + 1>>
<1>1. /\ conn = "open" /\ peerSent < MaxArriving /\ peerSent' = peerSent + 1
      /\ arrived' = Append(arrived, new)
      /\ UNCHANGED <<conn, connects, buffer, alreadyRead, reader, returned, dropped, stale>>
  BY DEF PeerSends, connVars, readerVars
<1>2. /\ Got \in Seq(Byte) /\ arrived \in Seq(Byte) /\ connects \in Nat /\ peerSent \in Nat
      /\ MaxArriving \in Nat
  BY GotTypes, SocketAssumption DEF ReadInv
<1>3. new \in Byte /\ new[1] = connects /\ new[2] = peerSent + 1
  BY <1>2 DEF Byte
<1> HIDE DEF new
<1>4. arrived' \in Seq(Byte) /\ peerSent' \in 0 .. MaxArriving
  BY <1>1, <1>2, <1>3
<1>5. InTypes'
  BY <1>1, <1>4 DEF ReadInv, InTypes
<1>6. Stands /\ Stands' /\ Got' = Got
  BY <1>1 DEF Stands, Got, InHand, LeftOver
<1>7. FromPeer' = FromPeer \cup {new}
  <2>1. 1 .. peerSent + 1 = (1 .. peerSent) \cup {peerSent + 1}
    BY <1>2
  <2> QED BY <1>1, <2>1 DEF FromPeer, new
<1>8. ASSUME NEW b \in Offered PROVE Before(b, new)
  <2>1. b \in Byte /\ b[1] <= connects /\ (b[1] = connects => b[2] <= peerSent)
    BY OfferedBytes
  <2>2. b[1] \in Nat /\ b[2] \in Nat
    BY <2>1 DEF Byte
  <2> QED BY <1>2, <1>3, <2>1, <2>2 DEF Before
<1>9. new \notin Offered
  BY <1>3, <1>8, BeforeIsOrder
<1>10. Offered' = Offered \cup {new} /\ Owed' = Owed \cup {new}
  BY <1>1, <1>7, <1>9 DEF Offered, Owed, ReadInv
<1>11. PICK all, one : all = Got \o arrived /\ one = <<new>>
  OBVIOUS
<1>12. /\ all \in Seq(Byte) /\ one \in Seq(Byte) /\ ToSet(one) = {new} /\ InOrder(one)
  <2>1. all \in Seq(Byte)
    BY <1>2, <1>11, ConcatProperties
  <2>2. one \in Seq(Byte) /\ Len(one) = 1 /\ one[1] = new /\ DOMAIN one = 1 .. 1
    BY <1>3, <1>11
  <2>3. \A k \in 1 .. 1 : k = 1
    OBVIOUS
  <2> QED BY <2>1, <2>2, <2>3 DEF ToSet, InOrder
<1>13. InOrder(all) /\ ToSet(all) = Owed
  BY <1>6, <1>11 DEF ReadInv
<1>14. \A a \in ToSet(all), b \in ToSet(one) : Before(a, b)
  BY <1>8, <1>12, <1>13 DEF Owed, Offered
<1>15. InOrder(all \o one) /\ ToSet(all \o one) = Owed \cup {new}
  BY <1>12, <1>13, <1>14, OrderOfBoth, ElementsOfBoth
<1>16. Got' \o arrived' = all \o one
  <2>1. arrived' = arrived \o one
    BY <1>1, <1>2, <1>3, <1>11
  <2>2. (Got \o arrived) \o one = Got \o (arrived \o one)
    BY ONLY <1>2, <1>12, Associative
  <2> QED BY <1>6, <1>11, <2>1, <2>2
<1>17. InOrder(Got \o arrived)' /\ ToSet(Got \o arrived)' = Owed'
  BY <1>10, <1>15, <1>16
<1> QED BY <1>1, <1>5, <1>6, <1>10, <1>17 DEF ReadInv

(* What the buffer held comes first on the new connection.                 *)
LEMMA ConnectKeepsRead ==
  ASSUME ReadInv, NEW outcome \in ConnStates, Connect(outcome)
  PROVE  ReadInv'
<1>1. /\ reader = NotReading /\ reader' = NotReading /\ connects < MaxConnects
      /\ connects' = connects + 1 /\ conn' = outcome
      /\ arrived' = <<>> /\ peerSent' = 0 /\ returned' = <<>> /\ dropped' = <<>>
      /\ stale' = LeftOver /\ UNCHANGED <<buffer, alreadyRead>>
  BY DEF Connect
<1>2. /\ LeftOver \in Seq(Byte) /\ returned \in Seq(Byte) /\ InHand \in Seq(Byte)
      /\ connects \in Nat /\ MaxConnects \in Nat /\ MaxArriving \in Nat
      /\ returned \o InHand \in Seq(Byte)
  BY GotTypes, SocketAssumption DEF ReadInv
<1>3. <<>> \in Seq(Byte) /\ ToSet(<<>>) = {}
  BY DEF ToSet
<1>4. connects' \in 0 .. MaxConnects /\ peerSent' \in 0 .. MaxArriving
  BY <1>1, <1>2
<1>5. InTypes'
  <2>1. reader' \in ReaderType
    BY <1>1 DEF ReaderType, NotReading
  <2> QED BY <1>1, <1>2, <1>3, <1>4, <2>1 DEF ReadInv, InTypes
<1>6. Got' = LeftOver
  <2>1. InHand' = <<>>
    BY <1>1 DEF InHand, NotReading
  <2>2. <<>> \o <<>> = <<>> /\ <<>> \o LeftOver = LeftOver
    BY <1>2, <1>3, ConcatEmptySeq
  <2> QED BY <1>1, <2>1, <2>2 DEF Got, LeftOver
<1>7. InOrder(LeftOver) /\ ToSet(LeftOver) \subseteq Offered
  <2>1. GoesWithoutGap(Got)
    BY NoGap
  <2>2. PICK had : had = returned \o InHand
    OBVIOUS
  <2>3. had \in Seq(Byte) /\ Got = had \o LeftOver /\ InOrder(had \o LeftOver)
    BY <1>2, <2>1, <2>2 DEF Got, GoesWithoutGap
  <2>4. InOrder(LeftOver)
    BY <1>2, <2>3, OrderOfBoth
  <2>5. ToSet(Got) = ToSet(had) \cup ToSet(LeftOver)
    BY <1>2, <2>3, ElementsOfBoth
  <2> QED BY <2>1, <2>4, <2>5 DEF GoesWithoutGap, Owed, Offered
<1>8. ASSUME NEW b \in ToSet(LeftOver) PROVE b[1] < connects'
  <2>1. b \in Byte /\ b[1] <= connects
    BY <1>7, <1>8, OfferedBytes
  <2>2. b[1] \in Nat
    BY <2>1 DEF Byte
  <2> QED BY <1>1, <1>2, <2>1, <2>2
<1>9. FromPeer' = {} /\ Owed' = ToSet(LeftOver)
  <2>1. FromPeer' = {}
    BY <1>1 DEF FromPeer
  <2> QED BY <1>1, <1>3, <2>1 DEF Owed
<1>10. Got' \o arrived' = LeftOver
  BY <1>1, <1>2, <1>6, ConcatEmptySeq
<1>11. GoesWithoutGap(Got)'
  BY <1>6, <1>7, <1>9 DEF GoesWithoutGap
<1>12. InOrder(Got \o arrived)' /\ ToSet(Got \o arrived)' = Owed'
  BY <1>7, <1>9, <1>10
<1>13. ToSet(dropped)' \subseteq Offered'
  BY <1>1, <1>3
<1> QED BY <1>1, <1>5, <1>8, <1>11, <1>12, <1>13 DEF ReadInv

LEMMA ReaderFields ==
  ASSUME ReadInv
  PROVE  /\ reader \in ReaderType
         /\ reader.at \in {"recv", "poll"} =>
              /\ reader.left \in Nat \ {0} /\ reader.got \in Seq(Byte)
              /\ InHand = reader.got
         /\ reader.at \notin {"recv", "poll"} => InHand = <<>>
<1>1. reader \in ReaderType
  BY DEF ReadInv, InTypes
<1> QED BY <1>1 DEF ReaderType, InHand

LEMMA ReceiveKeeps ==
  ASSUME ReadInv, NEW wish \in Wishes, Receive(wish)
  PROVE  ReadInv'
<1>1. PICK data : data = Recv(wish).data
  OBVIOUS
<1>2. wish \in Nat \ {0} /\ data \in Seq(Byte)
  BY <1>1, SocketAssumption, RecvIs DEF ReadInv
<1>3. /\ reader = NotReading /\ reader' = reader /\ Take(Recv(wish))
      /\ returned' = returned \o data
      /\ UNCHANGED <<conn, connects, peerSent, dropped, stale>>
  BY <1>1 DEF Receive, connVars
<1>4. InHand = <<>> /\ InHand' = <<>>
  BY <1>3 DEF InHand, NotReading
<1>5. returned \in Seq(Byte) /\ reader' \in ReaderType
  BY <1>3 DEF ReadInv, InTypes
<1>6. returned' \in Seq(Byte)
  BY <1>2, <1>3, <1>5, ConcatProperties
<1>7. returned' \o InHand' = (returned \o InHand) \o data
  BY <1>3, <1>4, <1>5, <1>6, ConcatEmptySeq
<1> QED BY <1>1, <1>2, <1>3, <1>5, <1>6, <1>7, TakeKeeps

LEMMA HandlerReadsKeeps ==
  ASSUME ReadInv, NEW wish \in Wishes, HandlerReads(wish)
  PROVE  ReadInv'
<1>1. PICK data : data = Recv(wish).data
  OBVIOUS
<1>2. wish \in Nat \ {0} /\ data \in Seq(Byte)
  BY <1>1, SocketAssumption, RecvIs DEF ReadInv
<1>3. /\ reader.at = "handler" /\ Take(Recv(wish))
      /\ reader' \in {reader, NotReading, [at |-> "echo"]}
      /\ returned' = returned \o data
      /\ UNCHANGED <<conn, connects, peerSent, dropped, stale>>
  BY <1>1 DEF HandlerReads, connVars
<1>4. InHand = <<>> /\ InHand' = <<>>
  BY <1>3 DEF InHand, NotReading
<1>5. returned \in Seq(Byte) /\ reader' \in ReaderType
  BY <1>3 DEF ReadInv, InTypes, ReaderType, NotReading
<1>6. returned' \in Seq(Byte)
  BY <1>2, <1>3, <1>5, ConcatProperties
<1>7. returned' \o InHand' = (returned \o InHand) \o data
  BY <1>3, <1>4, <1>5, <1>6, ConcatEmptySeq
<1> QED BY <1>1, <1>2, <1>3, <1>5, <1>6, <1>7, TakeKeeps

(* One turn of receiveComplete: it goes on, returns, waits or fails.       *)
LEMMA TurnKeeps ==
  ASSUME ReadInv, reader.at = "recv", Take(Recv(reader.left)),
         UNCHANGED <<conn, connects, peerSent, stale>>,
         LET r == Recv(reader.left)
             got == reader.got \o r.data
         IN  \/ /\ r.result > 0 /\ r.result < reader.left
                /\ reader' = [at |-> "recv", left |-> reader.left - r.result, got |-> got]
                /\ UNCHANGED <<returned, dropped>>
             \/ ReceiveReturns(got) /\ UNCHANGED dropped
             \/ /\ r.result = -1
                /\ reader' = [reader EXCEPT !.at = "poll"]
                /\ UNCHANGED <<returned, dropped>>
             \/ r.result <= 0 /\ ReceiveFails(got) /\ UNCHANGED returned
  PROVE  ReadInv'
<1>1. /\ reader \in ReaderType /\ reader.left \in Nat \ {0} /\ reader.got \in Seq(Byte)
      /\ InHand = reader.got /\ returned \in Seq(Byte)
  BY ReaderFields DEF ReadInv, InTypes
<1>2. PICK r, got : r = Recv(reader.left) /\ got = reader.got \o r.data
  OBVIOUS
<1>3. /\ r.data \in Seq(Byte) /\ r.result \in Int
      /\ r.result <= 0 => /\ r.data = <<>> /\ r.buffer = buffer
                          /\ r.read = alreadyRead /\ r.arrived = arrived
  BY <1>1, <1>2, RecvIs DEF ReadInv
<1>4. got \in Seq(Byte)
  BY <1>1, <1>2, <1>3, ConcatProperties
<1>5. returned \o got = (returned \o InHand) \o r.data
  <2>1. returned \o (reader.got \o r.data) = (returned \o reader.got) \o r.data
    BY ONLY <1>1, <1>3, Associative
  <2> QED BY <1>1, <1>2, <2>1
<1>6. r.result <= 0 => UNCHANGED <<buffer, alreadyRead, arrived>> /\ got = reader.got
  <2>1. reader.got \o <<>> = reader.got
    BY <1>1, ConcatEmptySeq, SMTT(30)
  <2> QED BY <1>2, <1>3, <2>1 DEF Take
<1>7. CASE /\ r.result > 0 /\ r.result < reader.left
           /\ reader' = [at |-> "recv", left |-> reader.left - r.result, got |-> got]
           /\ UNCHANGED <<returned, dropped>>
  <2>1. reader.left - r.result \in Nat \ {0}
    BY <1>1, <1>3, <1>7
  <2>2. reader' \in ReaderType /\ InHand' = got
    BY <1>4, <1>7, <2>1 DEF ReaderType, InHand
  <2> QED BY <1>1, <1>2, <1>5, <1>7, <2>2, TakeKeeps
<1>8. CASE ReceiveReturns(got) /\ UNCHANGED dropped
  <2>1. returned' = returned \o got /\ reader' = NotReading
    BY <1>8 DEF ReceiveReturns
  <2>2. reader' \in ReaderType /\ InHand' = <<>>
    BY <2>1 DEF ReaderType, InHand, NotReading
  <2>3. returned' \in Seq(Byte) /\ returned' \o InHand' = returned \o got
    BY <1>1, <1>4, <2>1, <2>2, ConcatProperties, ConcatEmptySeq
  <2> QED BY <1>1, <1>2, <1>5, <1>8, <2>2, <2>3, TakeKeeps
<1>9. CASE /\ r.result = -1 /\ reader' = [reader EXCEPT !.at = "poll"]
           /\ UNCHANGED <<returned, dropped>>
  <2>1. reader' \in ReaderType /\ InHand' = InHand
    <3>1. reader \in [at : {"recv", "poll"}, left : Nat \ {0}, got : Seq(Byte)]
      BY <1>1 DEF ReaderType
    <3>2. /\ reader' \in [at : {"recv", "poll"}, left : Nat \ {0}, got : Seq(Byte)]
          /\ reader'.at = "poll" /\ reader'.got = reader.got
      BY <1>9, <3>1
    <3> QED BY <1>1, <3>2 DEF ReaderType, InHand
  <2>2. Stands' = Stands /\ conn' \in ConnStates
    BY DEF Stands, ReadInv, InTypes
  <2> QED BY <1>6, <1>9, <2>1, <2>2, BytesStay
<1>10. CASE r.result <= 0 /\ ReceiveFails(got) /\ UNCHANGED returned
  BY <1>6, <1>10, DropKeeps
<1> QED BY <1>2, <1>7, <1>8, <1>9, <1>10

LEMMA ReceiveMoreKeeps == ASSUME ReadInv, ReceiveMore PROVE ReadInv'
<1>1. reader.at = "recv" /\ UNCHANGED <<conn, connects, peerSent, stale>>
  BY DEF ReceiveMore, connVars
<1>2. Take(Recv(reader.left))
  BY DEF ReceiveMore
<1>3. -1 <= 0
  OBVIOUS
<1> QED BY <1>1, <1>2, <1>3, TurnKeeps DEF ReceiveMore

LEMMA WinReceiveMoreKeeps == ASSUME ReadInv, WinReceiveMore PROVE ReadInv'
<1>1. reader.at = "recv" /\ UNCHANGED <<conn, connects, peerSent, stale>>
  BY DEF WinReceiveMore, connVars
<1>2. Take(Recv(reader.left))
  BY DEF WinReceiveMore
<1>3. -1 <= 0 /\ 0 <= 0
  OBVIOUS
<1> QED BY <1>1, <1>2, <1>3, TurnKeeps DEF WinReceiveMore

LEMMA WaitToReceiveKeeps == ASSUME ReadInv, WaitToReceive PROVE ReadInv'
<1>1. /\ reader.at = "poll"
      /\ UNCHANGED <<conn, connects, peerSent, stale, arrived, buffer, alreadyRead>>
  BY DEF WaitToReceive, connVars, peerVars
<1>2. CASE reader' = [reader EXCEPT !.at = "recv"] /\ UNCHANGED <<returned, dropped>>
  <2>1. reader \in [at : {"recv", "poll"}, left : Nat \ {0}, got : Seq(Byte)]
    BY <1>1, ReaderFields DEF ReaderType
  <2>2. /\ reader' \in [at : {"recv", "poll"}, left : Nat \ {0}, got : Seq(Byte)]
        /\ reader'.at = "recv" /\ reader'.got = reader.got
    BY <1>2, <2>1
  <2>3. reader' \in ReaderType /\ InHand' = InHand
    BY <1>1, <2>2 DEF ReaderType, InHand
  <2>4. Stands' = Stands /\ conn' \in ConnStates
    BY <1>1 DEF Stands, ReadInv, InTypes
  <2> QED BY <1>1, <1>2, <2>3, <2>4, BytesStay
<1>3. CASE ReceiveFails(reader.got) /\ UNCHANGED returned
  BY <1>1, <1>3, DropKeeps
<1> QED BY <1>2, <1>3 DEF WaitToReceive

-------------------------------------------------------------------------------
(* The steps of both systems.                                              *)

LoopTypes ==
  dataHandler \in Handlers /\ edge \in BOOLEAN /\ peerClosed \in BOOLEAN /\ waitFailed \in BOOLEAN

SocketInv == SendInv /\ ReadInv /\ LoopTypes

(* Sending, and what the peer does about it, leaves reading alone.         *)
LEMMA ReadUnmoved ==
  ASSUME ReadInv, UNCHANGED <<connVars, readerVars, arrived, peerSent>>
  PROVE  ReadInv'
<1>1. UNCHANGED <<conn, connects, arrived, peerSent, buffer, alreadyRead, reader,
                  returned, dropped, stale>>
  BY DEF connVars, readerVars
<1>2. InHand' = InHand /\ Stands' = Stands /\ reader' \in ReaderType /\ conn' \in ConnStates
  BY <1>1 DEF InHand, Stands, ReadInv, InTypes
<1> QED BY <1>1, <1>2, BytesStay

(* A reader that has nothing in hand, before or after.                     *)
LEMMA ReaderMoves ==
  ASSUME ReadInv, reader.at \notin {"recv", "poll"}, reader' \in ReaderType, InHand' = <<>>,
         UNCHANGED <<connVars, arrived, peerSent, buffer, alreadyRead, returned, dropped, stale>>
  PROVE  ReadInv'
<1>1. UNCHANGED <<conn, connects, arrived, peerSent, buffer, alreadyRead,
                  returned, dropped, stale>>
  BY DEF connVars
<1>2. InHand' = InHand /\ Stands' = Stands /\ conn' \in ConnStates
  BY <1>1, ReaderFields DEF Stands, ReadInv, InTypes
<1> QED BY <1>1, <1>2, BytesStay

LEMMA ConnectionKeeps ==
  ASSUME SocketInv, ConnectionSteps
  PROVE  SocketInv'
<1>1. SendInv /\ ReadInv /\ LoopTypes
  BY DEF SocketInv
<1>2. ASSUME NEW outcome \in ConnStates, Connect(outcome) PROVE SocketInv'
  <2>1. LoopTypes'
    BY <1>2 DEF Connect, LoopTypes, Handlers
  <2> QED BY <1>1, <1>2, <2>1, ConnectKeepsSend, ConnectKeepsRead DEF SocketInv
<1>3. CASE ConnectLate
  <2>1. UNCHANGED <<connects, outVars, readerVars, peerVars, loopVars>> /\ conn' = "open"
        /\ Stands /\ Stands' /\ conn' \in ConnStates
    BY <1>3 DEF ConnectLate, Stands, ConnStates
  <2>2. SendInv'
    BY <1>1, <2>1, SendStays
  <2>3. UNCHANGED <<arrived, peerSent, buffer, alreadyRead, reader, returned, dropped, stale>>
    BY <2>1 DEF readerVars, peerVars
  <2>4. InHand' = InHand /\ reader' \in ReaderType
    BY <1>1, <2>3 DEF InHand, ReadInv, InTypes
  <2>5. ReadInv'
    BY <1>1, <2>1, <2>3, <2>4, BytesStay
  <2>6. LoopTypes'
    BY <1>1, <2>1 DEF LoopTypes, loopVars, peerVars, outVars
  <2> QED BY <2>2, <2>5, <2>6 DEF SocketInv
<1>4. CASE Disconnect
  <2>1. /\ UNCHANGED <<connects, outVars, readerVars, peerVars>>
        /\ conn' = "none" /\ ~Stands' /\ conn' \in ConnStates
        /\ dataHandler' = "none" /\ edge' = FALSE
    BY <1>4 DEF Disconnect, Stands, ConnStates
  <2>2. SendInv'
    BY <1>1, <2>1, SendStays
  <2>3. ReadInv'
    <3>1. arrived' = arrived /\ arrived \in Seq(Byte)
      BY <1>1, <2>1 DEF peerVars, ReadInv, InTypes
    <3> QED BY <1>1, <2>1, <3>1, LostKeeps DEF readerVars, peerVars
  <2>4. LoopTypes'
    BY <1>1, <2>1 DEF LoopTypes, Handlers, peerVars, outVars
  <2> QED BY <2>2, <2>3, <2>4 DEF SocketInv
<1>5. CASE Break
  <2>1. /\ UNCHANGED <<connects, outVars, readerVars, peerSent, peerClosed, dataHandler>>
        /\ conn' = "broken" /\ ~Stands' /\ conn' \in ConnStates
        /\ arrived' = <<>> /\ edge' = (dataHandler # "none")
    BY <1>5 DEF Break, Stands, ConnStates
  <2>2. SendInv'
    BY <1>1, <2>1, SendStays
  <2>3. ReadInv'
    <3>1. arrived' \in Seq(Byte)
      BY <2>1
    <3> QED BY <1>1, <2>1, <3>1, LostKeeps DEF readerVars
  <2>4. LoopTypes'
    BY <1>1, <2>1, SMTT(30) DEF LoopTypes, Handlers, outVars
  <2> QED BY <2>2, <2>3, <2>4 DEF SocketInv
<1> QED BY <1>2, <1>3, <1>4, <1>5 DEF ConnectionSteps

LEMMA SendingElsewhere ==
  ASSUME SendingSteps \/ WinSendingSteps
  PROVE  UNCHANGED <<connVars, readerVars, peerVars, loopVars>>
BY Zenon DEF SendingSteps, WinSendingSteps, SendBlocks, WinSendBlocks, UserSendBlock, WriteV, WSASend,
       NextRest, Send, WinSend, WaitToSend, WaitToSendFails, PeerReads

LEMMA SendingKeeps ==
  ASSUME SocketInv, SendingSteps \/ WinSendingSteps
  PROVE  SocketInv'
<1>1. SendInv /\ ReadInv /\ LoopTypes
  BY DEF SocketInv
<1>2. UNCHANGED <<connVars, readerVars, peerVars, loopVars>>
  BY SendingElsewhere, Zenon
<1>3. waitFailed' = waitFailed \/ waitFailed' = TRUE
  BY Zenon DEF SendingSteps, WinSendingSteps, SendBlocks, WinSendBlocks, UserSendBlock, SendBlock, WriteV,
         WSASend, NextRest, Send, WinSend, WaitToSend, WaitToSendFails, PeerReads
<1>4. LoopTypes'
  BY <1>1, <1>2, <1>3, Zenon DEF LoopTypes, loopVars, peerVars
<1>5. ReadInv'
  BY <1>1, <1>2, ReadUnmoved DEF peerVars
<1>6. ASSUME NEW blocks \in Messages, SendBlocks(blocks) \/ WinSendBlocks(blocks)
      PROVE  SendInv'
  BY <1>1, <1>6, LinuxSendBlocksKeeps, WindowsSendBlocksKeeps
<1>7. ASSUME NEW size \in Wishes, UserSendBlock(size) PROVE SendInv'
  <2>1. size \in Nat
    BY SocketAssumption
  <2> QED BY <1>1, <1>2, <1>7, <2>1, SendBlockKeeps DEF UserSendBlock
<1>8. ASSUME \/ WriteV \/ WSASend \/ NextRest \/ Send \/ WinSend
             \/ WaitToSend \/ WaitToSendFails \/ PeerReads
      PROVE  SendInv'
  BY <1>1, <1>8, WriteVKeeps, WSASendKeeps, NextRestKeeps, SendKeeps, WinSendKeeps,
     WaitToSendKeeps, PeerReadsKeepsSend
<1>9. SendInv'
  BY <1>6, <1>7, <1>8 DEF SendingSteps, WinSendingSteps
<1> QED BY <1>4, <1>5, <1>9 DEF SocketInv

(* What leaves the connection and sending alone.                           *)
LEMMA SendUnmoved ==
  ASSUME SocketInv, UNCHANGED <<connVars, outVars>>
  PROVE  SendInv'
<1>1. UNCHANGED <<conn, connects>> /\ SendInv
  BY DEF SocketInv, connVars
<1>2. conn' \in ConnStates /\ (Stands' => Stands)
  BY <1>1 DEF SendInv, OutTypes, Stands
<1> QED BY <1>1, <1>2, SendStays

LEMMA ReceivingKeeps ==
  ASSUME SocketInv, ReceivingSteps \/ WinReceivingSteps
  PROVE  SocketInv'
<1>1. SendInv /\ ReadInv /\ LoopTypes
  BY DEF SocketInv
<1>2. UNCHANGED <<connVars, outVars>>
  BY DEF ReceivingSteps, WinReceivingSteps, Receive, ReceiveComplete, ReceiveMore,
         WinReceiveMore, WaitToReceive, PeerSends, PeerCloses
<1>3. SendInv'
  BY <1>2, SendUnmoved
<1>4. /\ dataHandler' = dataHandler /\ waitFailed' = waitFailed
      /\ peerClosed' = peerClosed \/ peerClosed' = TRUE
      /\ edge' = edge \/ edge' = (dataHandler # "none")
  BY <1>2 DEF ReceivingSteps, WinReceivingSteps, Receive, ReceiveComplete, ReceiveMore,
         WinReceiveMore, WaitToReceive, PeerSends, PeerCloses, loopVars, peerVars, outVars
<1>5. LoopTypes'
  BY <1>1, <1>4, Zenon DEF LoopTypes
<1>6. ASSUME NEW wish \in Wishes, ReceiveComplete(wish) PROVE ReadInv'
  <2>1. /\ reader = NotReading /\ reader' = [at |-> "recv", left |-> wish, got |-> <<>>]
        /\ UNCHANGED <<connVars, arrived, peerSent, buffer, alreadyRead, returned, dropped, stale>>
    BY <1>6 DEF ReceiveComplete, peerVars
  <2>2. wish \in Nat \ {0} /\ <<>> \in Seq(Byte)
    BY SocketAssumption
  <2>3. reader' \in ReaderType /\ InHand' = <<>> /\ reader.at \notin {"recv", "poll"}
    BY <2>1, <2>2 DEF ReaderType, InHand, NotReading
  <2> QED BY <1>1, <2>1, <2>3, ReaderMoves
<1>7. ASSUME PeerCloses PROVE ReadInv'
  BY <1>1, <1>7, ReadUnmoved DEF PeerCloses
<1>8. ReadInv'
  BY <1>1, <1>6, <1>7, ReceiveKeeps, ReceiveMoreKeeps, WinReceiveMoreKeeps,
     WaitToReceiveKeeps, PeerSendsKeeps DEF ReceivingSteps, WinReceivingSteps
<1> QED BY <1>3, <1>5, <1>8 DEF SocketInv

LEMMA HandlingKeeps ==
  ASSUME SocketInv,
         \/ \E handler \in Handlers : SetDataCb(handler) \/ WinSetDataCb(handler)
         \/ HandleEdge \/ WinHandleEdge \/ EchoSent
         \/ \E wish \in Wishes : HandlerReads(wish)
  PROVE  SocketInv'
<1>1. SendInv /\ ReadInv /\ LoopTypes
  BY DEF SocketInv
<1>2. ASSUME NEW handler \in Handlers, SetDataCb(handler) \/ WinSetDataCb(handler)
      PROVE  SocketInv'
  <2>1. /\ UNCHANGED <<connVars, outVars, readerVars, peerVars>> /\ dataHandler' = handler
        /\ \/ edge' = (handler # "none")
           \/ edge' = (arrived # <<>> \/ peerClosed \/ conn = "broken")
    BY <1>2 DEF SetDataCb, WinSetDataCb
  <2>2. LoopTypes'
    <3>1. edge' \in BOOLEAN
      BY <2>1, Zenon
    <3>2. waitFailed' = waitFailed /\ peerClosed' = peerClosed
      BY <2>1 DEF outVars, peerVars
    <3> QED BY <1>1, <2>1, <3>1, <3>2 DEF LoopTypes
  <2>3. ReadInv'
    BY <1>1, <2>1, ReadUnmoved DEF peerVars
  <2> QED BY <2>1, <2>2, <2>3, SendUnmoved DEF SocketInv
<1>3. ASSUME HandleEdge \/ WinHandleEdge \/ EchoSent PROVE SocketInv'
  <2>1. /\ UNCHANGED <<connVars, outVars, buffer, alreadyRead, returned, dropped, stale,
                       peerVars, dataHandler>>
        /\ reader' \in {NotReading, [at |-> "handler"]}
        /\ reader.at \notin {"recv", "poll"} /\ (edge' = FALSE \/ edge' = edge)
    <3>1. /\ UNCHANGED <<connVars, outVars, buffer, alreadyRead, returned, dropped, stale,
                         peerVars, dataHandler>>
          /\ edge' = FALSE \/ edge' = edge
      BY <1>3, Zenon DEF HandleEdge, WinHandleEdge, EchoSent, loopVars
    <3>2. reader' \in {NotReading, [at |-> "handler"]}
      BY <1>3, Zenon DEF HandleEdge, WinHandleEdge, EchoSent
    <3>3. reader = NotReading \/ reader.at = "echo"
      BY <1>3, Zenon DEF HandleEdge, WinHandleEdge, EchoSent
    <3> QED BY <3>1, <3>2, <3>3 DEF NotReading
  <2>2. LoopTypes'
    BY <1>1, <2>1, Zenon DEF LoopTypes, outVars, peerVars
  <2>3. reader' \in ReaderType /\ InHand' = <<>>
    BY <2>1 DEF ReaderType, InHand, NotReading
  <2>4. ReadInv'
    BY <1>1, <2>1, <2>3, ReaderMoves DEF peerVars
  <2> QED BY <2>1, <2>2, <2>4, SendUnmoved DEF SocketInv
<1>4. ASSUME NEW wish \in Wishes, HandlerReads(wish) PROVE SocketInv'
  <2>1. /\ UNCHANGED <<connVars, peerClosed, loopVars>>
        /\ UNCHANGED outVars \/ (Recv(wish).result > 0 /\ SendBlock(Recv(wish).result))
    BY <1>4 DEF HandlerReads
  <2>2. waitFailed' = waitFailed
    BY <2>1 DEF outVars, SendBlock
  <2>3. LoopTypes'
    BY <1>1, <2>1, <2>2 DEF LoopTypes, loopVars
  <2>4. SendInv'
    <3>1. CASE UNCHANGED outVars
      BY <2>1, <3>1, SendUnmoved
    <3>2. CASE Recv(wish).result > 0 /\ SendBlock(Recv(wish).result)
      <4>1. wish \in Nat \ {0}
        BY SocketAssumption
      <4>2. PICK result : result = Recv(wish).result
        OBVIOUS
      <4>3. result \in Int
        BY <1>1, <4>1, <4>2, RecvIs DEF ReadInv
      <4>4. result \in Nat /\ SendBlock(result)
        BY <3>2, <4>2, <4>3
      <4> QED BY <1>1, <2>1, <4>4, SendBlockKeeps
    <3> QED BY <2>1, <3>1, <3>2
  <2>5. ReadInv'
    BY <1>1, <1>4, HandlerReadsKeeps
  <2> QED BY <2>3, <2>4, <2>5 DEF SocketInv
<1> QED BY <1>2, <1>3, <1>4

LEMMA StepKeeps ==
  ASSUME SocketInv, [SocketNext \/ WinSocketNext]_socketVars
  PROVE  SocketInv'
<1>1. CASE UNCHANGED socketVars
  <2>1. UNCHANGED <<connVars, outVars, readerVars, peerVars, loopVars>>
    BY <1>1 DEF socketVars
  <2>2. ReadInv'
    BY <2>1, ReadUnmoved DEF SocketInv, peerVars
  <2>3. LoopTypes'
    BY <2>1 DEF SocketInv, LoopTypes, outVars, peerVars, loopVars
  <2> QED BY <2>1, <2>2, <2>3, SendUnmoved DEF SocketInv
<1>2. CASE ConnectionSteps \/ WinConnectionSteps
  BY <1>2, ConnectionKeeps DEF ConnectionSteps, WinConnectionSteps, WinConnect, WinDisconnect
<1>3. CASE SendingSteps \/ WinSendingSteps
  BY <1>3, SendingKeeps
<1>4. CASE ReceivingSteps \/ WinReceivingSteps
  BY <1>4, ReceivingKeeps
<1>5. CASE HandlerSteps \/ WinHandlerSteps
  BY <1>5, HandlingKeeps DEF HandlerSteps, WinHandlerSteps, Handlers
<1>6. CASE EchoSteps \/ WinEchoSteps
  <2>1. \/ SetDataCb("echo") \/ WinSetDataCb("echo")
        \/ HandleEdge \/ WinHandleEdge \/ EchoSent
        \/ \E wish \in Wishes : HandlerReads(wish)
        \/ SendingSteps \/ WinSendingSteps \/ ReceivingSteps
    BY <1>6 DEF EchoSteps, WinEchoSteps, SendingSteps, WinSendingSteps, ReceivingSteps
  <2> QED BY <2>1, SendingKeeps, ReceivingKeeps, HandlingKeeps DEF Handlers
<1> QED BY <1>1, <1>2, <1>3, <1>4, <1>5, <1>6 DEF SocketNext, WinSocketNext

LEMMA InitHolds == SocketInit => SocketInv
<1> SUFFICES ASSUME SocketInit PROVE SocketInv
  OBVIOUS
<1>1. /\ conn = "none" /\ connects = 0 /\ wire = <<>> /\ peerRead = 0 /\ arrived = <<>>
      /\ peerSent = 0 /\ buffer = <<>> /\ alreadyRead = 0 /\ sender = NotSending /\ sends = <<>>
      /\ handedOver = 0 /\ reader = NotReading
      /\ returned = <<>> /\ dropped = <<>> /\ stale = <<>>
  BY DEF SocketInit
<1>2. 0 \in 0 .. MaxConnects /\ 0 \in 0 .. MaxArriving /\ 0 <= ReadBuffer
  BY SocketAssumption
<1>3. \A S : <<>> \in Seq(S)
  OBVIOUS
<1>4. Len(<<>>) = 0 /\ 0 \in 0 .. 0 /\ DOMAIN <<>> = {} /\ ToSet(<<>>) = {} /\ <<>> \o <<>> = <<>>
  BY DEF ToSet
<1>5. ~Stands
  BY <1>1 DEF Stands
<1>6. SendInv
  <2>1. OutTypes
    BY <1>1, <1>2, <1>3, <1>4 DEF OutTypes, ConnStates, SenderType
  <2>2. Logged /\ Counted
    BY <1>1, <1>4 DEF Logged, Counted
  <2> QED BY <1>5, <2>1, <2>2 DEF SendInv
<1>7. ReadInv
  <2>1. InTypes
    BY <1>1, <1>2, <1>3, <1>4 DEF InTypes, ConnStates, ReaderType, NotReading
  <2>2. LeftOver = <<>> /\ InHand = <<>>
    BY <1>1 DEF LeftOver, InHand, NotReading
  <2>3. Got = <<>>
    BY <1>1, <1>4, <2>2 DEF Got
  <2>4. GoesWithoutGap(Got)
    BY <1>4, <2>3 DEF GoesWithoutGap, InOrder
  <2> QED BY <1>1, <1>4, <1>5, <2>1, <2>4 DEF ReadInv
<1>8. LoopTypes
  BY DEF SocketInit, LoopTypes, Handlers
<1> QED BY <1>6, <1>7, <1>8 DEF SocketInv

-------------------------------------------------------------------------------
(* What the invariant says.                                                *)

LEMMA InvTypes == SocketInv => SocketTypeOK
<1> SUFFICES ASSUME SocketInv PROVE SocketTypeOK
  OBVIOUS
<1>1. OutTypes /\ InTypes /\ LoopTypes
  BY DEF SocketInv, SendInv, ReadInv
<1>2. /\ conn \in ConnStates /\ connects \in 0 .. MaxConnects /\ peerRead \in 0 .. Len(wire)
      /\ alreadyRead \in 0 .. Len(buffer) /\ Len(buffer) <= ReadBuffer
      /\ peerSent \in 0 .. MaxArriving
  BY <1>1 DEF OutTypes, InTypes
<1>3. sender.at \in {"idle", "writev", "rest", "send", "poll"}
  BY <1>1 DEF OutTypes, SenderType, BlockType, NotSending
<1>4. reader.at \in {"idle", "recv", "poll", "handler", "echo"}
  BY <1>1 DEF InTypes, ReaderType
<1>5. dataHandler \in Handlers /\ {edge, peerClosed, waitFailed} \subseteq BOOLEAN
  BY <1>1, Zenon DEF LoopTypes
<1> QED BY <1>2, <1>3, <1>4, <1>5 DEF SocketTypeOK

LEMMA InvWhole == SocketInv => WholeMessages
<1> SUFFICES ASSUME SocketInv, conn = "open", ~waitFailed
             PROVE  /\ Ascending(wire)
                    /\ IF sender = NotSending
                       THEN ToSet(wire) = WholeBytes
                       ELSE \E n \in 0 .. Total(sender.sizes) :
                              ToSet(wire) = WholeBytes \cup (sender.first + 1 .. sender.first + n)
  BY DEF WholeMessages
<1>1. OutTypes /\ Counted /\ OnWire
  BY DEF SocketInv, SendInv, Stands
<1>2. ToSet(wire) = WholeBytes \cup (Fresh + 1 .. Fresh + Done(sender))
  BY <1>1 DEF OnWire
<1>3. CASE sender = NotSending
  <2>1. Done(sender) = 0 /\ Fresh \in Nat
    BY <1>1, <1>3, FreshType DEF Done, NotSending
  <2>2. \A f \in Nat : f + 1 .. f + 0 = {}
    OBVIOUS
  <2>3. Fresh + 1 .. Fresh + Done(sender) = {}
    BY <2>1, <2>2
  <2> QED BY <1>1, <1>2, <1>3, <2>3 DEF OnWire
<1>4. CASE sender # NotSending
  <2>1. sender \in SenderType /\ Fits(sender) /\ Fresh = sender.first
    BY <1>1, <1>4 DEF OutTypes, Counted, Fresh
  <2>2. Done(sender) \in 0 .. Total(sender.sizes)
    BY <1>4, <2>1, DoneBounded
  <2> QED BY <1>1, <1>2, <1>4, <2>1, <2>2 DEF OnWire
<1> QED BY <1>3, <1>4

LEMMA InvNothingSkipped == SocketInv => NothingSkipped
<1> SUFFICES ASSUME SocketInv PROVE NothingSkipped
  OBVIOUS
<1>1. ReadInv
  BY DEF SocketInv
<1>2. CASE conn = "open"
  BY <1>1, <1>2 DEF ReadInv, Stands, NothingSkipped
<1>3. CASE conn # "open"
  BY <1>1, <1>3, NoGap DEF GoesWithoutGap, NothingSkipped
<1> QED BY <1>2, <1>3

LEMMA LinuxInv == SocketSpec => []SocketInv
<1>1. SocketInv /\ [SocketNext]_socketVars => SocketInv'
  BY StepKeeps
<1> QED BY <1>1, InitHolds, PTL DEF SocketSpec

LEMMA WindowsInv == WinSocketSpec => []SocketInv
<1>1. SocketInv /\ [WinSocketNext]_socketVars => SocketInv'
  BY StepKeeps
<1> QED BY <1>1, InitHolds, PTL DEF WinSocketSpec

(* The states are of the kinds socketnonblocking.cpp and bufferedreader.cpp*)
(* know, and the read position never leaves the buffer, on Linux.          *)
THEOREM SocketTypeCorrect == SocketSpec => []SocketTypeOK
BY LinuxInv, InvTypes, PTL

(* The same on Windows.                                                    *)
THEOREM WinSocketTypeCorrect == WinSocketSpec => []SocketTypeOK
BY WindowsInv, InvTypes, PTL

(* However writev and send of linux/socketnonblocking.cpp cut up the       *)
(* blocks: while the connection stands and poll has not failed, the peer   *)
(* is sent every call's bytes in order, in whole or not at all.            *)
THEOREM MessagesStayWhole == SocketSpec => []WholeMessages
BY LinuxInv, InvWhole, PTL

(* The same of WSASend and send of windows/socketnonblocking.cpp.          *)
THEOREM WinMessagesStayWhole == WinSocketSpec => []WholeMessages
BY WindowsInv, InvWhole, PTL

(* Whatever BufferedReader::recv, receive, receiveComplete and process do  *)
(* with the buffer, on Linux: the callers get what the peer sent, in order,*)
(* without a gap and nothing twice.                                        *)
THEOREM ReadingSkipsNothing == SocketSpec => []NothingSkipped
BY LinuxInv, InvNothingSkipped, PTL

(* The same on Windows, where an orderly close drops what is in hand.      *)
THEOREM WinReadingSkipsNothing == WinSocketSpec => []NothingSkipped
BY WindowsInv, InvNothingSkipped, PTL
-------------------------------------------------------------------------------
(* Refinement of ByteStream.                                               *)

(* Two sequences one after the other, cut where the second one begins.     *)
LEMMA FrontAndRest ==
  ASSUME NEW s \in Seq(Byte), NEW t \in Seq(Byte), NEW u, u = s \o t
  PROVE  /\ u \in Seq(Byte) /\ Len(s) \in 0 .. Len(u)
         /\ SubSeq(u, 1, Len(s)) = s
         /\ SubSeq(u, Len(s) + 1, Len(u)) = t
<1>1. u \in Seq(Byte) /\ Len(u) = Len(s) + Len(t) /\ Len(s) \in Nat /\ Len(t) \in Nat
  BY ConcatProperties
<1>2. Len(s) \in 0 .. Len(u)
  BY <1>1
<1>3. SubSeq(u, 1, Len(s)) = s
  <2>1. CASE Len(s) = 0
    BY <2>1, SubSeqEmpty
  <2>2. CASE Len(s) > 0
    <3>1. 1 \in 1 .. Len(s) /\ Len(s) \in 1 .. Len(s)
      BY <1>1, <2>2
    <3> QED BY <3>1, SubSeqOfConcat1, SubSeqFull
  <2> QED BY <1>1, <2>1, <2>2
<1>4. SubSeq(u, Len(s) + 1, Len(u)) = t
  <2>1. CASE Len(t) = 0
    <3>1. Len(s) + 1 \in Int /\ Len(u) \in Int /\ Len(u) < Len(s) + 1
      BY <1>1, <2>1
    <3> QED BY <2>1, <3>1, SubSeqEmpty
  <2>2. CASE Len(t) > 0
    <3>1. /\ Len(s) + 1 \in Len(s) + 1 .. Len(s) + Len(t)
          /\ Len(s) + Len(t) \in Len(s) + 1 .. Len(s) + Len(t)
          /\ (Len(s) + 1) - Len(s) = 1 /\ (Len(s) + Len(t)) - Len(s) = Len(t)
      BY <1>1, <2>2
    <3>2. SubSeq(s \o t, Len(s) + 1, Len(s) + Len(t)) = SubSeq(t, 1, Len(t))
      BY <3>1, SubSeqOfConcat2
    <3> QED BY <1>1, <3>2, SubSeqFull
  <2> QED BY <1>1, <2>1, <2>2
<1> QED BY <1>1, <1>2, <1>3, <1>4

(* Nothing comes, goes or is lost.                                         *)
LEMMA StreamStays ==
  ASSUME UNCHANGED <<connects, peerSent, returned, dropped>>, Outstanding' = Outstanding
  PROVE  [Stream!Next]_(Stream!streamVars)
BY DEF Stream!streamVars

LEMMA SameOutstanding ==
  ASSUME UNCHANGED <<arrived, buffer, alreadyRead>>, InHand' = InHand
  PROVE  Outstanding' = Outstanding
BY DEF Outstanding, LeftOver

(* The first bytes to come are taken, or lost.                             *)
LEMMA BytesLeave ==
  ASSUME NEW front \in Seq(Byte), NEW rest \in Seq(Byte),
         Outstanding = front \o rest, Outstanding' = rest,
         UNCHANGED <<connects, peerSent>>, returned \in Seq(Byte), dropped \in Seq(Byte),
         \/ returned' = returned \o front /\ dropped' = dropped
         \/ dropped' = dropped \o front /\ returned' = returned
  PROVE  [Stream!Next]_(Stream!streamVars)
<1>1. CASE front = <<>>
  <2>1. /\ Outstanding' = Outstanding
        /\ returned \o front = returned /\ dropped \o front = dropped
    BY <1>1, ConcatEmptySeq
  <2> QED BY <2>1, StreamStays
<1>2. CASE front # <<>>
  <2>1. /\ Len(front) \in 0 .. Len(Outstanding)
        /\ SubSeq(Outstanding, 1, Len(front)) = front
        /\ SubSeq(Outstanding, Len(front) + 1, Len(Outstanding)) = rest
        /\ Outstanding \in Seq(Byte)
    BY FrontAndRest
  <2>2. Len(front) \in 1 .. Len(Outstanding)
    <3>1. Len(front) \in Nat /\ Len(front) # 0
      BY <1>2
    <3> QED BY <2>1, <3>1
  <2>3. Stream!Front(Len(front)) = front
    BY <2>1 DEF Stream!Front
  <2>4. Stream!Take(Len(front)) \/ Stream!Lose(Len(front))
    BY <2>3 DEF Stream!Take, Stream!Lose
  <2>5. Stream!Leave
    BY <2>1, <2>2, <2>4 DEF Stream!Leave
  <2> QED BY <2>5 DEF Stream!Next
<1> QED BY <1>1, <1>2

(* A recv moves bytes from what the kernel and the buffer hold to those    *)
(* who asked for them, who keep, return or drop them.                      *)
LEMMA TakeStreams ==
  ASSUME ReadInv, NEW wish \in Nat \ {0}, Take(Recv(wish)), UNCHANGED <<connects, peerSent>>,
         NEW got, got = InHand \o Recv(wish).data,
         \/ InHand' = got /\ UNCHANGED <<returned, dropped>>
         \/ InHand' = <<>> /\ returned' = returned \o got /\ UNCHANGED dropped
         \/ InHand' = <<>> /\ dropped' = dropped \o got /\ UNCHANGED returned
  PROVE  [Stream!Next]_(Stream!streamVars)
<1>1. PICK r, data, rest, more, hand :
        r = Recv(wish) /\ data = r.data /\ rest = Rest(r) /\ more = r.arrived /\ hand = InHand
  OBVIOUS
<1>2. /\ data \in Seq(Byte) /\ rest \in Seq(Byte) /\ more \in Seq(Byte)
      /\ (data \o rest) \o more = LeftOver \o arrived
  BY <1>1, RecvIs DEF ReadInv
<1>3. LeftOver' = rest /\ arrived' = more
  BY <1>1 DEF Take, LeftOver, Rest
<1>4. /\ hand \in Seq(Byte) /\ LeftOver \in Seq(Byte) /\ arrived \in Seq(Byte)
      /\ returned \in Seq(Byte) /\ dropped \in Seq(Byte) /\ got = hand \o data
  BY <1>1, GotTypes DEF ReadInv, InTypes
<1>5. got \in Seq(Byte) /\ rest \o more \in Seq(Byte) /\ data \o rest \in Seq(Byte)
  BY <1>2, <1>4, ConcatProperties, SMTT(30)
<1>6. Outstanding = got \o (rest \o more)
  <2>1. (hand \o LeftOver) \o arrived = hand \o (LeftOver \o arrived)
    BY <1>4, Associative, ZenonT(60)
  <2>2. data \in Seq(Byte) /\ rest \in Seq(Byte) /\ more \in Seq(Byte)
    BY <1>2
  <2>3. (data \o rest) \o more = data \o (rest \o more)
    BY ONLY <2>2, Associative
  <2>4. PICK last : last = rest \o more
    OBVIOUS
  <2>5. hand \in Seq(Byte) /\ data \in Seq(Byte) /\ last \in Seq(Byte)
    BY <1>2, <1>4, <1>5, <2>4
  <2>6. (hand \o data) \o last = hand \o (data \o last)
    BY ONLY <2>5, Associative
  <2> QED BY <1>1, <1>2, <1>4, <2>1, <2>3, <2>4, <2>6 DEF Outstanding
<1>7. CASE InHand' = got /\ UNCHANGED <<returned, dropped>>
  <2>1. (got \o rest) \o more = got \o (rest \o more)
    BY ONLY <1>2, <1>5, Associative
  <2>2. Outstanding' = Outstanding
    BY <1>3, <1>6, <1>7, <2>1 DEF Outstanding
  <2> QED BY <1>7, <2>2, StreamStays
<1>8. CASE InHand' = <<>> /\ (\/ returned' = returned \o got /\ UNCHANGED dropped
                              \/ dropped' = dropped \o got /\ UNCHANGED returned)
  <2>1. <<>> \o rest = rest
    BY <1>2, ConcatEmptySeq
  <2>2. Outstanding' = rest \o more
    BY <1>3, <1>8, <2>1 DEF Outstanding
  <2> QED BY <1>4, <1>5, <1>6, <1>8, <2>2, BytesLeave
<1> QED BY <1>7, <1>8

LEMMA ReceiveStreams ==
  ASSUME ReadInv, NEW wish \in Wishes, Receive(wish) \/ HandlerReads(wish)
  PROVE  [Stream!Next]_(Stream!streamVars)
<1>1. /\ Take(Recv(wish)) /\ returned' = returned \o Recv(wish).data
      /\ reader.at \notin {"recv", "poll"}
      /\ reader' \in {reader, NotReading, [at |-> "echo"]}
      /\ UNCHANGED <<connects, peerSent, dropped>>
  BY DEF Receive, HandlerReads, connVars, NotReading
<1>2. InHand = <<>> /\ InHand' = <<>>
  BY <1>1 DEF InHand, NotReading
<1>3. wish \in Nat \ {0} /\ Recv(wish).data \in Seq(Byte)
  BY SocketAssumption, RecvIs DEF ReadInv
<1>4. Recv(wish).data = InHand \o Recv(wish).data
  BY <1>2, <1>3, ConcatEmptySeq
<1> QED BY <1>1, <1>2, <1>3, <1>4, TakeStreams

(* One more recv of a reading, on either system.                           *)
LEMMA TurnStreams ==
  ASSUME ReadInv, reader.at = "recv", Take(Recv(reader.left)), UNCHANGED <<connects, peerSent>>,
         LET r == Recv(reader.left)
             got == reader.got \o r.data
         IN  \/ /\ reader' = [at |-> "recv", left |-> reader.left - r.result, got |-> got]
                /\ UNCHANGED <<returned, dropped>>
             \/ ReceiveReturns(got) /\ UNCHANGED dropped
             \/ /\ r.result = -1
                /\ reader' = [reader EXCEPT !.at = "poll"]
                /\ UNCHANGED <<returned, dropped>>
             \/ ReceiveFails(got) /\ UNCHANGED returned
  PROVE  [Stream!Next]_(Stream!streamVars)
<1>1. reader.at = "recv" /\ Take(Recv(reader.left)) /\ UNCHANGED <<connects, peerSent>>
  OBVIOUS
<1>2. reader.left \in Nat \ {0} /\ reader.got \in Seq(Byte) /\ InHand = reader.got
  BY <1>1, ReaderFields
<1>3. PICK r, got : r = Recv(reader.left) /\ got = reader.got \o r.data
  OBVIOUS
<1>4. /\ r.data \in Seq(Byte) /\ r.result \in Int
      /\ r.result <= 0 => r.data = <<>>
  BY <1>2, <1>3, RecvIs, Zenon DEF ReadInv
<1>5. \/ InHand' = got /\ UNCHANGED <<returned, dropped>>
      \/ InHand' = <<>> /\ returned' = returned \o got /\ UNCHANGED dropped
      \/ InHand' = <<>> /\ dropped' = dropped \o got /\ UNCHANGED returned
  <2>1. CASE /\ reader' = [at |-> "recv", left |-> reader.left - r.result, got |-> got]
             /\ UNCHANGED <<returned, dropped>>
    BY <2>1 DEF InHand
  <2>2. CASE ReceiveReturns(got) /\ UNCHANGED dropped
    BY <2>2 DEF ReceiveReturns, InHand, NotReading
  <2>3. CASE /\ r.result = -1 /\ reader' = [reader EXCEPT !.at = "poll"]
             /\ UNCHANGED <<returned, dropped>>
    <3>1. reader \in [at : {"recv", "poll"}, left : Nat \ {0}, got : Seq(Byte)]
      BY <1>1, ReaderFields DEF ReaderType
    <3>2. reader'.at = "poll" /\ reader'.got = reader.got
      BY <2>3, <3>1
    <3>3. r.data = <<>>
      BY <1>4, <2>3
    <3>4. got = reader.got
      BY <1>2, <1>3, <3>3, ConcatEmptySeq
    <3> QED BY <2>3, <3>2, <3>4 DEF InHand
  <2>4. CASE ReceiveFails(got) /\ UNCHANGED returned
    BY <2>4 DEF ReceiveFails, InHand, NotReading
  <2> QED BY <1>3, <2>1, <2>2, <2>3, <2>4
<1>6. got = InHand \o Recv(reader.left).data
  BY <1>2, <1>3
<1> QED BY <1>1, <1>2, <1>5, <1>6, TakeStreams

LEMMA MoreStreams ==
  ASSUME ReadInv, ReceiveMore \/ WinReceiveMore
  PROVE  [Stream!Next]_(Stream!streamVars)
<1>1. CASE ReceiveMore
  BY <1>1, TurnStreams DEF ReceiveMore, connVars
<1>2. CASE WinReceiveMore
  BY <1>2, TurnStreams DEF WinReceiveMore, connVars
<1> QED BY <1>1, <1>2

LEMMA WaitStreams ==
  ASSUME ReadInv, WaitToReceive
  PROVE  [Stream!Next]_(Stream!streamVars)
<1>1. reader.at = "poll" /\ UNCHANGED <<connects, peerSent, arrived, buffer, alreadyRead>>
  BY DEF WaitToReceive, connVars, peerVars
<1>2. InHand = reader.got /\ reader \in ReaderType
  BY <1>1, ReaderFields
<1>3. CASE reader' = [reader EXCEPT !.at = "recv"] /\ UNCHANGED <<returned, dropped>>
  <2>1. reader \in [at : {"recv", "poll"}, left : Nat \ {0}, got : Seq(Byte)]
    BY <1>1, <1>2 DEF ReaderType
  <2>2. reader'.at = "recv" /\ reader'.got = reader.got
    BY <1>3, <2>1
  <2>3. InHand' = InHand
    BY <1>2, <2>2 DEF InHand
  <2> QED BY <1>1, <1>3, <2>3, SameOutstanding, StreamStays
<1>4. CASE ReceiveFails(reader.got) /\ UNCHANGED returned
  <2>1. PICK front, rest : front = reader.got /\ rest = LeftOver \o arrived
    OBVIOUS
  <2>2. /\ front \in Seq(Byte) /\ LeftOver \in Seq(Byte) /\ arrived \in Seq(Byte)
        /\ returned \in Seq(Byte) /\ dropped \in Seq(Byte)
    BY <1>2, <2>1, GotTypes DEF ReadInv, InTypes
  <2>3. rest \in Seq(Byte)
    BY <2>1, <2>2, ConcatProperties
  <2>4. (front \o LeftOver) \o arrived = front \o (LeftOver \o arrived)
    BY ONLY <2>2, Associative
  <2>5. Outstanding = front \o rest
    BY <1>2, <2>1, <2>4 DEF Outstanding
  <2>6. InHand' = <<>> /\ dropped' = dropped \o front
    BY <1>4, <2>1 DEF ReceiveFails, InHand, NotReading
  <2>7. <<>> \o LeftOver = LeftOver
    BY <2>2, ConcatEmptySeq
  <2>8. Outstanding' = rest
    BY <1>1, <2>1, <2>6, <2>7 DEF Outstanding, LeftOver
  <2> QED BY <1>1, <1>4, <2>2, <2>3, <2>5, <2>6, <2>8, BytesLeave
<1> QED BY <1>3, <1>4 DEF WaitToReceive

LEMMA PeerSendsStreams ==
  ASSUME ReadInv, PeerSends
  PROVE  [Stream!Next]_(Stream!streamVars)
<1> DEFINE new == <<connects, peerSent + 1>>
<1>1. /\ peerSent' = peerSent + 1 /\ arrived' = Append(arrived, new)
      /\ UNCHANGED <<connects, buffer, alreadyRead, reader, returned, dropped>>
  BY DEF PeerSends, connVars, readerVars
<1>2. PICK read : read = InHand \o LeftOver
  OBVIOUS
<1>3. InHand \in Seq(Byte) /\ LeftOver \in Seq(Byte) /\ arrived \in Seq(Byte) /\ new \in Byte
  BY GotTypes DEF ReadInv, Byte
<1> HIDE DEF new
<1>4. read \in Seq(Byte) /\ <<new>> \in Seq(Byte)
  BY <1>2, <1>3, ConcatProperties
<1>5. read \o arrived \in Seq(Byte)
  BY <1>3, <1>4, ConcatProperties
<1>6. Append(read \o arrived, new) = (read \o arrived) \o <<new>>
  BY <1>3, <1>5, AppendIsConcat
<1>7. Append(arrived, new) = arrived \o <<new>>
  BY <1>3, AppendIsConcat
<1>8. (read \o arrived) \o <<new>> = read \o (arrived \o <<new>>)
  BY ONLY <1>3, <1>4, Associative, SMTT(30)
<1>9. Outstanding' = Append(Outstanding, new)
  <2>1. InHand' = InHand /\ LeftOver' = LeftOver
    BY <1>1 DEF InHand, LeftOver
  <2> QED BY <1>1, <1>2, <1>6, <1>7, <1>8, <2>1 DEF Outstanding
<1>10. Stream!Send
  BY <1>1, <1>9 DEF Stream!Send, new
<1> QED BY <1>10 DEF Stream!Next

(* What was read ahead outlives the connection, the rest does not.         *)
LEMMA ConnectionStreams ==
  ASSUME ReadInv, ConnectionSteps
  PROVE  [Stream!Next]_(Stream!streamVars)
<1>1. InHand \in Seq(Byte) /\ LeftOver \in Seq(Byte) /\ arrived \in Seq(Byte)
  BY GotTypes DEF ReadInv
<1>2. PICK read : read = InHand \o LeftOver
  OBVIOUS
<1>3. read \in Seq(Byte) /\ Outstanding = read \o arrived
  BY <1>1, <1>2, ConcatProperties DEF Outstanding
<1>4. \E n \in 0 .. Len(Outstanding) : read = Stream!Front(n)
  <2>1. Len(read) \in 0 .. Len(Outstanding) /\ SubSeq(Outstanding, 1, Len(read)) = read
    BY <1>1, <1>3, FrontAndRest
  <2>2. Stream!Front(Len(read)) = read
    BY <2>1 DEF Stream!Front
  <2> QED BY <2>1, <2>2, Zenon
<1>5. ASSUME NEW outcome \in ConnStates, Connect(outcome) PROVE Stream!Open
  <2>1. /\ reader = NotReading /\ UNCHANGED <<reader, buffer, alreadyRead>> /\ arrived' = <<>>
        /\ connects' = connects + 1 /\ peerSent' = 0 /\ returned' = <<>> /\ dropped' = <<>>
    BY <1>5 DEF Connect
  <2>2. InHand' = InHand /\ LeftOver' = LeftOver
    BY <2>1 DEF InHand, LeftOver
  <2>3. Outstanding' = read
    BY <1>2, <1>3, <2>1, <2>2, ConcatEmptySeq DEF Outstanding
  <2> QED BY <1>4, <2>1, <2>3 DEF Stream!Open
<1>6. ASSUME Break PROVE Stream!Break
  <2>1. arrived' = <<>> /\ UNCHANGED <<connects, peerSent, buffer, alreadyRead, reader,
                                       returned, dropped>>
    BY <1>6 DEF Break, readerVars
  <2>2. InHand' = InHand /\ LeftOver' = LeftOver
    BY <2>1 DEF InHand, LeftOver
  <2>3. Outstanding' = read
    BY <1>2, <1>3, <2>1, <2>2, ConcatEmptySeq DEF Outstanding
  <2> QED BY <1>4, <2>1, <2>3 DEF Stream!Break
<1>7. CASE ConnectLate \/ Disconnect
  <2>1. UNCHANGED <<connects, readerVars, peerVars>>
    BY <1>7 DEF ConnectLate, Disconnect
  <2>2. UNCHANGED <<connects, peerSent, arrived, buffer, alreadyRead, reader,
                    returned, dropped>>
    BY <2>1 DEF readerVars, peerVars
  <2>3. InHand' = InHand
    BY <2>2 DEF InHand
  <2> QED BY <2>2, <2>3, SameOutstanding, StreamStays
<1> QED BY <1>5, <1>6, <1>7 DEF ConnectionSteps, Stream!Next

(* Everything else leaves the bytes where they are.                        *)
LEMMA OthersStream ==
  ASSUME ReadInv,
         \/ UNCHANGED <<connVars, readerVars, peerVars>>
         \/ \E wish \in Wishes : ReceiveComplete(wish)
         \/ PeerCloses \/ HandleEdge \/ WinHandleEdge \/ EchoSent
  PROVE  [Stream!Next]_(Stream!streamVars)
<1>1. /\ UNCHANGED <<connects, peerSent, arrived, buffer, alreadyRead, returned, dropped>>
      /\ InHand' = InHand
  <2>1. CASE UNCHANGED <<connVars, readerVars, peerVars>>
    BY <2>1 DEF connVars, readerVars, peerVars, InHand
  <2>2. ASSUME NEW wish \in Wishes, ReceiveComplete(wish)
        PROVE  /\ UNCHANGED <<connects, peerSent, arrived, buffer, alreadyRead, returned, dropped>>
               /\ InHand' = InHand
    BY <2>2 DEF ReceiveComplete, connVars, peerVars, InHand, NotReading
  <2>3. CASE PeerCloses
    BY <2>3 DEF PeerCloses, connVars, readerVars, InHand
  <2>4. CASE HandleEdge \/ WinHandleEdge \/ EchoSent
    <3>1. UNCHANGED <<connVars, buffer, alreadyRead, returned, dropped, peerVars>>
      BY <2>4, Zenon DEF HandleEdge, WinHandleEdge, EchoSent
    <3>2. reader' \in {NotReading, [at |-> "handler"]}
      BY <2>4, Zenon DEF HandleEdge, WinHandleEdge, EchoSent
    <3>3. reader = NotReading \/ reader.at = "echo"
      BY <2>4, Zenon DEF HandleEdge, WinHandleEdge, EchoSent
    <3> QED BY <3>1, <3>2, <3>3 DEF connVars, peerVars, InHand, NotReading
  <2> QED BY <2>1, <2>2, <2>3, <2>4
<1> QED BY <1>1, SameOutstanding, StreamStays

(* A step of either socket is a step of the stream, or none.               *)
LEMMA StreamStep ==
  ASSUME SocketInv, [SocketNext \/ WinSocketNext]_socketVars
  PROVE  [Stream!Next]_(Stream!streamVars)
<1>1. ReadInv
  BY DEF SocketInv
<1>2. CASE UNCHANGED socketVars
  BY <1>1, <1>2, OthersStream DEF socketVars
<1>3. CASE ConnectionSteps \/ WinConnectionSteps
  BY <1>1, <1>3, ConnectionStreams
     DEF ConnectionSteps, WinConnectionSteps, WinConnect, WinDisconnect
<1>4. ASSUME SendingSteps \/ WinSendingSteps
      PROVE  [Stream!Next]_(Stream!streamVars)
  <2>1. UNCHANGED <<connVars, readerVars, peerVars, loopVars>>
    BY <1>4, SendingElsewhere
  <2> QED BY <1>1, <2>1, OthersStream
<1>5. ASSUME ReceivingSteps \/ WinReceivingSteps
      PROVE  [Stream!Next]_(Stream!streamVars)
  BY <1>1, <1>5, ReceiveStreams, MoreStreams, WaitStreams, PeerSendsStreams, OthersStream
     DEF ReceivingSteps, WinReceivingSteps
<1>6. ASSUME \/ \E handler \in Handlers : SetDataCb(handler) \/ WinSetDataCb(handler)
             \/ HandleEdge \/ WinHandleEdge \/ EchoSent
             \/ \E wish \in Wishes : HandlerReads(wish)
      PROVE  [Stream!Next]_(Stream!streamVars)
  <2>1. ASSUME NEW handler \in Handlers, SetDataCb(handler) \/ WinSetDataCb(handler)
        PROVE  UNCHANGED <<connVars, readerVars, peerVars>>
    BY <2>1 DEF SetDataCb, WinSetDataCb
  <2> QED BY <1>1, <1>6, <2>1, ReceiveStreams, OthersStream
<1>7. CASE HandlerSteps \/ WinHandlerSteps
  BY <1>6, <1>7 DEF HandlerSteps, WinHandlerSteps, Handlers
<1>8. CASE EchoSteps \/ WinEchoSteps
  <2>1. \/ SetDataCb("echo") \/ WinSetDataCb("echo")
        \/ HandleEdge \/ WinHandleEdge \/ EchoSent
        \/ \E wish \in Wishes : HandlerReads(wish)
        \/ SendingSteps \/ WinSendingSteps \/ ReceivingSteps
    BY <1>8 DEF EchoSteps, WinEchoSteps, SendingSteps, WinSendingSteps, ReceivingSteps
  <2> QED BY <1>4, <1>5, <1>6, <2>1 DEF Handlers
<1> QED BY <1>2, <1>3, <1>4, <1>5, <1>7, <1>8 DEF SocketNext, WinSocketNext

LEMMA StreamBegins == SocketInit => Stream!Init
BY DEF SocketInit, Stream!Init, Outstanding, InHand, LeftOver, NotReading

(* What is read is a stream: each byte the peer sends is put at the end,   *)
(* what the calls return and what a failed one loses is taken from the     *)
(* front, in whatever pieces the kernel and the buffer hold it, and        *)
(* nothing returned is returned again (receive, receiveComplete and        *)
(* BufferedReader::recv on Linux).                                         *)
THEOREM SocketImplementsStream == SocketSpec => StreamSpec
<1>1. SocketInv /\ [SocketNext]_socketVars => [Stream!Next]_(Stream!streamVars)
  BY StreamStep
<1> QED BY <1>1, StreamBegins, LinuxInv, PTL DEF SocketSpec, StreamSpec, Stream!Spec

(* The same on Windows.                                                    *)
THEOREM WinSocketImplementsStream == WinSocketSpec => StreamSpec
<1>1. SocketInv /\ [WinSocketNext]_socketVars => [Stream!Next]_(Stream!streamVars)
  BY StreamStep
<1> QED BY <1>1, StreamBegins, WindowsInv, PTL DEF WinSocketSpec, StreamSpec, Stream!Spec
=============================================================================
