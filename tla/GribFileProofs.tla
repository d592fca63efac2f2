--------------------------- MODULE GribFileProofs ---------------------------
(***************************************************************************)
(* What every load of GRIB files promises, for any files and any budget.   *)
(***************************************************************************)
EXTENDS GribFile, TLAPS, WellFoundedInduction, SequenceTheorems, FiniteSetTheorems

-----------------------------------------------------------------------------
(***************************************************************************)
(* Induction over the steps of a fold.                                     *)
(***************************************************************************)
Less == {p \in Nat \X Nat : p[1] < p[2]}

\* A set of numbers that begins with 0 and misses no next one has all of them.
LEMMA StepsInduction ==
  ASSUME NEW n \in Nat, NEW G, 0 \in G, \A i \in 1..n : i - 1 \in G => i \in G
  PROVE  0..n \subseteq G
<1> DEFINE T == {i \in 0..n : i \notin G}
<1>1. SUFFICES ASSUME T # {} PROVE FALSE
  OBVIOUS
<1>2. T \subseteq Nat
  OBVIOUS
<1>3. PICK x \in T : \A y \in T : <<y, x>> \notin Less
  <2>1. IsWellFoundedOn(Less, Nat)
    BY NatLessThanWellFounded DEF OpToRel, Less
  <2> HIDE DEF T
  <2> QED
    BY <1>1, <1>2, <2>1, WFMin
<1>4. x # 0 /\ x \in Nat /\ x - 1 \in 0..n /\ x \in 1..n
  OBVIOUS
<1>5. x - 1 \notin T
  <2>1. <<x - 1, x>> \in Less
    BY <1>4 DEF Less
  <2> HIDE DEF T
  <2> QED
    BY <1>3, <2>1
<1> QED
  BY <1>4, <1>5

\* A non-empty set of numbers up to n has a greatest.
LEMMA MaxOfSome ==
  ASSUME NEW n \in Nat, NEW S \in SUBSET (1..n), S # {}
  PROVE  Max(S) \in S /\ \A i \in S : i <= Max(S)
<1> DEFINE G == {m \in 0..n : S \subseteq 1..m => \E x \in S : \A i \in S : i <= x}
<1>1. 0 \in G
  <2>1. 1..0 = {} /\ 0 \in 0..n
    OBVIOUS
  <2>2. ~ S \subseteq 1..0
    BY <2>1
  <2> QED
    BY <2>1, <2>2
<1>2. ASSUME NEW i \in 1..n, i - 1 \in G PROVE i \in G
  BY <1>2
<1> HIDE DEF G
<1>3. n \in G
  BY <1>1, <1>2, StepsInduction
<1> QED
  BY <1>3 DEF G, Max

LEMMA MaxOfFirst ==
  ASSUME NEW n \in Nat, NEW i \in 1..n
  PROVE  Max(1..i) = i /\ (1..i) \ {i} = 1..(i - 1)
<1>1. Max(1..i) \in 1..i /\ \A j \in 1..i : j <= Max(1..i)
  <2>1. 1..i \in SUBSET (1..n) /\ 1..i # {}
    BY 1 \in 1..i
  <2> HIDE DEF Max
  <2> QED
    BY <2>1, MaxOfSome
<1> QED
  BY <1>1

\* The table of all partial results that the definition of a fold speaks of
\* exists: F folds the i-th element into a value.
IsTable(g, n, b, F) ==
  g = [s \in SUBSET (1..n) |->
          IF s = {} THEN b ELSE F[<<g[s \ {Max(s)}], Max(s)>>]]

LEMMA TableExists ==
  ASSUME NEW n \in Nat, NEW T, NEW b \in T, NEW F \in [T \X (1..n) -> T]
  PROVE  \E g \in [SUBSET (1..n) -> T] : IsTable(g, n, b, F)
<1> DEFINE G == {m \in 0..n : \E g \in [SUBSET (1..m) -> T] : IsTable(g, m, b, F)}
<1>1. 0 \in G
  <2> DEFINE g == [s \in SUBSET (1..0) |-> b]
  <2>1. g \in [SUBSET (1..0) -> T] /\ IsTable(g, 0, b, F)
    BY DEF IsTable
  <2> QED
    BY <2>1
<1>2. ASSUME NEW m \in 1..n, m - 1 \in G PROVE m \in G
  <2>1. PICK h \in [SUBSET (1..(m - 1)) -> T] : IsTable(h, m - 1, b, F)
    BY <1>2
  <2> DEFINE g == [s \in SUBSET (1..m) |->
                      IF m \in s THEN F[<<h[s \ {m}], m>>] ELSE h[s]]
  <2>2. \A s \in SUBSET (1..m) : s \ {m} \in SUBSET (1..(m - 1))
    OBVIOUS
  <2>3. g \in [SUBSET (1..m) -> T]
    BY <2>2
  <2>4. ASSUME NEW s \in SUBSET (1..m)
        PROVE  g[s] = IF s = {} THEN b ELSE F[<<g[s \ {Max(s)}], Max(s)>>]
    <3>1. CASE m \in s
      <4>1. Max(s) = m
        <5> HIDE DEF g
        <5>1. m \in Nat /\ s # {}
          BY <3>1
        <5>2. Max(s) \in s /\ \A i \in s : i <= Max(s)
          BY <5>1, MaxOfSome
        <5>3. Max(s) \in 1..m /\ m <= Max(s)
          BY <3>1, <5>2
        <5> QED
          BY <5>1, <5>3
      <4>2. g[s \ {m}] = h[s \ {m}]
        OBVIOUS
      <4> QED
        BY <3>1, <4>1, <4>2
    <3>2. CASE m \notin s
      <4>1. s \in SUBSET (1..(m - 1)) /\ s \ {Max(s)} \in SUBSET (1..(m - 1))
        <5>1. \A i \in s : i \in 1..m /\ i # m
          BY <3>2
        <5>2. \A i \in s : i \in 1..(m - 1)
          BY <5>1
        <5> QED
          BY <5>2
      <4>2. g[s] = h[s] /\ g[s \ {Max(s)}] = h[s \ {Max(s)}]
        BY <3>2, <4>1
      <4> QED
        BY <2>1, <4>1, <4>2 DEF IsTable
    <3> QED
      BY <3>1, <3>2
  <2>5. IsTable(g, m, b, F)
    BY <2>4 DEF IsTable
  <2> HIDE DEF g
  <2> QED
    BY <2>3, <2>5
<1> HIDE DEF G
<1>3. n \in G
  BY <1>1, <1>2, StepsInduction
<1> QED
  BY <1>3 DEF G
\* A value that obeys the equation of the table on the way from {} to 1..n
\* gives the chain of partial results.
Unrolls(it, n, T, b, F) ==
  /\ it[{}] = b
  /\ \A i \in 1..n : it[1..(i - 1)] \in T =>
        it[1..i] = F[<<it[1..(i - 1)], i>>]
IsChain(c, it, n, b, F) ==
  /\ c[0] = b /\ it[1..n] = c[n]
  /\ \A i \in 1..n : c[i] = F[<<c[i - 1], i>>]

LEMMA ChainOf ==
  ASSUME NEW n \in Nat, NEW T, NEW b \in T, NEW F \in [T \X (1..n) -> T],
         NEW it, Unrolls(it, n, T, b, F)
  PROVE  \E c \in [0..n -> T] : IsChain(c, it, n, b, F)
<1> DEFINE G == {i \in 0..n : it[1..i] \in T}
           c == [i \in 0..n |-> it[1..i]]
<1>1. 1..0 = {} /\ 0 \in 0..n /\ n \in 0..n
  OBVIOUS
<1>2. 0 \in G
  BY <1>1 DEF Unrolls
<1>3. ASSUME NEW i \in 1..n, i - 1 \in G PROVE i \in G
  <2>1. it[1..(i - 1)] \in T /\ i \in 0..n
    BY <1>3
  <2>2. F[<<it[1..(i - 1)], i>>] \in T
    BY <2>1
  <2>3. it[1..i] = F[<<it[1..(i - 1)], i>>]
    BY <2>1 DEF Unrolls
  <2> QED
    BY <2>1, <2>2, <2>3
<1>4. 0..n \subseteq G
  <2> HIDE DEF G
  <2> QED
    BY <1>2, <1>3, StepsInduction
<1>5. c \in [0..n -> T]
  BY <1>4
<1>6. \A i \in 1..n : i \in 0..n /\ i - 1 \in 0..n /\ c[i] = F[<<c[i - 1], i>>]
  BY <1>4 DEF Unrolls
<1>7. c[0] = b /\ it[1..n] = c[n]
  BY <1>1 DEF Unrolls
<1> QED
  BY <1>5, <1>6, <1>7 DEF IsChain

\* The last element a table takes off a set of indices.
LEMMA LastOf ==
  ASSUME NEW n \in Nat, NEW s \in SUBSET (1..n), s # {}
  PROVE  Max(s) \in 1..n /\ s \ {Max(s)} \in SUBSET (1..n)
BY MaxOfSome

-----------------------------------------------------------------------------
(***************************************************************************)
(* Sets of dates in order.                                                 *)
(***************************************************************************)
LEMMA LeastOfSome ==
  ASSUME NEW S \in SUBSET Nat, S # {}
  PROVE  \E x \in S : \A y \in S : x <= y
<1>1. IsWellFoundedOn(Less, Nat)
  BY NatLessThanWellFounded DEF OpToRel, Less
<1>2. PICK x \in S : \A y \in S : ~ (<<y, x>> \in Less)
  BY <1>1, WFMin
<1>3. ASSUME NEW y \in S PROVE x <= y
  <2>1. <<y, x>> \in Nat \X Nat /\ ~ (<<y, x>> \in Less)
    BY <1>2
  <2> QED
    BY <2>1 DEF Less
<1> QED
  BY <1>3

Orders(f, S) ==
  ToSet(f) = S /\ \A i, j \in DOMAIN f : i < j => f[i] < f[j]

LEMMA OrderExists ==
  ASSUME NEW n \in Nat, NEW S \in SUBSET Nat, IsFiniteSet(S), Cardinality(S) = n
  PROVE  \E f \in [1..n -> S] : Orders(f, S)
<1> DEFINE G == {m \in 0..n : \A R \in SUBSET Nat :
                    IsFiniteSet(R) /\ Cardinality(R) = m =>
                       \E f \in [1..m -> R] : Orders(f, R)}
<1>1. 0 \in G
  <2>1. ASSUME NEW R \in SUBSET Nat, IsFiniteSet(R), Cardinality(R) = 0
        PROVE  \E f \in [1..0 -> R] : Orders(f, R)
    <3>1. R = {} /\ 1..0 = {}
      BY <2>1, FS_EmptySet
    <3> DEFINE f == [i \in 1..0 |-> 0]
    <3>2. f \in [1..0 -> R] /\ Orders(f, R)
      BY <3>1 DEF Orders, ToSet
    <3> QED
      BY <3>2
  <2> QED
    BY <2>1
<1>2. ASSUME NEW m \in 1..n, m - 1 \in G PROVE m \in G
  <2>1. ASSUME NEW R \in SUBSET Nat, IsFiniteSet(R), Cardinality(R) = m
        PROVE  \E f \in [1..m -> R] : Orders(f, R)
    <3>1. R # {}
      BY <2>1, FS_EmptySet
    <3>2. PICK x \in R : \A y \in R : x <= y
      BY <3>1, LeastOfSome
    <3>3. IsFiniteSet(R \ {x}) /\ Cardinality(R \ {x}) = m - 1
      BY <2>1, FS_RemoveElement
    <3>4. PICK g \in [1..(m - 1) -> R \ {x}] : Orders(g, R \ {x})
      <4>1. R \ {x} \in SUBSET Nat
        OBVIOUS
      <4> QED
        BY <1>2, <3>3, <4>1
    <3> DEFINE f == [i \in 1..m |-> IF i = 1 THEN x ELSE g[i - 1]]
    <3>5. \A i \in 1..m : i # 1 => i - 1 \in 1..(m - 1)
      OBVIOUS
    <3>6. f \in [1..m -> R]
      BY <3>4, <3>5
    <3>7. ToSet(f) = R
      <4>1. \A y \in R \ {x} : \E i \in 1..(m - 1) : g[i] = y
        BY <3>4 DEF Orders, ToSet
      <4>2. ASSUME NEW y \in R PROVE \E i \in 1..m : f[i] = y
        <5>1. CASE y = x
          BY <5>1, 1 \in 1..m
        <5>2. CASE y # x
          <6>1. PICK i \in 1..(m - 1) : g[i] = y
            BY <4>1, <5>2
          <6>2. i + 1 \in 1..m /\ i + 1 # 1 /\ (i + 1) - 1 = i
            OBVIOUS
          <6> QED
            BY <6>1, <6>2
        <5> QED
          BY <5>1, <5>2
      <4> HIDE DEF f
      <4> QED
        BY <3>6, <4>2 DEF ToSet
    <3>8. ASSUME NEW i \in 1..m, NEW j \in 1..m, i < j PROVE f[i] < f[j]
      <4>1. j # 1 /\ j - 1 \in 1..(m - 1) /\ g[j - 1] \in R \ {x}
        BY <3>4, <3>5, <3>8
      <4>2. CASE i = 1
        <5>1. g[j - 1] \in Nat /\ x \in Nat /\ x <= g[j - 1] /\ x # g[j - 1]
          BY <3>2, <4>1
        <5> QED
          BY <4>1, <4>2, <5>1
      <4>3. CASE i # 1
        <5>1. i - 1 \in 1..(m - 1) /\ i - 1 < j - 1
          BY <3>8, <4>3
        <5>2. g[i - 1] < g[j - 1]
          BY <3>4, <4>1, <5>1 DEF Orders
        <5> QED
          BY <4>1, <4>3, <5>2
      <4> QED
        BY <4>2, <4>3
    <3>9. Orders(f, R)
      <4> HIDE DEF f
      <4> QED
        BY <3>6, <3>7, <3>8 DEF Orders
    <3> HIDE DEF f
    <3> QED
      BY <3>6, <3>9
  <2> QED
    BY <2>1
<1> HIDE DEF G
<1>3. n \in G
  BY <1>1, <1>2, StepsInduction
<1> QED
  BY <1>3 DEF G

\* Every finite set of dates is put in order.
LEMMA InOrderIs ==
  ASSUME NEW S \in SUBSET Nat, IsFiniteSet(S)
  PROVE  /\ InOrder(S) \in Seq(S) /\ InOrder(S) \in Seq(Nat)
         /\ Len(InOrder(S)) = Cardinality(S) /\ Orders(InOrder(S), S)
<1>1. Cardinality(S) \in Nat
  BY FS_CardinalityType
<1>2. \E f \in [1..Cardinality(S) -> S] : Orders(f, S)
  BY <1>1, OrderExists
<1>3. InOrder(S) = CHOOSE f \in [1..Cardinality(S) -> S] : Orders(f, S)
  BY DEF InOrder, Orders
<1>4. InOrder(S) \in [1..Cardinality(S) -> S] /\ Orders(InOrder(S), S)
  BY <1>2, <1>3
<1>5. \A T : InOrder(S) \in [1..Cardinality(S) -> T] => InOrder(S) \in Seq(T)
  BY <1>1, SeqDef
<1>6. InOrder(S) \in Seq(S) /\ InOrder(S) \in Seq(Nat)
  BY <1>4, <1>5
<1>7. Len(InOrder(S)) = Cardinality(S)
  BY <1>1, <1>4, <1>6, LenProperties
<1> QED
  BY <1>4, <1>6, <1>7

-----------------------------------------------------------------------------
(***************************************************************************)
(* The records and states of the reader.                                   *)
(***************************************************************************)
Record == [type : STRING \cup Stored, date : Nat, tr : Nat, p1 : Nat, p2 : Nat,
           sane : BOOLEAN, of : Nat, per : Int, exact : BOOLEAN,
           hours : SUBSET Int]
Reader == [recs : Seq(Record), ok : BOOLEAN, limit : BOOLEAN]

LEMMA DatesType ==
  ASSUME NEW recs \in Seq(Record)
  PROVE  Dates(recs) \in SUBSET Nat /\ IsFiniteSet(Dates(recs))
<1>1. DOMAIN recs = 1..Len(recs) /\ Len(recs) \in Nat
  OBVIOUS
<1>2. \A i \in 1..Len(recs) : recs[i].date \in Nat
  <2>1. \A i \in 1..Len(recs) : recs[i] \in Record
    BY <1>1
  <2> QED
    BY <2>1 DEF Record
<1>3. IsFiniteSet(1..Len(recs))
  BY <1>1, FS_Interval
<1> DEFINE f == [i \in 1..Len(recs) |-> recs[i].date]
<1>4. f \in Surjection(1..Len(recs), Dates(recs))
  BY <1>1 DEF Dates, Surjection
<1>5. IsFiniteSet(Dates(recs))
  BY <1>3, <1>4, FS_Surjection
<1> QED
  BY <1>1, <1>2, <1>5 DEF Dates

LEMMA IndexOfType ==
  ASSUME NEW recs \in Seq(Record), NEW type, NEW date
  PROVE  /\ IndexOf(recs, type, date) \in Nat
         /\ IndexOf(recs, type, date) # 0 =>
               LET i == IndexOf(recs, type, date)
               IN  i \in DOMAIN recs /\ recs[i].type = type /\ recs[i].date = date
         /\ \A i \in DOMAIN recs : recs[i].type = type /\ recs[i].date = date =>
               IndexOf(recs, type, date) # 0
<1> DEFINE found == {i \in DOMAIN recs : recs[i].type = type /\ recs[i].date = date}
<1>1. found \in SUBSET Nat /\ DOMAIN recs = 1..Len(recs)
  OBVIOUS
<1>2. IndexOf(recs, type, date) =
         IF found = {} THEN 0 ELSE CHOOSE i \in found : \A j \in found : i <= j
  BY DEF IndexOf
<1>3. found # {} => IndexOf(recs, type, date) \in found
  <2> HIDE DEF found
  <2> QED
    BY <1>1, <1>2, LeastOfSome
<1>4. found # {} => IndexOf(recs, type, date) \in 1..Len(recs)
  BY <1>1, <1>3
<1>5. found = {} => IndexOf(recs, type, date) = 0
  BY <1>2
<1>6. IndexOf(recs, type, date) # 0 => IndexOf(recs, type, date) \in found
  BY <1>3, <1>5
<1>7. IndexOf(recs, type, date) \in Nat /\ (found # {} => IndexOf(recs, type, date) # 0)
  BY <1>1, <1>4, <1>5
<1> HIDE DEF IndexOf
<1> QED
  BY <1>6, <1>7

LEMMA RecordOfType == ASSUME NEW m \in Message PROVE RecordOf(m) \in Record
<1>1. (m.date - (m.p2 - m.p1) + 1)..m.date \in SUBSET Int
  OBVIOUS
<1> QED
  BY <1>1 DEF RecordOf, Record, Message

LEMMA StoreType ==
  ASSUME NEW r \in Reader, NEW rec \in Record
  PROVE  storeRecordInMap(r, rec) \in Reader
<1>1. Append(r.recs, rec) \in Seq(Record)
  BY DEF Reader
<1> QED
  BY <1>1 DEF storeRecordInMap, Reader

LEMMA ReadMessageType ==
  ASSUME NEW r \in Reader, NEW m \in Message
  PROVE  ReadMessage(r, m) \in Reader
<1>1. [r EXCEPT !.ok = TRUE] \in Reader
  BY DEF Reader
<1> QED
  BY <1>1, RecordOfType, StoreType DEF ReadMessage

\* A fold is a chain of states, one per element.
LEMMA ReadChain ==
  ASSUME NEW r \in Reader, NEW messages \in Seq(Message)
  PROVE  \E c \in [0..Len(messages) -> Reader] :
            /\ c[0] = r /\ readAllGribRecords(r, messages) = c[Len(messages)]
            /\ \A i \in 1..Len(messages) : c[i] = ReadMessage(c[i - 1], messages[i])
<1> DEFINE n == Len(messages)
           F == [p \in Reader \X (1..n) |-> ReadMessage(p[1], messages[p[2]])]
           Eq(h) == h = [s \in SUBSET (1..n) |->
                           IF s = {} THEN r
                           ELSE ReadMessage(h[s \ {Max(s)}], messages[Max(s)])]
           it == CHOOSE h : Eq(h)
<1>1. n \in Nat /\ DOMAIN messages = 1..n /\ \A i \in 1..n : messages[i] \in Message
  OBVIOUS
<1>2. readAllGribRecords(r, messages) = it[1..n]
  BY <1>1 DEF readAllGribRecords, FoldLeft, MapThenFoldSet
<1>3. F \in [Reader \X (1..n) -> Reader]
  BY <1>1, ReadMessageType
<1>4. \E h : Eq(h)
  <2>1. PICK g \in [SUBSET (1..n) -> Reader] : IsTable(g, n, r, F)
    <3>1. r \in Reader
      BY <1>1
    <3> HIDE DEF F, n
    <3> QED
      BY <1>1, <1>3, <3>1, TableExists
  <2>2. \A s \in SUBSET (1..n) : s # {} =>
           F[<<g[s \ {Max(s)}], Max(s)>>] = ReadMessage(g[s \ {Max(s)}], messages[Max(s)])
    BY <1>1, <2>1, LastOf
  <2>3. Eq(g)
    BY <2>1, <2>2 DEF IsTable
  <2> QED
    BY <2>3
<1>5. Eq(it)
  BY <1>4
<1>6. /\ it[{}] = r
      /\ \A i \in 1..n : it[1..i] = ReadMessage(it[1..(i - 1)], messages[i])
  <2> HIDE DEF it
  <2>1. ASSUME NEW i \in 1..n
        PROVE  1..i \in SUBSET (1..n) /\ 1..i # {} /\ Max(1..i) = i
               /\ (1..i) \ {Max(1..i)} = 1..(i - 1)
    <3> HIDE DEF n, F, Eq
    <3>1. n \in Nat
      BY <1>1
    <3>2. 1..i \in SUBSET (1..n) /\ i \in 1..i
      BY <3>1
    <3> QED
      BY <3>1, <3>2, MaxOfFirst
  <2> QED
    BY <1>1, <1>5, <2>1
<1> HIDE DEF it
<1>7. Unrolls(it, n, Reader, r, F)
  BY <1>6 DEF Unrolls
<1>8. PICK c \in [0..n -> Reader] : IsChain(c, it, n, r, F)
  <2>1. r \in Reader
    BY <1>1
  <2> HIDE DEF n, F, Eq
  <2> QED
    BY <1>1, <1>3, <1>7, <2>1, ChainOf
<1>9. \A i \in 1..n : c[i] = ReadMessage(c[i - 1], messages[i])
  <2>1. \A i \in 1..n : <<c[i - 1], i>> \in Reader \X (1..n)
    <3> HIDE DEF n, F, Eq
    <3>1. \A i \in 1..n : i - 1 \in 0..n
      BY <1>1
    <3> QED
      BY <3>1
  <2> QED
    BY <1>8, <2>1 DEF IsChain
<1> QED
  BY <1>2, <1>8, <1>9 DEF IsChain

LEMMA ReadAllType ==
  ASSUME NEW r \in Reader, NEW messages \in Seq(Message)
  PROVE  readAllGribRecords(r, messages) \in Reader
<1>1. Len(messages) \in 0..Len(messages)
  OBVIOUS
<1> QED
  BY <1>1, ReadChain

LEMMA DeriveAtType ==
  ASSUME NEW r \in Reader, NEW d, NEW first, NEW second, NEW type \in Stored
  PROVE  DeriveAt(r, d, first, second, type) \in Reader
<1> DEFINE i == IndexOf(r.recs, first, d)
           rec == [r.recs[i] EXCEPT !.type = type]
<1>1. r.recs \in Seq(Record)
  BY DEF Reader
<1>2. i # 0 => r.recs[i] \in Record
  BY <1>1, IndexOfType
<1>3. i # 0 => rec \in Record
  BY <1>2 DEF Record
<1>4. i # 0 => storeRecordInMap(r, rec) \in Reader
  BY <1>3, StoreType
<1> QED
  BY <1>4 DEF DeriveAt

\* The dates are visited in order.
LEMMA DeriveChain ==
  ASSUME NEW r \in Reader, NEW first, NEW second, NEW type \in Stored
  PROVE  \E c \in [0..Len(InOrder(Dates(r.recs))) -> Reader] :
            /\ c[0] = r /\ Derive(r, first, second, type) = c[Len(InOrder(Dates(r.recs)))]
            /\ \A i \in 1..Len(InOrder(Dates(r.recs))) :
                  c[i] = DeriveAt(c[i - 1], InOrder(Dates(r.recs))[i], first, second, type)
<1> DEFINE n == Len(InOrder(Dates(r.recs)))
           F == [p \in Reader \X (1..n) |->
                 DeriveAt(p[1], InOrder(Dates(r.recs))[p[2]], first, second, type)]
           Eq(h) == h = [s \in SUBSET (1..n) |->
                           IF s = {} THEN r
                           ELSE DeriveAt(h[s \ {Max(s)}], InOrder(Dates(r.recs))[Max(s)],
                                 first, second, type)]
           it == CHOOSE h : Eq(h)
<1>1. n \in Nat /\ DOMAIN InOrder(Dates(r.recs)) = 1..n
  <2>1. r.recs \in Seq(Record)
    BY DEF Reader
  <2>2. InOrder(Dates(r.recs)) \in Seq(Nat)
    BY <2>1, DatesType, InOrderIs
  <2> QED
    BY <2>2
<1>2. Derive(r, first, second, type) = it[1..n]
  BY <1>1 DEF Derive, FoldLeft, MapThenFoldSet
<1>3. F \in [Reader \X (1..n) -> Reader]
  BY <1>1, DeriveAtType
<1>4. \E h : Eq(h)
  <2>1. PICK g \in [SUBSET (1..n) -> Reader] : IsTable(g, n, r, F)
    <3>1. r \in Reader
      BY <1>1
    <3> HIDE DEF F, n
    <3> QED
      BY <1>1, <1>3, <3>1, TableExists
  <2>2. \A s \in SUBSET (1..n) : s # {} =>
           F[<<g[s \ {Max(s)}], Max(s)>>] =
                 DeriveAt(g[s \ {Max(s)}], InOrder(Dates(r.recs))[Max(s)], first, second, type)
    BY <1>1, <2>1, LastOf
  <2>3. Eq(g)
    BY <2>1, <2>2 DEF IsTable
  <2> QED
    BY <2>3
<1>5. Eq(it)
  BY <1>4
<1>6. /\ it[{}] = r
      /\ \A i \in 1..n : it[1..i] =
            DeriveAt(it[1..(i - 1)], InOrder(Dates(r.recs))[i], first, second, type)
  <2> HIDE DEF it
  <2>1. ASSUME NEW i \in 1..n
        PROVE  1..i \in SUBSET (1..n) /\ 1..i # {} /\ Max(1..i) = i
               /\ (1..i) \ {Max(1..i)} = 1..(i - 1)
    <3> HIDE DEF n, F, Eq
    <3>1. n \in Nat
      BY <1>1
    <3>2. 1..i \in SUBSET (1..n) /\ i \in 1..i
      BY <3>1
    <3> QED
      BY <3>1, <3>2, MaxOfFirst
  <2> QED
    BY <1>1, <1>5, <2>1
<1> HIDE DEF it
<1>7. Unrolls(it, n, Reader, r, F)
  BY <1>6 DEF Unrolls
<1>8. PICK c \in [0..n -> Reader] : IsChain(c, it, n, r, F)
  <2>1. r \in Reader
    BY <1>1
  <2> HIDE DEF n, F, Eq
  <2> QED
    BY <1>1, <1>3, <1>7, <2>1, ChainOf
<1>9. \A i \in 1..n : c[i] = DeriveAt(c[i - 1], InOrder(Dates(r.recs))[i], first, second, type)
  <2>1. \A i \in 1..n : <<c[i - 1], i>> \in Reader \X (1..n)
    <3> HIDE DEF n, F, Eq
    <3>1. \A i \in 1..n : i - 1 \in 0..n
      BY <1>1
    <3> QED
      BY <3>1
  <2> QED
    BY <1>8, <2>1 DEF IsChain
<1> QED
  BY <1>2, <1>8, <1>9 DEF IsChain

LEMMA DeriveType ==
  ASSUME NEW r \in Reader, NEW first, NEW second, NEW type \in Stored
  PROVE  Derive(r, first, second, type) \in Reader
<1>1. r.recs \in Seq(Record)
  BY DEF Reader
<1>2. InOrder(Dates(r.recs)) \in Seq(Nat)
  BY <1>1, DatesType, InOrderIs
<1>3. Len(InOrder(Dates(r.recs))) \in 0..Len(InOrder(Dates(r.recs)))
  BY <1>2
<1> QED
  BY <1>3, DeriveChain

LEMMA OpenFileType ==
  ASSUME NEW r \in Reader, NEW file \in Seq(Message)
  PROVE  openFile(r, file) \in Reader
<1>1. [r EXCEPT !.ok = FALSE, !.limit = FALSE] \in Reader
  BY DEF Reader
<1>2. readAllGribRecords([r EXCEPT !.ok = FALSE, !.limit = FALSE], file) \in Reader
  BY <1>1, ReadAllType
<1>3. ASSUME NEW s \in Reader PROVE AddGusts(s) \in Reader /\ AddDewPoints(s) \in Reader
  <2>1. "GUST" \in Stored /\ "DEWPOINT" \in Stored
    BY DEF Stored, SlotOf
  <2>2. \A first, second : Derive(s, first, second, "GUST") \in Reader
                           /\ Derive(s, first, second, "DEWPOINT") \in Reader
    BY <2>1, DeriveType
  <2> QED
    BY <2>2 DEF AddGusts, AddDewPoints
<1> QED
  BY <1>2, <1>3 DEF openFile, readGribFileContent

Reading == [reader : Reader, ok : BOOLEAN]

LEMMA ReadFileType ==
  ASSUME NEW s \in Reading, NEW file \in Seq(Message), NEW newestFile
  PROVE  ReadFile(s, file, newestFile) \in Reading
<1>1. s.reader \in Reader
  BY DEF Reading
<1>2. openFile(s.reader, file) \in Reader
  BY <1>1, OpenFileType
<1>3. /\ openFile(s.reader, file).ok \in BOOLEAN
      /\ openFile(s.reader, file).limit \in BOOLEAN /\ s.ok \in BOOLEAN
  BY <1>2 DEF Reader, Reading
<1> QED
  BY <1>2, <1>3 DEF ReadFile, Reading

\* The files are read one after the other.
LEMMA FilesChain ==
  ASSUME NEW files \in Seq(Seq(Message)), NEW newestFile
  PROVE  \E c \in [0..Len(files) -> Reading] :
            /\ c[0] = [reader |-> NewReader, ok |-> FALSE]
                  /\ ReadFiles(files, newestFile) = c[Len(files)]
            /\ \A i \in 1..Len(files) : c[i] = ReadFile(c[i - 1], files[i], newestFile)
<1> DEFINE n == Len(files)
           F == [p \in Reading \X (1..n) |-> ReadFile(p[1], files[p[2]], newestFile)]
           Eq(h) == h = [s \in SUBSET (1..n) |->
                           IF s = {} THEN [reader |-> NewReader, ok |-> FALSE]
                           ELSE ReadFile(h[s \ {Max(s)}], files[Max(s)], newestFile)]
           it == CHOOSE h : Eq(h)
<1>1. n \in Nat /\ DOMAIN files = 1..n /\ [reader |-> NewReader, ok |-> FALSE] \in Reading
       /\ \A i \in 1..n : files[i] \in Seq(Message)
  BY DEF Reading, NewReader, Reader
<1>2. ReadFiles(files, newestFile) = it[1..n]
  BY <1>1 DEF ReadFiles, FoldLeft, MapThenFoldSet
<1>3. F \in [Reading \X (1..n) -> Reading]
  BY <1>1, ReadFileType
<1>4. \E h : Eq(h)
  <2>1. PICK g \in [SUBSET (1..n) -> Reading] :
              IsTable(g, n, [reader |-> NewReader, ok |-> FALSE], F)
    <3>1. [reader |-> NewReader, ok |-> FALSE] \in Reading
      BY <1>1
    <3> HIDE DEF F, n
    <3> QED
      BY <1>1, <1>3, <3>1, TableExists
  <2>2. \A s \in SUBSET (1..n) : s # {} =>
           F[<<g[s \ {Max(s)}], Max(s)>>] = ReadFile(g[s \ {Max(s)}], files[Max(s)], newestFile)
    BY <1>1, <2>1, LastOf
  <2>3. Eq(g)
    BY <2>1, <2>2 DEF IsTable
  <2> QED
    BY <2>3
<1>5. Eq(it)
  BY <1>4
<1>6. /\ it[{}] = [reader |-> NewReader, ok |-> FALSE]
      /\ \A i \in 1..n : it[1..i] = ReadFile(it[1..(i - 1)], files[i], newestFile)
  <2> HIDE DEF it
  <2>1. ASSUME NEW i \in 1..n
        PROVE  1..i \in SUBSET (1..n) /\ 1..i # {} /\ Max(1..i) = i
               /\ (1..i) \ {Max(1..i)} = 1..(i - 1)
    <3> HIDE DEF n, F, Eq
    <3>1. n \in Nat
      BY <1>1
    <3>2. 1..i \in SUBSET (1..n) /\ i \in 1..i
      BY <3>1
    <3> QED
      BY <3>1, <3>2, MaxOfFirst
  <2> QED
    BY <1>1, <1>5, <2>1
<1> HIDE DEF it
<1>7. Unrolls(it, n, Reading, [reader |-> NewReader, ok |-> FALSE], F)
  BY <1>6 DEF Unrolls
<1>8. PICK c \in [0..n -> Reading] : IsChain(c, it, n, [reader |-> NewReader, ok |-> FALSE], F)
  <2>1. [reader |-> NewReader, ok |-> FALSE] \in Reading
    BY <1>1
  <2> HIDE DEF n, F, Eq
  <2> QED
    BY <1>1, <1>3, <1>7, <2>1, ChainOf
<1>9. \A i \in 1..n : c[i] = ReadFile(c[i - 1], files[i], newestFile)
  <2>1. \A i \in 1..n : <<c[i - 1], i>> \in Reading \X (1..n)
    <3> HIDE DEF n, F, Eq
    <3>1. \A i \in 1..n : i - 1 \in 0..n
      BY <1>1
    <3> QED
      BY <3>1
  <2> QED
    BY <1>8, <2>1 DEF IsChain
<1> QED
  BY <1>2, <1>8, <1>9 DEF IsChain

\* The state of an accumulation: prev is a record, or 0 for none.
Visiting == {s \in [recs : Seq(Record), prev : Nat, p1 : Nat, p2 : Nat] :
                s.prev # 0 => s.prev \in DOMAIN s.recs}

LEMMA RateType ==
  ASSUME NEW p \in Record, NEW r \in Record, NEW tr, NEW h \in Int
  PROVE  Left(p, r) \in Record /\ Rate(p, tr, h) \in Record
         /\ Rate(Left(p, r), tr, h) \in Record
<1>1. ASSUME NEW q \in Record PROVE Rate(q, tr, h) \in Record
  BY <1>1 DEF Rate, PerHour, Record
<1>2. Minus(p, r) \in Record
  BY DEF Minus, Record
<1>3. Left(p, r) \in Record
  BY <1>2 DEF Left, Average, Substract
<1> QED
  BY <1>1, <1>3

LEMMA AccumulateAtType ==
  ASSUME NEW s \in Visiting, NEW d, NEW type
  PROVE  AccumulateAt(s, d, type) \in Visiting
<1> DEFINE i == IndexOf(s.recs, type, d)
           p == s.recs[s.prev]
           r == s.recs[i]
           h == s.p2 - LeftFrom(s, p, r)
           recs == IF s.prev = 0 THEN s.recs
                   ELSE [s.recs EXCEPT ![s.prev] = Rate(Left(p, r), r.tr, h)]
<1>1. s.recs \in Seq(Record) /\ s.prev \in Nat /\ s.p1 \in Nat /\ s.p2 \in Nat
      /\ (s.prev # 0 => s.prev \in DOMAIN s.recs)
  BY DEF Visiting
<1> SUFFICES ASSUME i # 0 PROVE AccumulateAt(s, d, type) \in Visiting
  BY DEF AccumulateAt
<1>2. i \in DOMAIN s.recs /\ i \in Nat /\ r \in Record
  BY <1>1, IndexOfType
<1>3. r.p1 \in Nat /\ r.p2 \in Nat
  BY <1>2 DEF Record
<1>4. recs \in Seq(Record) /\ DOMAIN recs = DOMAIN s.recs
  <2>1. CASE s.prev = 0
    BY <1>1, <2>1
  <2>2. CASE s.prev # 0
    <3>1. p \in Record /\ s.prev \in DOMAIN s.recs
      BY <1>1, <2>2
    <3>2. h \in Int
      BY <1>1, <1>3 DEF LeftFrom
    <3>3. Rate(Left(p, r), r.tr, h) \in Record
      BY <1>2, <3>1, <3>2, RateType
    <3> HIDE DEF p, r, h
    <3>4. [s.recs EXCEPT ![s.prev] = Rate(Left(p, r), r.tr, h)] \in Seq(Record)
      BY <1>1, <3>1, <3>3
    <3> QED
      BY <2>2, <3>4, <1>1
  <2> QED
    BY <2>1, <2>2
<1>5. Accumulate(s, i) = [recs |-> recs, prev |-> i, p1 |-> r.p1, p2 |-> r.p2]
  BY DEF Accumulate
<1>6. AccumulateAt(s, d, type) = [recs |-> recs, prev |-> i, p1 |-> r.p1, p2 |-> r.p2]
  BY <1>5 DEF AccumulateAt
<1> HIDE DEF recs, r, i
<1> QED
  BY <1>2, <1>3, <1>4, <1>6 DEF Visiting

\* A sequence read from its end.
LEMMA ReverseType ==
  ASSUME NEW S, NEW seq \in Seq(S)
  PROVE  /\ Reverse(seq) \in Seq(S) /\ Len(Reverse(seq)) = Len(seq)
         /\ \A i \in 1..Len(seq) : Reverse(seq)[i] = seq[Len(seq) - i + 1]
<1>1. Len(seq) \in Nat /\ \A i \in 1..Len(seq) : Len(seq) - i + 1 \in 1..Len(seq)
  OBVIOUS
<1>2. Reverse(seq) = [i \in 1..Len(seq) |-> seq[Len(seq) - i + 1]]
  BY <1>1 DEF Reverse
<1>3. \A i \in 1..Len(seq) : seq[Len(seq) - i + 1] \in S
  BY <1>1
<1>4. Reverse(seq) \in [1..Len(seq) -> S]
  BY <1>2, <1>3
<1>5. Reverse(seq) \in Seq(S)
  BY <1>1, <1>4, SeqDef
<1> QED
  BY <1>1, <1>2, <1>4, <1>5, LenProperties

\* The dates are visited from the last to the first.
LEMMA AccumulateChain ==
  ASSUME NEW recs \in Seq(Record), NEW type
  PROVE  \E c \in [0..Len(Reverse(InOrder(Dates(recs)))) -> Visiting] :
            /\ c[0] = [recs |-> recs, prev |-> 0, p1 |-> 0, p2 |-> 0]
                  /\ AccumulateAll(recs, type) = c[Len(Reverse(InOrder(Dates(recs))))]
            /\ \A i \in 1..Len(Reverse(InOrder(Dates(recs)))) :
                  c[i] = AccumulateAt(c[i - 1], Reverse(InOrder(Dates(recs)))[i], type)
<1> DEFINE n == Len(Reverse(InOrder(Dates(recs))))
           F == [p \in Visiting \X (1..n) |->
                 AccumulateAt(p[1], Reverse(InOrder(Dates(recs)))[p[2]], type)]
           Eq(h) == h = [s \in SUBSET (1..n) |->
                           IF s = {} THEN [recs |-> recs, prev |-> 0, p1 |-> 0, p2 |-> 0]
                           ELSE AccumulateAt(h[s \ {Max(s)}],
                                 Reverse(InOrder(Dates(recs)))[Max(s)], type)]
           it == CHOOSE h : Eq(h)
<1>1. n \in Nat /\ DOMAIN Reverse(InOrder(Dates(recs))) = 1..n
       /\ [recs |-> recs, prev |-> 0, p1 |-> 0, p2 |-> 0] \in Visiting
  <2>1. InOrder(Dates(recs)) \in Seq(Nat)
    BY DatesType, InOrderIs
  <2>2. Reverse(InOrder(Dates(recs))) \in Seq(Nat)
    BY <2>1, ReverseType
  <2>3. [recs |-> recs, prev |-> 0, p1 |-> 0, p2 |-> 0] \in Visiting
    BY DEF Visiting
  <2> QED
    BY <2>2, <2>3
<1>2. AccumulateAll(recs, type) = it[1..n]
  BY <1>1 DEF AccumulateAll, FoldLeft, MapThenFoldSet
<1>3. F \in [Visiting \X (1..n) -> Visiting]
  BY <1>1, AccumulateAtType
<1>4. \E h : Eq(h)
  <2>1. PICK g \in [SUBSET (1..n) -> Visiting] :
              IsTable(g, n, [recs |-> recs, prev |-> 0, p1 |-> 0, p2 |-> 0], F)
    <3>1. [recs |-> recs, prev |-> 0, p1 |-> 0, p2 |-> 0] \in Visiting
      BY <1>1
    <3> HIDE DEF F, n
    <3> QED
      BY <1>1, <1>3, <3>1, TableExists
  <2>2. \A s \in SUBSET (1..n) : s # {} =>
           F[<<g[s \ {Max(s)}], Max(s)>>] =
                 AccumulateAt(g[s \ {Max(s)}], Reverse(InOrder(Dates(recs)))[Max(s)], type)
    BY <1>1, <2>1, LastOf
  <2>3. Eq(g)
    BY <2>1, <2>2 DEF IsTable
  <2> QED
    BY <2>3
<1>5. Eq(it)
  BY <1>4
<1>6. /\ it[{}] = [recs |-> recs, prev |-> 0, p1 |-> 0, p2 |-> 0]
      /\ \A i \in 1..n : it[1..i] =
            AccumulateAt(it[1..(i - 1)], Reverse(InOrder(Dates(recs)))[i], type)
  <2> HIDE DEF it
  <2>1. ASSUME NEW i \in 1..n
        PROVE  1..i \in SUBSET (1..n) /\ 1..i # {} /\ Max(1..i) = i
               /\ (1..i) \ {Max(1..i)} = 1..(i - 1)
    <3> HIDE DEF n, F, Eq
    <3>1. n \in Nat
      BY <1>1
    <3>2. 1..i \in SUBSET (1..n) /\ i \in 1..i
      BY <3>1
    <3> QED
      BY <3>1, <3>2, MaxOfFirst
  <2> QED
    BY <1>1, <1>5, <2>1
<1> HIDE DEF it
<1>7. Unrolls(it, n, Visiting, [recs |-> recs, prev |-> 0, p1 |-> 0, p2 |-> 0], F)
  BY <1>6 DEF Unrolls
<1>8. PICK c \in [0..n -> Visiting] :
            IsChain(c, it, n, [recs |-> recs, prev |-> 0, p1 |-> 0, p2 |-> 0], F)
  <2>1. [recs |-> recs, prev |-> 0, p1 |-> 0, p2 |-> 0] \in Visiting
    BY <1>1
  <2> HIDE DEF n, F, Eq
  <2> QED
    BY <1>1, <1>3, <1>7, <2>1, ChainOf
<1>9. \A i \in 1..n : c[i] = AccumulateAt(c[i - 1], Reverse(InOrder(Dates(recs)))[i], type)
  <2>1. \A i \in 1..n : <<c[i - 1], i>> \in Visiting \X (1..n)
    <3> HIDE DEF n, F, Eq
    <3>1. \A i \in 1..n : i - 1 \in 0..n
      BY <1>1
    <3> QED
      BY <3>1
  <2> QED
    BY <1>8, <2>1 DEF IsChain
<1> QED
  BY <1>2, <1>8, <1>9 DEF IsChain

LEMMA AccumulationType ==
  ASSUME NEW r \in Reader, NEW type
  PROVE  computeAccumulationRecords(r, type) \in Reader
<1> DEFINE n == Len(Reverse(InOrder(Dates(r.recs))))
           s == AccumulateAll(r.recs, type)
<1>1. r.recs \in Seq(Record)
  BY DEF Reader
<1>2. InOrder(Dates(r.recs)) \in Seq(Nat)
  BY <1>1, DatesType, InOrderIs
<1>3. n \in 0..n
  BY <1>2, ReverseType
<1>4. s \in Visiting
  <2>1. PICK c \in [0..n -> Visiting] : AccumulateAll(r.recs, type) = c[n]
    BY <1>1, AccumulateChain
  <2> QED
    BY <1>3, <2>1
<1>5. ASSUME NEW t \in Visiting PROVE AccumulateLast(t) \in Seq(Record)
  <2>1. t.prev # 0 => t.recs[t.prev] \in Record /\ t.p2 - t.p1 \in Int
    BY DEF Visiting
  <2>2. t.prev # 0 =>
           Rate(t.recs[t.prev], t.recs[t.prev].tr, t.p2 - t.p1) \in Record
    BY <2>1, RateType
  <2>3. t.recs \in Seq(Record)
    BY DEF Visiting
  <2>4. ASSUME NEW rec \in Record, t.prev # 0
        PROVE  [t.recs EXCEPT ![t.prev] = rec] \in Seq(Record)
    <3>1. t.prev \in DOMAIN t.recs
      BY <2>4 DEF Visiting
    <3> QED
      BY <2>3, <3>1
  <2> QED
    BY <2>2, <2>3, <2>4 DEF AccumulateLast
<1> HIDE DEF s
<1>6. AccumulateLast(s) \in Seq(Record)
  BY <1>4, <1>5
<1> QED
  BY <1>6 DEF computeAccumulationRecords, Reader, s

LEMMA CopyToType ==
  ASSUME NEW r \in Reader, NEW i \in DOMAIN r.recs, NEW d \in Nat
  PROVE  CopyTo(r, i, d) \in Reader
<1>1. r.recs[i] \in Record
  BY DEF Reader
<1>2. [r.recs[i] EXCEPT !.date = d] \in Record
  BY <1>1 DEF Record
<1> QED
  BY <1>2, StoreType DEF CopyTo

LEMMA CopyFirstType ==
  ASSUME NEW r \in Reader, NEW type
  PROVE  copyFirstCumulativeRecord(r, type) \in Reader
<1> DEFINE dates == InOrder(Dates(r.recs))
           having == {d \in Dates(r.recs) : IndexOf(r.recs, type, d) # 0}
           i == IndexOf(r.recs, type, InOrder(having)[1])
<1>1. r.recs \in Seq(Record)
  BY DEF Reader
<1>2. Dates(r.recs) \in SUBSET Nat /\ IsFiniteSet(Dates(r.recs))
  BY <1>1, DatesType
<1>3. having \in SUBSET Nat /\ IsFiniteSet(having)
  BY <1>2, FS_Subset
<1> SUFFICES ASSUME having # {} PROVE CopyTo(r, i, dates[1]) \in Reader
  BY DEF copyFirstCumulativeRecord
<1>4. InOrder(having)[1] \in having
  <2> HIDE DEF having
  <2>1. Orders(InOrder(having), having) /\ InOrder(having) \in Seq(having)
    BY <1>3, InOrderIs
  <2>2. InOrder(having) # <<>>
    BY <2>1 DEF Orders, ToSet
  <2> QED
    BY <2>1, <2>2
<1>5. i \in DOMAIN r.recs
  BY <1>1, <1>4, IndexOfType
<1>6. dates[1] \in Nat
  <2>1. Orders(dates, Dates(r.recs)) /\ dates \in Seq(Nat)
    BY <1>2, InOrderIs
  <2>2. dates # <<>>
    BY <2>1 DEF Orders, ToSet
  <2> QED
    BY <2>1, <2>2
<1> QED
  BY <1>5, <1>6, CopyToType

LEMMA CopyMissingType ==
  ASSUME NEW r \in Reader, NEW type, NEW d \in Nat
  PROVE  CopyMissing(r, type, d) \in Reader
<1>1. r.recs \in Seq(Record)
  BY DEF Reader
<1>2. OfNextDate(r, type, d) # 0 => OfNextDate(r, type, d) \in DOMAIN r.recs
  BY <1>1, IndexOfType DEF OfNextDate
<1> QED
  BY <1>2, CopyToType DEF CopyMissing

\* The dates are visited in order.
LEMMA WavesChain ==
  ASSUME NEW r \in Reader, NEW type
  PROVE  \E c \in [0..Len(InOrder(Dates(r.recs))) -> Reader] :
            /\ c[0] = r /\ copyMissingWaveRecords(r, type) = c[Len(InOrder(Dates(r.recs)))]
            /\ \A i \in 1..Len(InOrder(Dates(r.recs))) :
                  c[i] = CopyMissing(c[i - 1], type, InOrder(Dates(r.recs))[i])
<1> DEFINE n == Len(InOrder(Dates(r.recs)))
           F == [p \in Reader \X (1..n) |->
                 CopyMissing(p[1], type, InOrder(Dates(r.recs))[p[2]])]
           Eq(h) == h = [s \in SUBSET (1..n) |->
                           IF s = {} THEN r
                           ELSE CopyMissing(h[s \ {Max(s)}], type,
                                 InOrder(Dates(r.recs))[Max(s)])]
           it == CHOOSE h : Eq(h)
<1>1. n \in Nat /\ DOMAIN InOrder(Dates(r.recs)) = 1..n
            /\ \A i \in 1..n : InOrder(Dates(r.recs))[i] \in Nat
  <2>1. r.recs \in Seq(Record)
    BY DEF Reader
  <2>2. InOrder(Dates(r.recs)) \in Seq(Nat)
    BY <2>1, DatesType, InOrderIs
  <2> QED
    BY <2>2
<1>2. copyMissingWaveRecords(r, type) = it[1..n]
  BY <1>1 DEF copyMissingWaveRecords, FoldLeft, MapThenFoldSet
<1>3. F \in [Reader \X (1..n) -> Reader]
  BY <1>1, CopyMissingType
<1>4. \E h : Eq(h)
  <2>1. PICK g \in [SUBSET (1..n) -> Reader] : IsTable(g, n, r, F)
    <3>1. r \in Reader
      BY <1>1
    <3> HIDE DEF F, n
    <3> QED
      BY <1>1, <1>3, <3>1, TableExists
  <2>2. \A s \in SUBSET (1..n) : s # {} =>
           F[<<g[s \ {Max(s)}], Max(s)>>] =
                 CopyMissing(g[s \ {Max(s)}], type, InOrder(Dates(r.recs))[Max(s)])
    BY <1>1, <2>1, LastOf
  <2>3. Eq(g)
    BY <2>1, <2>2 DEF IsTable
  <2> QED
    BY <2>3
<1>5. Eq(it)
  BY <1>4
<1>6. /\ it[{}] = r
      /\ \A i \in 1..n : it[1..i] = CopyMissing(it[1..(i - 1)], type, InOrder(Dates(r.recs))[i])
  <2> HIDE DEF it
  <2>1. ASSUME NEW i \in 1..n
        PROVE  1..i \in SUBSET (1..n) /\ 1..i # {} /\ Max(1..i) = i
               /\ (1..i) \ {Max(1..i)} = 1..(i - 1)
    <3> HIDE DEF n, F, Eq
    <3>1. n \in Nat
      BY <1>1
    <3>2. 1..i \in SUBSET (1..n) /\ i \in 1..i
      BY <3>1
    <3> QED
      BY <3>1, <3>2, MaxOfFirst
  <2> QED
    BY <1>1, <1>5, <2>1
<1> HIDE DEF it
<1>7. Unrolls(it, n, Reader, r, F)
  BY <1>6 DEF Unrolls
<1>8. PICK c \in [0..n -> Reader] : IsChain(c, it, n, r, F)
  <2>1. r \in Reader
    BY <1>1
  <2> HIDE DEF n, F, Eq
  <2> QED
    BY <1>1, <1>3, <1>7, <2>1, ChainOf
<1>9. \A i \in 1..n : c[i] = CopyMissing(c[i - 1], type, InOrder(Dates(r.recs))[i])
  <2>1. \A i \in 1..n : <<c[i - 1], i>> \in Reader \X (1..n)
    <3> HIDE DEF n, F, Eq
    <3>1. \A i \in 1..n : i - 1 \in 0..n
      BY <1>1
    <3> QED
      BY <3>1
  <2> QED
    BY <1>8, <2>1 DEF IsChain
<1> QED
  BY <1>2, <1>8, <1>9 DEF IsChain

LEMMA CopyWavesType ==
  ASSUME NEW r \in Reader, NEW type
  PROVE  copyMissingWaveRecords(r, type) \in Reader
<1> DEFINE n == Len(InOrder(Dates(r.recs)))
<1>1. r.recs \in Seq(Record)
  BY DEF Reader
<1>2. n \in 0..n
  BY <1>1, DatesType, InOrderIs
<1>3. PICK c \in [0..n -> Reader] : copyMissingWaveRecords(r, type) = c[n]
  BY WavesChain
<1> QED
  BY <1>2, <1>3

\* What is shown comes from records with dates.
LEMMA AllType ==
  ASSUME NEW r \in Reader, NEW CumRec \in BOOLEAN, NEW WaveRec \in BOOLEAN
  PROVE  AllWaves(AllFirst(AllRates(r), CumRec), WaveRec) \in Reader
<1>1. AllRates(r) \in Reader
  BY AccumulationType DEF AllRates
<1>2. \A s \in Reader : AllFirst(s, CumRec) \in Reader
  BY CopyFirstType DEF AllFirst
<1>3. \A s \in Reader : AllWaves(s, WaveRec) \in Reader
  BY CopyWavesType DEF AllWaves
<1> QED
  BY <1>1, <1>2, <1>3

LEMMA ReadFilesType ==
  ASSUME NEW files \in Seq(Seq(Message)), NEW newestFile
  PROVE  ReadFiles(files, newestFile) \in Reading
<1>1. Len(files) \in 0..Len(files)
  OBVIOUS
<1> QED
  BY <1>1, FilesChain

\* The records a load is made of.
Final(files, CumRec, WaveRec, newestFile) ==
  AllWaves(AllFirst(AllRates(ReadFiles(files, newestFile).reader), CumRec), WaveRec)

LEMMA LoadIs ==
  ASSUME NEW files \in Seq(Seq(Message)), NEW CumRec \in BOOLEAN,
         NEW WaveRec \in BOOLEAN, NEW newestFile \in BOOLEAN
  PROVE  LET load == GRIBFile(files, CumRec, WaveRec, newestFile)
             read == ReadFiles(files, newestFile)
             final == Final(files, CumRec, WaveRec, newestFile)
         IN  /\ read \in Reading /\ final \in Reader
             /\ load.ok = read.ok
             /\ load.recs = IF load.ok THEN final.recs ELSE read.reader.recs
             /\ load.sets = IF load.ok THEN RecordSets(final.recs) ELSE <<>>
             /\ load.ok => DOMAIN load.sets = Dates(final.recs)
<1>1. ReadFiles(files, newestFile) \in Reading
  BY ReadFilesType
<1>2. ReadFiles(files, newestFile).reader \in Reader
      /\ ReadFiles(files, newestFile).ok \in BOOLEAN
  BY <1>1 DEF Reading
<1>3. Final(files, CumRec, WaveRec, newestFile) \in Reader
  BY <1>2, AllType DEF Final
<1>4. GRIBFile(files, CumRec, WaveRec, newestFile) =
         IF ReadFiles(files, newestFile).ok
         THEN Loaded(Final(files, CumRec, WaveRec, newestFile).recs)
         ELSE [ok |-> FALSE, recs |-> ReadFiles(files, newestFile).reader.recs,
               sets |-> <<>>]
  BY DEF GRIBFile, Final
<1> DEFINE load == GRIBFile(files, CumRec, WaveRec, newestFile)
           read == ReadFiles(files, newestFile)
           final == Final(files, CumRec, WaveRec, newestFile)
<1>5. /\ read \in Reading /\ final \in Reader /\ read.ok \in BOOLEAN
      /\ load = IF read.ok THEN Loaded(final.recs)
                ELSE [ok |-> FALSE, recs |-> read.reader.recs, sets |-> <<>>]
  BY <1>1, <1>2, <1>3, <1>4
<1> HIDE DEF load, read, final
<1>6. DOMAIN RecordSets(final.recs) = Dates(final.recs)
  BY DEF RecordSets
<1>7. CASE read.ok
  BY <1>5, <1>6, <1>7 DEF Loaded, load, read, final
<1>8. CASE ~read.ok
  <2>1. load = [ok |-> FALSE, recs |-> read.reader.recs, sets |-> <<>>]
    BY <1>5, <1>8
  <2>2. load.ok = FALSE /\ load.recs = read.reader.recs /\ load.sets = <<>>
    BY <2>1
  <2>3. read.ok = FALSE
    BY <1>5, <1>8
  <2> QED
    BY <1>5, <2>2, <2>3 DEF load, read, final
<1> QED
  BY <1>7, <1>8

\* The dates of a load are finitely many numbers.
LEMMA LoadDates ==
  ASSUME NEW files \in Seq(Seq(Message)), NEW CumRec \in BOOLEAN,
         NEW WaveRec \in BOOLEAN, NEW newestFile \in BOOLEAN,
         GRIBFile(files, CumRec, WaveRec, newestFile).ok
  PROVE  LET dates == DOMAIN GRIBFile(files, CumRec, WaveRec, newestFile).sets
         IN  InOrder(dates) \in Seq(Nat) /\ Orders(InOrder(dates), dates)
<1> DEFINE final == Final(files, CumRec, WaveRec, newestFile)
<1>1. final \in Reader
      /\ DOMAIN GRIBFile(files, CumRec, WaveRec, newestFile).sets = Dates(final.recs)
  BY LoadIs
<1>2. final.recs \in Seq(Record)
  BY <1>1 DEF Reader
<1> HIDE DEF final
<1> QED
  BY <1>1, <1>2, DatesType, InOrderIs

-----------------------------------------------------------------------------
(***************************************************************************)
(* What storing, reading and deriving add.                                 *)
(***************************************************************************)
\* Records that are added to, none of the old ones changed.
Grown(old, new) == Len(old) <= Len(new) /\ \A i \in DOMAIN old : new[i] = old[i]

\* A record of this type and date.
Holds(recs, type, date) ==
  \E i \in DOMAIN recs : recs[i].type = type /\ recs[i].date = date

\* Records of this set only.
AllIn(recs, Q) == \A i \in DOMAIN recs : recs[i] \in Q

\* Stored or, at the limit, refused.
Adds(r, s, rec) ==
  \/ s.recs = r.recs /\ s.limit
  \/ /\ Len(r.recs) < MaxRecords
     /\ s.recs = Append(r.recs, rec) /\ s.limit = r.limit /\ s.ok = r.ok

LEMMA GrownTrans ==
  ASSUME NEW a \in Seq(Record), NEW b \in Seq(Record), NEW c \in Seq(Record),
         Grown(a, b), Grown(b, c)
  PROVE  Grown(a, c)
<1>1. \A i \in DOMAIN a : i \in DOMAIN b
  BY DEF Grown
<1> QED
  BY <1>1 DEF Grown

LEMMA StoreAdds ==
  ASSUME NEW r \in Reader, NEW rec \in Record
  PROVE  Adds(r, storeRecordInMap(r, rec), rec)
<1>1. Len(r.recs) \in Nat /\ MaxRecords \in Nat
  BY MaxRecordsAssumption DEF Reader
<1> DEFINE s == storeRecordInMap(r, rec)
<1>2. CASE Len(r.recs) >= MaxRecords
  <2>1. s = [r EXCEPT !.ok = FALSE, !.limit = TRUE]
    BY <1>2 DEF storeRecordInMap
  <2>2. s.recs = r.recs /\ s.limit
    BY <2>1 DEF Reader
  <2> QED
    BY <2>2 DEF Adds
<1>3. CASE ~ (Len(r.recs) >= MaxRecords)
  <2>1. s = [r EXCEPT !.recs = Append(r.recs, rec)]
    BY <1>3 DEF storeRecordInMap
  <2>2. s.recs = Append(r.recs, rec) /\ s.limit = r.limit /\ s.ok = r.ok
    BY <2>1 DEF Reader
  <2> QED
    BY <1>1, <1>3, <2>2 DEF Adds
<1> QED
  BY <1>2, <1>3

LEMMA AddedIs ==
  ASSUME NEW r \in Reader, NEW rec \in Record, NEW s \in Reader, Adds(r, s, rec)
  PROVE  /\ Grown(r.recs, s.recs)
         /\ Len(r.recs) <= MaxRecords => Len(s.recs) <= MaxRecords
         /\ \A i \in DOMAIN s.recs : i \in DOMAIN r.recs \/ s.recs[i] = rec
         /\ ~s.limit => /\ s.ok = r.ok /\ ~r.limit
                        /\ \E i \in DOMAIN s.recs : s.recs[i] = rec
<1>1. /\ r.recs \in Seq(Record) /\ Len(r.recs) \in Nat /\ MaxRecords \in Nat
      /\ DOMAIN r.recs = 1..Len(r.recs)
  BY MaxRecordsAssumption DEF Reader
<1>2. CASE s.recs = r.recs /\ s.limit
  BY <1>1, <1>2 DEF Grown
<1>3. CASE /\ Len(r.recs) < MaxRecords
           /\ s.recs = Append(r.recs, rec) /\ s.limit = r.limit /\ s.ok = r.ok
  <2>1. /\ Len(s.recs) = Len(r.recs) + 1 /\ DOMAIN s.recs = 1..(Len(r.recs) + 1)
        /\ s.recs[Len(r.recs) + 1] = rec
        /\ \A i \in DOMAIN r.recs : s.recs[i] = r.recs[i]
    BY <1>1, <1>3
  <2>2. Len(r.recs) + 1 \in DOMAIN s.recs
    BY <1>1, <2>1
  <2>3. ~s.limit => s.ok = r.ok /\ ~r.limit
    BY <1>3
  <2> QED
    BY <1>1, <1>3, <2>1, <2>2, <2>3 DEF Grown
<1> QED
  BY <1>2, <1>3 DEF Adds

\* A message that is kept has its record, unless the limit is reached.
LEMMA ReadMessageIs ==
  ASSUME NEW r \in Reader, Len(r.recs) <= MaxRecords, NEW m \in Message,
         NEW s, s = ReadMessage(r, m),
         NEW Q,
         ~r.limit => AllIn(r.recs, Q) /\ (m.type \in Stored => RecordOf(m) \in Q)
  PROVE  /\ s \in Reader /\ Len(s.recs) <= MaxRecords /\ Grown(r.recs, s.recs)
         /\ ~s.limit =>
               /\ ~r.limit /\ AllIn(s.recs, Q) /\ s.ok
               /\ m.type \in Stored => \E i \in DOMAIN s.recs : s.recs[i] = RecordOf(m)
<1>1. s \in Reader /\ r.recs \in Seq(Record) /\ Grown(r.recs, r.recs)
  BY ReadMessageType DEF Reader, Grown
<1>2. CASE r.limit
  BY <1>1, <1>2 DEF ReadMessage
<1>3. CASE ~r.limit /\ m.type \notin Stored
  <2>1. s = [r EXCEPT !.ok = TRUE]
    BY <1>3 DEF ReadMessage
  <2>2. s.recs = r.recs /\ s.ok
    BY <2>1 DEF Reader
  <2> QED
    BY <1>1, <1>3, <2>2
<1>4. CASE ~r.limit /\ m.type \in Stored
  <2> DEFINE o == [r EXCEPT !.ok = TRUE]
  <2>1. /\ o \in Reader /\ o.recs = r.recs /\ o.ok /\ o.limit = r.limit
        /\ RecordOf(m) \in Record
    BY RecordOfType DEF Reader
  <2>2. s = storeRecordInMap(o, RecordOf(m))
    BY <1>4 DEF ReadMessage
  <2>3. Adds(o, s, RecordOf(m))
    BY <2>1, <2>2, StoreAdds
  <2>4. AllIn(o.recs, Q) /\ Len(o.recs) <= MaxRecords /\ RecordOf(m) \in Q
    BY <1>4, <2>1
  <2> DEFINE rec == RecordOf(m)
  <2>5. /\ o \in Reader /\ s \in Reader /\ rec \in Record /\ Adds(o, s, rec)
        /\ AllIn(o.recs, Q) /\ rec \in Q /\ Len(o.recs) <= MaxRecords
    BY <1>1, <2>1, <2>3, <2>4
  <2> HIDE DEF o, rec
  <2>6. /\ Grown(o.recs, s.recs)
        /\ Len(o.recs) <= MaxRecords => Len(s.recs) <= MaxRecords
        /\ \A i \in DOMAIN s.recs : i \in DOMAIN o.recs \/ s.recs[i] = rec
        /\ ~s.limit => /\ s.ok = o.ok /\ ~o.limit
                       /\ \E i \in DOMAIN s.recs : s.recs[i] = rec
    BY <2>5, AddedIs
  <2>7. AllIn(s.recs, Q)
    BY <2>5, <2>6 DEF AllIn, Grown
  <2> QED
    BY <1>1, <1>4, <2>1, <2>5, <2>6, <2>7 DEF rec
<1> QED
  BY <1>2, <1>3, <1>4

\* What a reader keeps of these messages, unless the limit is reached.
KeepsAll(recs, messages) ==
  \A i \in DOMAIN messages : messages[i].type \in Stored =>
     \E j \in DOMAIN recs : recs[j] = RecordOf(messages[i])

LEMMA KeepsGrown ==
  ASSUME NEW a \in Seq(Record), NEW b \in Seq(Record), Grown(a, b), NEW x,
         \E j \in DOMAIN a : a[j] = x
  PROVE  \E j \in DOMAIN b : b[j] = x
BY DEF Grown

LEMMA ReadAllIs ==
  ASSUME NEW r \in Reader, Len(r.recs) <= MaxRecords, ~r.limit, ~r.ok,
         NEW Q, AllIn(r.recs, Q), NEW messages \in Seq(Message),
         \A i \in DOMAIN messages :
            messages[i].type \in Stored => RecordOf(messages[i]) \in Q
  PROVE  LET s == readAllGribRecords(r, messages)
         IN  /\ s \in Reader /\ Len(s.recs) <= MaxRecords /\ Grown(r.recs, s.recs)
             /\ ~s.limit => /\ AllIn(s.recs, Q) /\ (s.ok <=> messages # <<>>)
                            /\ KeepsAll(s.recs, messages)
<1> DEFINE n == Len(messages)
<1>1. PICK c \in [0..n -> Reader] :
         /\ c[0] = r /\ readAllGribRecords(r, messages) = c[n]
         /\ \A i \in 1..n : c[i] = ReadMessage(c[i - 1], messages[i])
  BY ReadChain
<1>2. n \in Nat /\ DOMAIN messages = 1..n /\ \A i \in 1..n : messages[i] \in Message
  OBVIOUS
<1> DEFINE Good(i) == /\ Len(c[i].recs) <= MaxRecords /\ Grown(r.recs, c[i].recs)
                      /\ ~c[i].limit =>
                            /\ AllIn(c[i].recs, Q) /\ (c[i].ok <=> i > 0)
                            /\ \A k \in 1..i : messages[k].type \in Stored =>
                                  \E j \in DOMAIN c[i].recs :
                                     c[i].recs[j] = RecordOf(messages[k])
           G == {i \in 0..n : Good(i)}
<1>3. 0 \in G
  <2>1. 0 \in 0..n /\ 1..0 = {} /\ Grown(r.recs, r.recs)
    BY DEF Reader, Grown
  <2> QED
    BY <1>1, <2>1
<1>4. ASSUME NEW i \in 1..n, i - 1 \in G PROVE i \in G
  <2>1. /\ i \in 0..n /\ i - 1 \in 0..n /\ i > 0
        /\ c[i - 1] \in Reader /\ c[i] \in Reader /\ messages[i] \in Message
        /\ \A k \in 1..i : k = i \/ k \in 1..(i - 1)
    BY <1>1, <1>2
  <2>2. Good(i - 1)
    BY <1>4
  <2>3. /\ Len(c[i].recs) <= MaxRecords /\ Grown(c[i - 1].recs, c[i].recs)
        /\ ~c[i].limit =>
              /\ ~c[i - 1].limit /\ AllIn(c[i].recs, Q) /\ c[i].ok
              /\ messages[i].type \in Stored =>
                    \E j \in DOMAIN c[i].recs : c[i].recs[j] = RecordOf(messages[i])
    <3>1. /\ c[i] = ReadMessage(c[i - 1], messages[i]) /\ Len(c[i - 1].recs) <= MaxRecords
          /\ ~c[i - 1].limit => AllIn(c[i - 1].recs, Q)
          /\ messages[i].type \in Stored => RecordOf(messages[i]) \in Q
      BY <1>1, <1>2, <2>2
    <3> HIDE DEF Good, n, G
    <3> QED
      BY <2>1, <3>1, ReadMessageIs
  <2>4. /\ r.recs \in Seq(Record) /\ c[i - 1].recs \in Seq(Record)
        /\ c[i].recs \in Seq(Record)
    BY <2>1 DEF Reader
  <2>5. Grown(r.recs, c[i].recs)
    BY <2>2, <2>3, <2>4, GrownTrans
  <2>6. ASSUME ~c[i].limit, NEW k \in 1..i, messages[k].type \in Stored
        PROVE  \E j \in DOMAIN c[i].recs : c[i].recs[j] = RecordOf(messages[k])
    <3>1. CASE k = i
      BY <2>3, <2>6, <3>1
    <3>2. CASE k \in 1..(i - 1)
      <4>1. \E j \in DOMAIN c[i - 1].recs : c[i - 1].recs[j] = RecordOf(messages[k])
        BY <2>2, <2>3, <2>6, <3>2
      <4> QED
        BY <2>3, <2>4, <4>1, KeepsGrown
    <3> QED
      BY <2>1, <3>1, <3>2
  <2>7. Good(i)
    BY <2>1, <2>3, <2>5, <2>6
  <2> QED
    BY <2>1, <2>7
<1>5. Good(n)
  <2>1. 0..n \subseteq G
    <3> HIDE DEF G, n
    <3> QED
      BY <1>2, <1>3, <1>4, StepsInduction
  <2> QED
    BY <1>2, <2>1
<1>6. n > 0 <=> messages # <<>>
  BY <1>2
<1>7. c[n] \in Reader
  BY <1>1, <1>2
<1> QED
  BY <1>1, <1>2, <1>5, <1>6, <1>7 DEF KeepsAll

DerivedTypes == {"GUST", "DEWPOINT"}

\* A stage of the reader that only adds derived records of this set.
Stage(r, s, Q) ==
  /\ s \in Reader /\ (Len(r.recs) <= MaxRecords => Len(s.recs) <= MaxRecords)
  /\ Grown(r.recs, s.recs) /\ (AllIn(r.recs, Q) => AllIn(s.recs, Q))
  /\ \A i \in DOMAIN s.recs : i \in DOMAIN r.recs \/ s.recs[i].type \in DerivedTypes
  /\ ~s.limit => (s.ok <=> r.ok) /\ ~r.limit

LEMMA StageTrans ==
  ASSUME NEW r \in Reader, NEW s, NEW t, NEW Q, Stage(r, s, Q), Stage(s, t, Q)
  PROVE  Stage(r, t, Q)
<1>1. /\ r.recs \in Seq(Record) /\ s.recs \in Seq(Record) /\ t.recs \in Seq(Record)
      /\ Grown(r.recs, s.recs) /\ Grown(s.recs, t.recs)
  BY DEF Stage, Reader
<1>2. Grown(r.recs, t.recs)
  BY <1>1, GrownTrans
<1>3. \A i \in DOMAIN t.recs : i \in DOMAIN r.recs \/ t.recs[i].type \in DerivedTypes
  <2>1. \A i \in DOMAIN s.recs : t.recs[i] = s.recs[i]
    BY <1>1 DEF Grown
  <2> QED
    BY <2>1 DEF Stage
<1> QED
  BY <1>2, <1>3 DEF Stage

LEMMA StageNone == ASSUME NEW r \in Reader, NEW Q PROVE Stage(r, r, Q)
BY DEF Stage, Reader, Grown

LEMMA StoreIsStage ==
  ASSUME NEW r \in Reader, NEW rec \in Record, NEW Q, AllIn(r.recs, Q) => rec \in Q,
         rec.type \in DerivedTypes
  PROVE  Stage(r, storeRecordInMap(r, rec), Q)
<1> DEFINE s == storeRecordInMap(r, rec)
<1>1. s \in Reader /\ Adds(r, s, rec)
  BY StoreType, StoreAdds
<1> HIDE DEF s
<1>2. /\ Grown(r.recs, s.recs)
      /\ Len(r.recs) <= MaxRecords => Len(s.recs) <= MaxRecords
      /\ \A i \in DOMAIN s.recs : i \in DOMAIN r.recs \/ s.recs[i] = rec
      /\ ~s.limit => s.ok = r.ok /\ ~r.limit
  BY <1>1, AddedIs
<1>3. AllIn(r.recs, Q) => AllIn(s.recs, Q)
  BY <1>2 DEF AllIn, Grown
<1> QED
  BY <1>1, <1>2, <1>3 DEF Stage, s

\* A set that has what is derived of its records.
Derived(Q, type) == \A x \in Q : [x EXCEPT !.type = type] \in Q

LEMMA DerivedStored == DerivedTypes \subseteq Stored
BY DEF DerivedTypes, Stored, SlotOf

LEMMA DeriveAtIsStage ==
  ASSUME NEW r \in Reader, NEW d, NEW first, NEW second, NEW type \in DerivedTypes,
         NEW Q, Derived(Q, type)
  PROVE  Stage(r, DeriveAt(r, d, first, second, type), Q)
<1> DEFINE i == IndexOf(r.recs, first, d)
           rec == [r.recs[i] EXCEPT !.type = type]
<1>1. r.recs \in Seq(Record)
  BY DEF Reader
<1>2. i # 0 => i \in DOMAIN r.recs /\ r.recs[i] \in Record
  BY <1>1, IndexOfType
<1>3. i # 0 => /\ rec \in Record /\ rec.type \in DerivedTypes
               /\ AllIn(r.recs, Q) => rec \in Q
  BY <1>2, DerivedStored DEF Record, AllIn, Derived
<1>4. i # 0 => Stage(r, storeRecordInMap(r, rec), Q)
  <2> HIDE DEF i, rec
  <2> QED
    BY <1>3, StoreIsStage
<1> QED
  BY <1>4, StageNone DEF DeriveAt

LEMMA DeriveIsStage ==
  ASSUME NEW r \in Reader, NEW first, NEW second, NEW type \in DerivedTypes,
         NEW Q, Derived(Q, type)
  PROVE  Stage(r, Derive(r, first, second, type), Q)
<1>0. Derive(r, first, second, type) \in Reader
  BY DeriveType, DerivedStored
<1>1. PICK c \in [0..Len(InOrder(Dates(r.recs))) -> Reader] :
         /\ c[0] = r
         /\ Derive(r, first, second, type) = c[Len(InOrder(Dates(r.recs)))]
         /\ \A i \in 1..Len(InOrder(Dates(r.recs))) :
               c[i] = DeriveAt(c[i - 1], InOrder(Dates(r.recs))[i], first, second, type)
  BY <1>0, DeriveChain, DerivedStored
<1> DEFINE dates == InOrder(Dates(r.recs))
           n == Len(dates)
<1>2. /\ c \in [0..n -> Reader] /\ c[0] = r
      /\ Derive(r, first, second, type) = c[n]
      /\ \A i \in 1..n : c[i] = DeriveAt(c[i - 1], dates[i], first, second, type)
  BY <1>1
<1>3. n \in Nat
  <2>1. r.recs \in Seq(Record)
    BY DEF Reader
  <2>2. dates \in Seq(Nat)
    BY <2>1, DatesType, InOrderIs
  <2> QED
    BY <2>2
<1> HIDE DEF n, dates
<1> DEFINE G == {i \in 0..n : Stage(r, c[i], Q)}
<1>4. 0 \in G
  BY <1>2, <1>3, StageNone
<1>5. ASSUME NEW i \in 1..n, i - 1 \in G PROVE i \in G
  <2>1. i \in 0..n /\ c[i - 1] \in Reader /\ Stage(r, c[i - 1], Q)
    BY <1>2, <1>3, <1>5
  <2>2. Stage(c[i - 1], c[i], Q)
    BY <1>2, <2>1, DeriveAtIsStage
  <2> QED
    BY <2>1, <2>2, StageTrans
<1>6. 0..n \subseteq G
  <2> HIDE DEF G
  <2> QED
    BY <1>3, <1>4, <1>5, StepsInduction
<1> QED
  BY <1>2, <1>3, <1>6

\* A file is read from a clean state, and then only derived records are added.
LEMMA OpenFileStages ==
  ASSUME NEW r \in Reader, NEW Q, Derived(Q, "GUST"), Derived(Q, "DEWPOINT"),
         NEW file \in Seq(Message)
  PROVE  LET o == [r EXCEPT !.ok = FALSE, !.limit = FALSE]
             a == readAllGribRecords(o, file)
         IN  /\ o \in Reader /\ o.recs = r.recs /\ ~o.ok /\ ~o.limit
             /\ a \in Reader /\ Stage(a, openFile(r, file), Q)
<1> DEFINE o == [r EXCEPT !.ok = FALSE, !.limit = FALSE]
           a == readAllGribRecords(o, file)
           g == AddGusts(a)
           s == AddDewPoints(g)
<1>1. o \in Reader /\ o.recs = r.recs /\ ~o.ok /\ ~o.limit
  BY DEF Reader
<1> HIDE DEF o
<1>2. a \in Reader
  BY <1>1, ReadAllType
<1>3. "GUST" \in DerivedTypes /\ "DEWPOINT" \in DerivedTypes
  BY DEF DerivedTypes
<1> HIDE DEF a
<1>4. Stage(a, g, Q)
  BY <1>2, <1>3, DeriveIsStage, StageNone DEF AddGusts
<1>5. g \in Reader
  BY <1>4 DEF Stage
<1> HIDE DEF g
<1>6. Stage(g, s, Q)
  BY <1>3, <1>5, DeriveIsStage, StageNone DEF AddDewPoints
<1> HIDE DEF s
<1>7. Stage(a, s, Q)
  BY <1>2, <1>4, <1>6, StageTrans
<1>8. openFile(r, file) = s
  BY DEF openFile, readGribFileContent, o, a, g, s
<1> QED
  BY <1>1, <1>2, <1>7, <1>8 DEF a, o

\* A file read within the limit is kept whole; only an empty one is not ok.
LEMMA OpenFileIs ==
  ASSUME NEW r \in Reader, Len(r.recs) <= MaxRecords, NEW Q, AllIn(r.recs, Q),
         Derived(Q, "GUST"), Derived(Q, "DEWPOINT"), NEW file \in Seq(Message),
         \A i \in DOMAIN file : file[i].type \in Stored => RecordOf(file[i]) \in Q
  PROVE  LET s == openFile(r, file)
         IN  /\ s \in Reader /\ Len(s.recs) <= MaxRecords /\ Grown(r.recs, s.recs)
             /\ ~s.limit => /\ AllIn(s.recs, Q) /\ (s.ok <=> file # <<>>)
                            /\ KeepsAll(s.recs, file)
<1> DEFINE o == [r EXCEPT !.ok = FALSE, !.limit = FALSE]
           a == readAllGribRecords(o, file)
           s == openFile(r, file)
<1>1. /\ o \in Reader /\ o.recs = r.recs /\ ~o.ok /\ ~o.limit
      /\ a \in Reader /\ Stage(a, s, Q)
  BY OpenFileStages
<1> HIDE DEF o
<1>2. /\ Len(a.recs) <= MaxRecords /\ Grown(o.recs, a.recs)
      /\ ~a.limit => /\ AllIn(a.recs, Q) /\ (a.ok <=> file # <<>>)
                     /\ KeepsAll(a.recs, file)
  BY <1>1, ReadAllIs
<1> HIDE DEF a, s
<1>3. /\ o.recs \in Seq(Record) /\ a.recs \in Seq(Record) /\ s.recs \in Seq(Record)
      /\ s \in Reader /\ Grown(a.recs, s.recs)
  BY <1>1 DEF Stage, Reader
<1>4. Grown(r.recs, s.recs)
  BY <1>1, <1>2, <1>3, GrownTrans
<1>5. KeepsAll(a.recs, file) => KeepsAll(s.recs, file)
  <2>1. \A x : (\E j \in DOMAIN a.recs : a.recs[j] = x) =>
                  \E j \in DOMAIN s.recs : s.recs[j] = x
    BY <1>3, KeepsGrown
  <2> QED
    BY <2>1 DEF KeepsAll
<1> QED
  BY <1>1, <1>2, <1>4, <1>5 DEF Stage, s

-----------------------------------------------------------------------------
(***************************************************************************)
(* The files.                                                              *)
(***************************************************************************)
\* One file of those a load reads.
ReadStep(s, t, file) ==
  \/ t = s /\ (t.reader.limit \/ file = <<>>)
  \/ /\ ~s.reader.limit
     /\ t = [reader |-> openFile(s.reader, file),
             ok |-> ~openFile(s.reader, file).limit
                    /\ (s.ok \/ openFile(s.reader, file).ok)]

\* The files are read in turn, the ones that FilesRead leaves empty not at all.
LEMMA ReadSteps ==
  ASSUME NEW files \in Seq(Seq(Message)), NEW newestFile \in BOOLEAN
  PROVE  LET read == FilesRead(files, newestFile)
         IN  \E c \in [0..Len(files) -> Reading] :
                /\ c[0] = [reader |-> NewReader, ok |-> FALSE]
                /\ ReadFiles(files, newestFile) = c[Len(files)]
                /\ \A k \in 1..Len(files) : ReadStep(c[k - 1], c[k], read[k])
                /\ \A k \in 0..Len(files) :
                      /\ c[k].ok => ~c[k].reader.limit
                      /\ Len(c[k].reader.recs) <= MaxRecords
<1> DEFINE n == Len(files)
           read == FilesRead(files, newestFile)
<1>1. PICK c \in [0..n -> Reading] :
         /\ c[0] = [reader |-> NewReader, ok |-> FALSE]
         /\ ReadFiles(files, newestFile) = c[n]
         /\ \A k \in 1..n : c[k] = ReadFile(c[k - 1], files[k], newestFile)
  BY FilesChain
<1>2. n \in Nat /\ DOMAIN files = 1..n /\ \A k \in 1..n : files[k] \in Seq(Message)
  OBVIOUS
<1>3. \A k \in 1..n :
         read[k] = IF newestFile /\ \E j \in 1..(k - 1) : files[j] # <<>>
                   THEN <<>> ELSE files[k]
  BY <1>2 DEF FilesRead
<1> DEFINE Sound(k) ==
             LET s == c[k]
             IN  /\ s.ok => ~s.reader.limit
                 /\ Len(s.reader.recs) <= MaxRecords
                 /\ ~s.reader.limit => (s.ok <=> \E j \in 1..k : files[j] # <<>>)
           G == {k \in 0..n : Sound(k)}
<1>4. 0 \in G
  <2>1. c[0].reader.recs = <<>> /\ ~c[0].reader.limit /\ ~c[0].ok
    BY <1>1 DEF NewReader
  <2>2. Len(c[0].reader.recs) <= MaxRecords /\ 1..0 = {} /\ 0 \in 0..n
    BY <1>2, <2>1, MaxRecordsAssumption
  <2> QED
    BY <2>1, <2>2
<1>5. ASSUME NEW k \in 1..n, k - 1 \in G
      PROVE  k \in G /\ ReadStep(c[k - 1], c[k], read[k])
  <2> DEFINE s == c[k - 1]
             r == openFile(s.reader, files[k])
             t == [reader |-> r, ok |-> ~r.limit /\ (s.ok \/ r.ok)]
  <2>1. /\ Sound(k - 1) /\ k \in 0..n /\ s \in Reading /\ s.reader \in Reader
        /\ c[k] \in Reading /\ files[k] \in Seq(Message)
        /\ c[k] = IF s.reader.limit \/ (s.ok /\ newestFile) THEN s ELSE t
    <3>1. k - 1 \in 0..n /\ k \in 0..n
      BY <1>2
    <3>2. c[k] = ReadFile(s, files[k], newestFile)
      BY <1>1
    <3> QED
      BY <1>2, <1>5, <3>1, <3>2 DEF ReadFile, Reading
  <2>2. \A j : j \in 1..k <=> j \in 1..(k - 1) \/ j = k
    BY <1>2
  <2>3. CASE s.reader.limit
    BY <2>1, <2>3 DEF ReadStep
  <2>4. CASE ~s.reader.limit /\ s.ok /\ newestFile
    <3>1. read[k] = <<>> /\ \E j \in 1..k : files[j] # <<>>
      BY <1>3, <2>1, <2>2, <2>4
    <3>2. c[k] = s
      BY <2>1, <2>4
    <3> QED
      BY <2>1, <2>4, <3>1, <3>2 DEF ReadStep
  <2>5. CASE ~s.reader.limit /\ ~(s.ok /\ newestFile)
    <3>1. read[k] = files[k]
      BY <1>3, <2>1, <2>5
    <3>2. c[k] = t
      BY <2>1, <2>5
    <3> DEFINE Q == Record
    <3>3. /\ r \in Reader /\ Len(r.recs) <= MaxRecords
          /\ ~r.limit => (r.ok <=> files[k] # <<>>)
      <4>1. AllIn(s.reader.recs, Q)
        BY <2>1 DEF Reader, AllIn
      <4>2. Derived(Q, "GUST") /\ Derived(Q, "DEWPOINT")
        <5>1. "GUST" \in Stored /\ "DEWPOINT" \in Stored
          BY DEF Stored, SlotOf
        <5> QED
          BY <5>1 DEF Derived, Record
      <4>3. \A i \in DOMAIN files[k] : RecordOf(files[k][i]) \in Q
        BY <2>1, RecordOfType
      <4>4. Len(s.reader.recs) <= MaxRecords
        BY <2>1
      <4> HIDE DEF Q, r, s, n, Sound, G
      <4> QED
        BY <2>1, <4>1, <4>2, <4>3, <4>4, OpenFileIs DEF r
    <3> HIDE DEF r
    <3>4. c[k].reader = r /\ (c[k].ok <=> ~r.limit /\ (s.ok \/ r.ok))
      <4> DEFINE some == ~r.limit /\ (s.ok \/ r.ok)
      <4>1. c[k] = [reader |-> r, ok |-> some]
        BY <3>2
      <4> HIDE DEF some
      <4>2. c[k].reader = r /\ c[k].ok = some
        BY <4>1
      <4> QED
        BY <4>2 DEF some
    <3>5. Sound(k)
      BY <2>1, <2>2, <2>5, <3>3, <3>4
    <3>6. ReadStep(s, c[k], read[k])
      BY <2>5, <3>1, <3>2 DEF ReadStep, r
    <3> QED
      BY <2>1, <3>5, <3>6
  <2> QED
    BY <2>3, <2>4, <2>5
<1>6. 0..n \subseteq G
  <2> HIDE DEF G, n
  <2> QED
    BY <1>2, <1>4, <1>5, StepsInduction
<1>7. \A k \in 1..n : ReadStep(c[k - 1], c[k], read[k])
  <2>1. \A k \in 1..n : k - 1 \in 0..n
    BY <1>2
  <2> HIDE DEF G, n, read
  <2> QED
    BY <1>5, <1>6, <2>1
<1>8. \A k \in 0..n : (c[k].ok => ~c[k].reader.limit) /\ Len(c[k].reader.recs) <= MaxRecords
  BY <1>6
<1> HIDE DEF read
<1> QED
  BY <1>1, <1>7, <1>8 DEF read

LEMMA KeptIs ==
  ASSUME NEW files \in Seq(Seq(Message)), NEW newestFile \in BOOLEAN
  PROVE  LET read == FilesRead(files, newestFile)
         IN  /\ DOMAIN read = 1..Len(files) /\ \A k \in 1..Len(files) : read[k] \in Seq(Message)
             /\ \A m : m \in Kept(read) <=>
                   \E k \in 1..Len(files) : \E i \in DOMAIN read[k] :
                      m = read[k][i] /\ m.type \in Stored
             /\ Kept(read) \subseteq Message
<1> DEFINE read == FilesRead(files, newestFile)
<1>1. /\ DOMAIN read = 1..Len(files)
      /\ \A k \in 1..Len(files) : read[k] = files[k] \/ read[k] = <<>>
  BY DEF FilesRead
<1> HIDE DEF read
<1>2. \A k \in 1..Len(files) : read[k] \in Seq(Message)
  <2>1. <<>> \in Seq(Message) /\ \A k \in 1..Len(files) : files[k] \in Seq(Message)
    OBVIOUS
  <2> QED
    BY <1>1, <2>1
<1>3. \A m : m \in Kept(read) <=>
         \E k \in 1..Len(files) : \E i \in DOMAIN read[k] :
            m = read[k][i] /\ m.type \in Stored
  <2>1. ASSUME NEW m \in Kept(read)
        PROVE  \E k \in 1..Len(files) : \E i \in DOMAIN read[k] :
                  m = read[k][i] /\ m.type \in Stored
    <3>1. PICK f \in ToSet(read) : m \in ToSet(f) /\ m.type \in Stored
      BY DEF Kept
    <3>2. PICK k \in DOMAIN read : f = read[k]
      BY DEF ToSet
    <3>3. PICK i \in DOMAIN f : m = f[i]
      BY <3>1 DEF ToSet
    <3> QED
      BY <1>1, <3>1, <3>2, <3>3
  <2>2. ASSUME NEW m, NEW k \in 1..Len(files), NEW i \in DOMAIN read[k],
               m = read[k][i], m.type \in Stored
        PROVE  m \in Kept(read)
    <3>1. read[k] \in ToSet(read)
      BY <1>1 DEF ToSet
    <3>2. m \in ToSet(read[k])
      BY <2>2 DEF ToSet
    <3> QED
      BY <2>2, <3>1, <3>2 DEF Kept
  <2> QED
    BY <2>1, <2>2
<1>4. Kept(read) \subseteq Message
  BY <1>2, <1>3
<1> QED
  BY <1>1, <1>2, <1>3, <1>4 DEF read

\* Within the memory budget every message that is kept has its record.
LEMMA FilesAre ==
  ASSUME NEW files \in Seq(Seq(Message)), NEW newestFile \in BOOLEAN,
         NEW Q, Derived(Q, "GUST"), Derived(Q, "DEWPOINT"),
         \A m \in Kept(FilesRead(files, newestFile)) : RecordOf(m) \in Q
  PROVE  LET all == ReadFiles(files, newestFile)
             recs == all.reader.recs
         IN  /\ Len(recs) <= MaxRecords
             /\ all.ok => /\ AllIn(recs, Q)
                          /\ \A m \in Kept(FilesRead(files, newestFile)) :
                                \E j \in DOMAIN recs : recs[j] = RecordOf(m)
<1> DEFINE n == Len(files)
           read == FilesRead(files, newestFile)
<1>1. PICK c \in [0..n -> Reading] :
         /\ c[0] = [reader |-> NewReader, ok |-> FALSE]
         /\ ReadFiles(files, newestFile) = c[n]
         /\ \A k \in 1..n : ReadStep(c[k - 1], c[k], read[k])
         /\ \A k \in 0..n : /\ c[k].ok => ~c[k].reader.limit
                            /\ Len(c[k].reader.recs) <= MaxRecords
  BY ReadSteps
<1>2. /\ n \in Nat /\ DOMAIN read = 1..n /\ \A k \in 1..n : read[k] \in Seq(Message)
      /\ \A m : m \in Kept(read) <=>
            \E k \in 1..n : \E i \in DOMAIN read[k] : m = read[k][i] /\ m.type \in Stored
  BY KeptIs
<1> HIDE DEF n, read
<1> DEFINE Whole(k) ==
             LET recs == c[k].reader.recs
             IN  ~c[k].reader.limit =>
                    AllIn(recs, Q) /\ \A j \in 1..k : KeepsAll(recs, read[j])
           G == {k \in 0..n : Whole(k)}
<1>3. 0 \in G
  <2>1. c[0].reader.recs = <<>> /\ 1..0 = {} /\ 0 \in 0..n
    BY <1>1, <1>2 DEF NewReader
  <2> QED
    BY <2>1 DEF AllIn
<1>4. ASSUME NEW k \in 1..n, k - 1 \in G PROVE k \in G
  <2> DEFINE r == c[k - 1].reader
             s == c[k].reader
  <2>1. /\ Whole(k - 1) /\ k \in 0..n /\ r \in Reader /\ s \in Reader
        /\ ReadStep(c[k - 1], c[k], read[k]) /\ read[k] \in Seq(Message)
        /\ Len(r.recs) <= MaxRecords
        /\ \A j : j \in 1..k <=> j \in 1..(k - 1) \/ j = k
    <3>1. k - 1 \in 0..n /\ k \in 0..n
      BY <1>2
    <3>2. \A j : j \in 1..k <=> j \in 1..(k - 1) \/ j = k
      BY <1>2
    <3> QED
      BY <1>1, <1>2, <1>4, <3>1, <3>2 DEF Reading
  <2>2. CASE c[k] = c[k - 1] /\ (s.limit \/ read[k] = <<>>)
    <3>1. read[k] = <<>> => KeepsAll(s.recs, read[k])
      BY DEF KeepsAll
    <3> QED
      BY <2>1, <2>2, <3>1
  <2>3. CASE ~r.limit /\ s = openFile(r, read[k])
    <3>1. AllIn(r.recs, Q) /\ \A j \in 1..(k - 1) : KeepsAll(r.recs, read[j])
      BY <2>1, <2>3
    <3>2. \A i \in DOMAIN read[k] :
             read[k][i].type \in Stored => RecordOf(read[k][i]) \in Q
      BY <1>2 DEF read
    <3> HIDE DEF r, s, Whole, G
    <3>3. /\ Grown(r.recs, s.recs)
          /\ ~s.limit => AllIn(s.recs, Q) /\ KeepsAll(s.recs, read[k])
      BY <2>1, <2>3, <3>1, <3>2, OpenFileIs
    <3>4. \A j \in 1..(k - 1) : KeepsAll(s.recs, read[j])
      <4>1. r.recs \in Seq(Record) /\ s.recs \in Seq(Record)
        BY <2>1 DEF Reader
      <4>2. \A x : (\E j \in DOMAIN r.recs : r.recs[j] = x) =>
                      \E j \in DOMAIN s.recs : s.recs[j] = x
        BY <3>3, <4>1, KeepsGrown
      <4> QED
        BY <3>1, <4>2 DEF KeepsAll
    <3>5. ~s.limit => AllIn(s.recs, Q) /\ \A j \in 1..k : KeepsAll(s.recs, read[j])
      BY <2>1, <3>3, <3>4
    <3> QED
      BY <2>1, <3>5 DEF G, Whole, s
  <2>4. ReadStep(c[k - 1], c[k], read[k]) =>
           \/ c[k] = c[k - 1] /\ (s.limit \/ read[k] = <<>>)
           \/ ~r.limit /\ s = openFile(r, read[k])
    BY DEF ReadStep
  <2> QED
    BY <2>1, <2>2, <2>3, <2>4
<1>5. Whole(n)
  <2>1. 0..n \subseteq G
    <3> HIDE DEF G
    <3> QED
      BY <1>2, <1>3, <1>4, StepsInduction
  <2> QED
    BY <1>2, <2>1
<1>6. \A m \in Kept(read) : c[n].ok =>
         \E j \in DOMAIN c[n].reader.recs : c[n].reader.recs[j] = RecordOf(m)
  <2>1. n \in 0..n
    BY <1>2
  <2>2. c[n].ok => \A k \in 1..n : KeepsAll(c[n].reader.recs, read[k])
    BY <1>1, <1>5, <2>1
  <2> SUFFICES ASSUME NEW m \in Kept(read), c[n].ok
               PROVE  \E j \in DOMAIN c[n].reader.recs :
                         c[n].reader.recs[j] = RecordOf(m)
    OBVIOUS
  <2>3. PICK k \in 1..n : \E i \in DOMAIN read[k] : m = read[k][i] /\ m.type \in Stored
    BY <1>2
  <2>4. KeepsAll(c[n].reader.recs, read[k])
    BY <2>2
  <2> QED
    BY <2>3, <2>4 DEF KeepsAll
<1>7. Len(c[n].reader.recs) <= MaxRecords /\ (c[n].ok => AllIn(c[n].reader.recs, Q))
  <2>1. n \in 0..n
    BY <1>2
  <2> QED
    BY <1>1, <1>5, <2>1
<1> QED
  BY <1>1, <1>6, <1>7 DEF read

-----------------------------------------------------------------------------
(***************************************************************************)
(* Precipitation is read once per date.                                    *)
(***************************************************************************)
Rains == {"PRECIP_TOT", "PRECIP_RATE"}

\* Each record of precipitation is that of one of these messages, and the only
\* one of its type and date.
Single(recs, P) ==
  \A a \in DOMAIN recs : recs[a].type \in Rains =>
     /\ \E m \in P : recs[a] = RecordOf(m)
     /\ \A b \in DOMAIN recs :
           recs[b].type = recs[a].type /\ recs[b].date = recs[a].date => b = a

\* No two of these messages are about the same precipitation.
Distinct(P) ==
  \A m, n \in P : m.type \in Rains /\ m.type = n.type /\ m.date = n.date => m = n

LEMMA RainsStored == Rains \subseteq Stored \ DerivedTypes
BY DEF Rains, Stored, SlotOf, DerivedTypes

LEMMA SingleMore ==
  ASSUME NEW recs, NEW P, Single(recs, P), NEW R, P \subseteq R
  PROVE  Single(recs, R)
BY DEF Single

LEMMA SingleGrown ==
  ASSUME NEW old \in Seq(Record), NEW new \in Seq(Record), Grown(old, new),
         \A i \in DOMAIN new : i \in DOMAIN old \/ new[i].type \notin Rains,
         NEW P, Single(old, P)
  PROVE  Single(new, P)
<1>1. \A i \in DOMAIN old : i \in DOMAIN new /\ new[i] = old[i]
  BY DEF Grown
<1>2. SUFFICES ASSUME NEW a \in DOMAIN new, new[a].type \in Rains
               PROVE  /\ \E m \in P : new[a] = RecordOf(m)
                      /\ \A b \in DOMAIN new :
                            new[b].type = new[a].type /\ new[b].date = new[a].date
                               => b = a
  BY DEF Single
<1>3. a \in DOMAIN old /\ new[a] = old[a]
  BY <1>1, <1>2
<1>4. \A b \in DOMAIN new : new[b].type = new[a].type => b \in DOMAIN old /\ new[b] = old[b]
  BY <1>1, <1>2
<1> QED
  BY <1>2, <1>3, <1>4 DEF Single

LEMMA SingleMessage ==
  ASSUME NEW r \in Reader, NEW P \in SUBSET Message, NEW m \in Message,
         m \notin P, Distinct(P \cup {m}), Single(r.recs, P)
  PROVE  Single(ReadMessage(r, m).recs, P \cup {m})
<1> DEFINE R == P \cup {m}
           o == [r EXCEPT !.ok = TRUE]
           s == ReadMessage(r, m)
<1>1. Single(r.recs, R)
  BY SingleMore
<1>2. /\ o \in Reader /\ o.recs = r.recs /\ RecordOf(m) \in Record
      /\ r.recs \in Seq(Record) /\ Len(r.recs) \in Nat
  <2>1. RecordOf(m) \in Record
    BY RecordOfType
  <2>2. o \in Reader /\ o.recs = r.recs /\ r.recs \in Seq(Record)
    BY DEF Reader
  <2> QED
    BY <2>1, <2>2
<1>3. CASE r.limit \/ m.type \notin Stored
  <2>1. s.recs = r.recs
    BY <1>2, <1>3 DEF ReadMessage
  <2> QED
    BY <1>1, <2>1
<1>4. CASE ~r.limit /\ m.type \in Stored
  <2> HIDE DEF o, s
  <2>1. Adds(o, s, RecordOf(m))
    <3>1. s = storeRecordInMap(o, RecordOf(m))
      BY <1>4 DEF ReadMessage, o, s
    <3> QED
      BY <1>2, <3>1, StoreAdds
  <2>2. CASE s.recs = r.recs
    BY <1>1, <2>2 DEF s
  <2>3. CASE s.recs = Append(r.recs, RecordOf(m))
    <3> DEFINE new == Len(r.recs) + 1
    <3>1. /\ DOMAIN s.recs = 1..new /\ s.recs[new] = RecordOf(m)
          /\ \A i \in DOMAIN s.recs : i # new => i \in DOMAIN r.recs /\ s.recs[i] = r.recs[i]
      BY <1>2, <2>3
    <3>2. RecordOf(m).type = m.type /\ RecordOf(m).date = m.date
      BY DEF RecordOf
    <3> HIDE DEF new
    <3>3. ASSUME NEW a \in DOMAIN s.recs, a # new,
                 m.type \in Rains, s.recs[a].type = m.type, s.recs[a].date = m.date
          PROVE  FALSE
      <4>1. PICK n \in P : r.recs[a] = RecordOf(n)
        BY <3>1, <3>3 DEF Single
      <4>2. n.type = m.type /\ n.date = m.date
        BY <3>1, <3>3, <4>1 DEF RecordOf
      <4> QED
        BY <3>3, <4>1, <4>2 DEF Distinct
    <3>4. ASSUME NEW a \in DOMAIN s.recs, s.recs[a].type \in Rains
          PROVE  /\ \E n \in R : s.recs[a] = RecordOf(n)
                 /\ \A b \in DOMAIN s.recs :
                       s.recs[b].type = s.recs[a].type
                       /\ s.recs[b].date = s.recs[a].date => b = a
      <4>1. CASE a = new
        BY <3>1, <3>2, <3>3, <3>4, <4>1
      <4>2. CASE a # new
        <5>1. a \in DOMAIN r.recs /\ s.recs[a] = r.recs[a]
          BY <3>1, <4>2
        <5>2. \E n \in R : s.recs[a] = RecordOf(n)
          BY <3>4, <5>1 DEF Single
        <5>3. ASSUME NEW b \in DOMAIN s.recs, s.recs[b].type = s.recs[a].type,
                     s.recs[b].date = s.recs[a].date
              PROVE  b = a
          <6>1. b # new
            BY <3>1, <3>2, <3>3, <3>4, <4>2, <5>3
          <6> QED
            BY <3>1, <3>4, <5>1, <5>3, <6>1 DEF Single
        <5> QED
          BY <5>2, <5>3
      <4> QED
        BY <4>1, <4>2
    <3> QED
      BY <3>4 DEF Single, s
  <2> QED
    BY <1>2, <2>1, <2>2, <2>3 DEF Adds
<1> QED
  BY <1>3, <1>4

LEMMA ReadAllOnce ==
  ASSUME NEW r \in Reader, NEW messages \in Seq(Message), IsInjective(messages),
         NEW P \in SUBSET Message, ToSet(messages) \cap P = {},
         Distinct(P \cup ToSet(messages)), Single(r.recs, P)
  PROVE  Single(readAllGribRecords(r, messages).recs, P \cup ToSet(messages))
<1> DEFINE n == Len(messages)
           Past(i) == P \cup {messages[j] : j \in 1..i}
<1>1. PICK c \in [0..n -> Reader] :
         /\ c[0] = r /\ readAllGribRecords(r, messages) = c[n]
         /\ \A i \in 1..n : c[i] = ReadMessage(c[i - 1], messages[i])
  BY ReadChain
<1>2. n \in Nat /\ DOMAIN messages = 1..n /\ \A i \in 1..n : messages[i] \in Message
  OBVIOUS
<1>3. ToSet(messages) = {messages[j] : j \in 1..n}
  BY <1>2 DEF ToSet
<1> HIDE DEF n
<1> DEFINE G == {i \in 0..n : Single(c[i].recs, Past(i))}
<1>4. 0 \in G
  <2>1. 0 \in 0..n /\ 1..0 = {}
    BY <1>2
  <2>2. Past(0) = P
    BY <2>1
  <2> QED
    BY <1>1, <2>1, <2>2
<1>5. ASSUME NEW i \in 1..n, i - 1 \in G PROVE i \in G
  <2>1. /\ i \in 0..n /\ i - 1 \in 0..n /\ messages[i] \in Message
        /\ c[i - 1] \in Reader /\ c[i] = ReadMessage(c[i - 1], messages[i])
        /\ \A j : j \in 1..i <=> j \in 1..(i - 1) \/ j = i
    BY <1>1, <1>2
  <2>2. Single(c[i - 1].recs, Past(i - 1))
    BY <1>5
  <2>3. Past(i - 1) \in SUBSET Message /\ Past(i) = Past(i - 1) \cup {messages[i]}
    BY <1>2, <2>1
  <2>4. messages[i] \notin Past(i - 1)
    <3>1. messages[i] \notin P
      BY <1>2 DEF ToSet
    <3>2. ASSUME NEW j \in 1..(i - 1), messages[j] = messages[i] PROVE FALSE
      <4>1. j \in DOMAIN messages /\ i \in DOMAIN messages /\ i # j
        BY <1>2
      <4> QED
        BY <3>2, <4>1 DEF IsInjective
    <3> QED
      BY <3>1, <3>2
  <2>5. Distinct(Past(i))
    <3>1. Past(i) \subseteq P \cup ToSet(messages)
      BY <1>2 DEF ToSet
    <3> QED
      BY <3>1 DEF Distinct
  <2> HIDE DEF Past
  <2>6. Single(c[i].recs, Past(i))
    BY <2>1, <2>2, <2>3, <2>4, <2>5, SingleMessage
  <2> QED
    BY <2>1, <2>6
<1>6. Single(c[n].recs, Past(n))
  <2>1. 0..n \subseteq G
    <3> HIDE DEF G
    <3> QED
      BY <1>2, <1>4, <1>5, StepsInduction
  <2> HIDE DEF Past
  <2> QED
    BY <1>2, <2>1
<1> QED
  BY <1>1, <1>3, <1>6

LEMMA FilesOnce ==
  ASSUME NEW files \in Seq(Seq(Message)), NEW newestFile \in BOOLEAN,
         OneRun(FilesRead(files, newestFile))
  PROVE  Single(ReadFiles(files, newestFile).reader.recs,
                UNION {ToSet(f) : f \in ToSet(FilesRead(files, newestFile))})
<1> DEFINE n == Len(files)
           read == FilesRead(files, newestFile)
           Past(k) == {m \in Message : \E j \in 1..k : m \in ToSet(read[j])}
<1>1. PICK c \in [0..n -> Reading] :
         /\ c[0] = [reader |-> NewReader, ok |-> FALSE]
         /\ ReadFiles(files, newestFile) = c[n]
         /\ \A k \in 1..n : ReadStep(c[k - 1], c[k], read[k])
  BY ReadSteps
<1>2. /\ n \in Nat /\ DOMAIN read = 1..n /\ \A k \in 1..n : read[k] \in Seq(Message)
      /\ \A m : m \in Kept(read) <=>
            \E k \in 1..n : \E i \in DOMAIN read[k] : m = read[k][i] /\ m.type \in Stored
  BY KeptIs
<1> HIDE DEF n, read
<1>3. /\ \A m, o \in Kept(read) : m.type = o.type /\ m.date = o.date => m = o
      /\ \A f, g \in 1..n : f # g => ToSet(read[f]) \cap ToSet(read[g]) = {}
      /\ \A k \in 1..n : IsInjective(read[k])
  BY <1>2 DEF OneRun, read
<1>4. \A k \in 1..n : ToSet(read[k]) \subseteq Message
  BY <1>2 DEF ToSet
<1>5. \A k \in 0..n : Past(k) \in SUBSET Message /\ Distinct(Past(k))
  <2>1. ASSUME NEW k \in 0..n, NEW m \in Past(k), m.type \in Rains
        PROVE  m \in Kept(read)
    <3>1. PICK j \in 1..k : m \in ToSet(read[j])
      OBVIOUS
    <3>2. PICK i \in DOMAIN read[j] : m = read[j][i]
      BY <3>1 DEF ToSet
    <3>3. j \in 1..n /\ m.type \in Stored
      BY <1>2, <2>1, RainsStored
    <3> QED
      BY <1>2, <3>2, <3>3
  <2>2. ASSUME NEW k \in 0..n, NEW m \in Past(k), NEW o \in Past(k), m.type \in Rains,
               m.type = o.type, m.date = o.date
        PROVE  m = o
    <3> HIDE DEF Past
    <3>1. m \in Kept(read) /\ o \in Kept(read)
      BY <2>1, <2>2
    <3> QED
      BY <1>3, <2>2, <3>1
  <2>3. \A k \in 0..n : Distinct(Past(k))
    <3> HIDE DEF Past
    <3> QED
      BY <2>2 DEF Distinct
  <2> QED
    BY <2>3
<1> DEFINE G == {k \in 0..n : Single(c[k].reader.recs, Past(k))}
<1>6. 0 \in G
  <2>1. c[0].reader.recs = <<>> /\ 0 \in 0..n
    BY <1>1, <1>2 DEF NewReader
  <2> QED
    BY <2>1 DEF Single
<1>7. ASSUME NEW k \in 1..n, k - 1 \in G PROVE k \in G
  <2> DEFINE r == c[k - 1].reader
             s == c[k].reader
             P == Past(k - 1)
             f == read[k]
  <2>1. /\ k \in 0..n /\ k - 1 \in 0..n /\ f \in Seq(Message) /\ r \in Reader
        /\ ReadStep(c[k - 1], c[k], f) /\ Single(r.recs, P)
        /\ \A j : j \in 1..k <=> j \in 1..(k - 1) \/ j = k
    <3>1. k - 1 \in 0..n /\ k \in 0..n
      BY <1>2
    <3>2. \A j : j \in 1..k <=> j \in 1..(k - 1) \/ j = k
      BY <1>2
    <3> QED
      BY <1>1, <1>2, <1>7, <3>1, <3>2 DEF Reading
  <2>2. Past(k) = P \cup ToSet(f)
    BY <1>4, <2>1
  <2>3. P \in SUBSET Message /\ Distinct(P \cup ToSet(f)) /\ IsInjective(f)
    BY <1>3, <1>5, <2>1, <2>2
  <2>4. ToSet(f) \cap P = {}
    <3>1. \A j \in 1..(k - 1) : j \in 1..n /\ j # k
      BY <1>2
    <3> QED
      BY <1>3, <3>1
  <2> HIDE DEF P, f
  <2>5. CASE c[k] = c[k - 1]
    BY <2>1, <2>2, <2>5, SingleMore
  <2>6. CASE s = openFile(r, f)
    <3> DEFINE o == [r EXCEPT !.ok = FALSE, !.limit = FALSE]
               a == readAllGribRecords(o, f)
    <3>1. /\ o \in Reader /\ o.recs = r.recs /\ a \in Reader
          /\ Stage(a, s, Record)
      <4>1. Derived(Record, "GUST") /\ Derived(Record, "DEWPOINT")
        <5>1. "GUST" \in Stored /\ "DEWPOINT" \in Stored
          BY DEF Stored, SlotOf
        <5> QED
          BY <5>1 DEF Derived, Record
      <4> HIDE DEF r, s
      <4> QED
        BY <2>1, <2>6, <4>1, OpenFileStages
    <3> HIDE DEF o, a, r, s
    <3>2. Single(a.recs, P \cup ToSet(f))
      BY <2>1, <2>3, <2>4, <3>1, ReadAllOnce DEF a
    <3>3. /\ a.recs \in Seq(Record) /\ s.recs \in Seq(Record) /\ Grown(a.recs, s.recs)
          /\ \A i \in DOMAIN s.recs : i \in DOMAIN a.recs \/ s.recs[i].type \notin Rains
      BY <3>1, RainsStored DEF Stage, Reader
    <3>4. Single(s.recs, P \cup ToSet(f))
      BY <3>2, <3>3, SingleGrown
    <3> QED
      BY <2>1, <2>2, <3>4 DEF s
  <2>7. c[k] = c[k - 1] \/ s = openFile(r, f)
    BY <2>1 DEF ReadStep
  <2> QED
    BY <2>5, <2>6, <2>7
<1>8. Single(c[n].reader.recs, Past(n))
  <2>1. 0..n \subseteq G
    <3> HIDE DEF G
    <3> QED
      BY <1>2, <1>6, <1>7, StepsInduction
  <2> HIDE DEF Past
  <2> QED
    BY <1>2, <2>1
<1>9. Past(n) \subseteq UNION {ToSet(f) : f \in ToSet(read)}
  <2>1. ASSUME NEW j \in 1..n PROVE read[j] \in ToSet(read)
    BY <1>2 DEF ToSet
  <2> QED
    BY <2>1
<1> QED
  BY <1>1, <1>8, <1>9, SingleMore DEF read

-----------------------------------------------------------------------------
(***************************************************************************)
(* Rates.                                                                  *)
(***************************************************************************)
\* The same record, but for what is counted in it.
Alike(x, y) == /\ x.type = y.type /\ x.date = y.date /\ x.of = y.of
               /\ x.tr = y.tr /\ x.p1 = y.p1 /\ x.p2 = y.p2

Rated(old, new) ==
  Len(new) = Len(old) /\ \A i \in DOMAIN old : Alike(old[i], new[i])

\* A record as it was read, of a run that began at hour K.
Unrated(x, K) ==
  /\ x.p1 <= x.p2 /\ x.date = K + x.p2 /\ x.of = x.date
  /\ x.per = 1 /\ x.exact /\ x.hours = (K + x.p1 + 1)..(K + x.p2)

\* A sum that has become a mean over its hours.
Mean(x) == x.tr = 4 => /\ x.exact
                       /\ x.hours # {} => /\ x.per = Cardinality(x.hours)
                                          /\ x.of \in x.hours

LEMMA RateAlike ==
  ASSUME NEW p \in Record, NEW r \in Record, NEW tr, NEW h
  PROVE  Alike(p, Left(p, r)) /\ Alike(p, Rate(p, tr, h)) /\ Alike(p, Rate(Left(p, r), tr, h))
<1>1. ASSUME NEW q \in Record PROVE Alike(q, Rate(q, tr, h))
  BY DEF Rate, PerHour, Alike, Record
<1>2. Alike(p, Minus(p, r)) /\ Alike(p, p)
  BY DEF Minus, Alike, Record
<1>3. Left(p, r) \in Record /\ Alike(p, Left(p, r))
  BY <1>2, 0 \in Int, RateType DEF Left, Average, Substract
<1> QED
  BY <1>1, <1>3 DEF Alike

\* A sum over the hours after one and up to another, divided by their number.
Counts(x, K, from, to) ==
  /\ x.exact /\ x.hours = (K + from + 1)..(K + to) /\ x.of = K + to
  /\ from < to => x.per = to - from

LEMMA MeanOfHours ==
  ASSUME NEW x, NEW K \in Int, NEW from \in Int, NEW to \in Int, Counts(x, K, from, to)
  PROVE  Mean(x)
<1>0. /\ x.exact /\ x.hours = (K + from + 1)..(K + to) /\ x.of = K + to
      /\ from < to => x.per = to - from
  BY DEF Counts
<1>1. CASE from < to
  <2>1. Cardinality((K + from + 1)..(K + to)) = to - from
    <3>1. K + from + 1 \in Int /\ K + to \in Int /\ K + from + 1 <= K + to
      BY <1>1
    <3>2. Cardinality((K + from + 1)..(K + to)) = (K + to) - (K + from + 1) + 1
      <4> DEFINE a == K + from + 1
                 b == K + to
      <4>1. a \in Int /\ b \in Int /\ a <= b
        BY <3>1
      <4> HIDE DEF a, b
      <4>2. Cardinality(a..b) = b - a + 1
        BY <4>1, FS_Interval
      <4> QED
        BY <4>2 DEF a, b
    <3> QED
      BY <3>2
  <2>2. x.of \in x.hours
    BY <1>0, <1>1
  <2> QED
    BY <1>0, <1>1, <2>1, <2>2 DEF Mean
<1>2. CASE ~ (from < to)
  <2>1. x.hours = {}
    BY <1>0, <1>2
  <2> QED
    BY <1>0, <2>1 DEF Mean
<1> QED
  BY <1>1, <1>2

\* What remains of a sum after the one before it, over the hours that remain.
LEMMA MeanOfRest ==
  ASSUME NEW p \in Record, NEW r \in Record, NEW K \in Int, Unrated(p, K), Unrated(r, K),
         p.tr = r.tr, r.date < p.date,
         NEW s, s.p1 = p.p1, s.p2 = p.p2
  PROVE  Mean(Rate(Left(p, r), r.tr, s.p2 - LeftFrom(s, p, r)))
<1> DEFINE h == s.p2 - LeftFrom(s, p, r)
           x == Rate(Left(p, r), r.tr, h)
<1>1. /\ p.p1 \in Nat /\ p.p2 \in Nat /\ r.p1 \in Nat /\ r.p2 \in Nat /\ p.per \in Int
      /\ p.p1 <= p.p2 /\ r.p1 <= r.p2 /\ r.p2 < p.p2 /\ p.of = K + p.p2
  BY DEF Unrated, Record
<1>2. CASE p.tr # 4
  <2>1. Alike(p, x)
    BY RateAlike
  <2> QED
    BY <1>2, <2>1 DEF Alike, Mean
<1>3. CASE p.tr = 4 /\ p.p1 = r.p1
  <2>1. h = p.p2 - r.p2
    BY <1>3 DEF LeftFrom
  <2>2. Left(p, r) = [p EXCEPT !.hours = p.hours \ r.hours,
                               !.exact = p.exact /\ r.exact /\ r.hours \subseteq p.hours
                                         /\ p.tr = r.tr]
    BY <1>3 DEF Left, Substract, Minus
  <2> DEFINE y == Left(p, r)
             some == p.exact /\ r.exact /\ r.hours \subseteq p.hours /\ p.tr = r.tr
  <2>3. some
    BY <1>1, <1>3 DEF Unrated
  <2>4. p.hours \ r.hours = (K + r.p2 + 1)..(K + p.p2)
    BY <1>1, <1>3 DEF Unrated
  <2>5. y \in Record /\ y.hours = (K + r.p2 + 1)..(K + p.p2) /\ y.exact /\ y.per = 1
        /\ y.of = K + p.p2
    <3>1. y \in Record
      BY 0 \in Int, RateType
    <3>2. y = [p EXCEPT !.hours = p.hours \ r.hours, !.exact = some]
      BY <2>2
    <3> HIDE DEF y, some
    <3>3. y.hours = p.hours \ r.hours /\ y.exact = some /\ y.per = p.per /\ y.of = p.of
      BY <3>2 DEF Record
    <3> QED
      BY <1>1, <2>3, <2>4, <3>1, <3>3 DEF Unrated
  <2> HIDE DEF y
  <2>6. x = [y EXCEPT !.per = y.per * h]
    BY <1>1, <1>3, <2>1 DEF Rate, PerHour, y
  <2>7. x.per = p.p2 - r.p2 /\ x.hours = y.hours /\ x.exact = y.exact /\ x.of = y.of
    <3>1. h \in Int
      BY <1>1, <2>1
    <3> HIDE DEF x, h
    <3>2. /\ x.per = y.per * h /\ x.hours = y.hours /\ x.exact = y.exact
          /\ x.of = y.of
      BY <2>5, <2>6 DEF Record
    <3>3. x.per = h
      BY <2>5, <3>1, <3>2
    <3> QED
      BY <2>1, <3>2, <3>3
  <2> HIDE DEF x, h
  <2>8. Counts(x, K, r.p2, p.p2)
    BY <2>5, <2>7 DEF Counts
  <2>9. Mean(x)
    BY <1>1, <2>8, MeanOfHours
  <2> QED
    BY <2>9 DEF x, h
<1>4. CASE p.tr = 4 /\ p.p1 # r.p1
  <2>1. h = p.p2 - p.p1 /\ Left(p, r) = p
    BY <1>4 DEF LeftFrom, Left
  <2>2. x \in Record /\ x = Rate(p, 4, h)
    BY <1>1, <1>4, <2>1, RateType
  <2>3. h > 0 => x = [p EXCEPT !.per = p.per * h]
    BY <2>2 DEF Rate, PerHour
  <2>4. x.hours = p.hours /\ x.exact = p.exact /\ x.of = p.of
    BY <2>2 DEF Rate, PerHour, Record
  <2>5. p.p1 < p.p2 => x.per = p.p2 - p.p1
    <3> HIDE DEF x
    <3>1. h > 0 => x.per = p.per * h
      BY <2>3 DEF Record
    <3>2. p.per = 1
      BY DEF Unrated
    <3> QED
      BY <1>1, <2>1, <3>1, <3>2
  <2> HIDE DEF x, h
  <2>6. Counts(x, K, p.p1, p.p2)
    BY <1>1, <2>4, <2>5 DEF Counts, Unrated
  <2>7. Mean(x)
    BY <1>1, <2>6, MeanOfHours
  <2> QED
    BY <2>7 DEF x, h
<1> QED
  BY <1>2, <1>3, <1>4

LEMMA MeanOfFirst ==
  ASSUME NEW p \in Record, NEW K \in Int, Unrated(p, K)
  PROVE  Mean(Rate(p, p.tr, p.p2 - p.p1))
<1> DEFINE h == p.p2 - p.p1
           x == Rate(p, p.tr, h)
<1>1. /\ p.p1 \in Nat /\ p.p2 \in Nat /\ p.per = 1 /\ p.p1 <= p.p2
      /\ p.of = K + p.p2 /\ h \in Int
  BY DEF Unrated, Record
<1>2. CASE p.tr # 4
  <2>1. Alike(p, x)
    BY RateAlike
  <2> QED
    BY <1>2, <2>1 DEF Alike, Mean
<1>3. CASE p.tr = 4
  <2>1. x \in Record
    BY <1>1, RateType
  <2>2. h > 0 => x = [p EXCEPT !.per = p.per * h]
    BY <1>3 DEF Rate, PerHour
  <2>3. x.hours = p.hours /\ x.exact = p.exact /\ x.of = p.of
    BY DEF Rate, PerHour, Record
  <2>4. p.p1 < p.p2 => x.per = p.p2 - p.p1
    <3> HIDE DEF x
    <3>1. h > 0 => x.per = p.per * h
      BY <2>2 DEF Record
    <3> QED
      BY <1>1, <3>1
  <2> HIDE DEF x, h
  <2>5. Counts(x, K, p.p1, p.p2)
    BY <1>1, <2>3, <2>4 DEF Counts, Unrated
  <2>6. Mean(x)
    BY <1>1, <2>5, MeanOfHours
  <2> QED
    BY <2>6 DEF x, h
<1> QED
  BY <1>2, <1>3

-----------------------------------------------------------------------------
(***************************************************************************)
(* An accumulation, from the last date to the first.                       *)
(***************************************************************************)
\* What visiting a date does: nothing, or its record is the next and what is
\* left of the one before is rated.
Visited(s, t, d, type) ==
  LET i == IndexOf(s.recs, type, d)
      p == s.recs[s.prev]
      r == s.recs[i]
  IN  \/ i = 0 /\ t = s
      \/ /\ i \in DOMAIN s.recs /\ r.type = type /\ r.date = d
         /\ t.prev = i /\ t.p1 = r.p1 /\ t.p2 = r.p2
         /\ Rated(s.recs, t.recs)
         /\ \A j \in DOMAIN s.recs : j # s.prev => t.recs[j] = s.recs[j]
         /\ s.prev # 0 =>
               t.recs[s.prev] = Rate(Left(p, r), r.tr, s.p2 - LeftFrom(s, p, r))

LEMMA AlikeSame == ASSUME NEW x PROVE Alike(x, x)
BY DEF Alike

LEMMA VisitIs ==
  ASSUME NEW s \in Visiting, NEW d, NEW type
  PROVE  Visited(s, AccumulateAt(s, d, type), d, type)
<1> DEFINE i == IndexOf(s.recs, type, d)
           p == s.recs[s.prev]
           r == s.recs[i]
           x == Rate(Left(p, r), r.tr, s.p2 - LeftFrom(s, p, r))
           recs == IF s.prev = 0 THEN s.recs ELSE [s.recs EXCEPT ![s.prev] = x]
           t == AccumulateAt(s, d, type)
<1>1. CASE i = 0
  BY <1>1 DEF AccumulateAt, Visited
<1>2. CASE i # 0
  <2>1. /\ s.recs \in Seq(Record) /\ i \in DOMAIN s.recs /\ r.type = type /\ r.date = d
        /\ s.prev # 0 => s.prev \in DOMAIN s.recs
    BY <1>2, IndexOfType DEF Visiting
  <2>2. t = [recs |-> recs, prev |-> i, p1 |-> r.p1, p2 |-> r.p2]
    BY <1>2 DEF AccumulateAt, Accumulate
  <2>3. t.recs = recs /\ t.prev = i /\ t.p1 = r.p1 /\ t.p2 = r.p2
    BY <2>2
  <2>4. s.prev # 0 => Alike(p, x)
    <3>1. r \in Record /\ (s.prev # 0 => p \in Record)
      BY <2>1
    <3> HIDE DEF p, r
    <3> QED
      BY <3>1, RateAlike
  <2> HIDE DEF x, i, t
  <2>5. /\ Len(recs) = Len(s.recs)
        /\ \A j \in DOMAIN s.recs : j # s.prev => recs[j] = s.recs[j]
        /\ s.prev # 0 => recs[s.prev] = x
    BY <2>1
  <2> HIDE DEF recs
  <2>6. Rated(s.recs, recs)
    BY <2>1, <2>4, <2>5, AlikeSame DEF Rated
  <2> QED
    BY <2>1, <2>3, <2>5, <2>6 DEF Visited, x, i, t
<1> QED
  BY <1>1, <1>2

LEMMA RatedTrans ==
  ASSUME NEW a \in Seq(Record), NEW b \in Seq(Record), NEW c \in Seq(Record),
         Rated(a, b), Rated(b, c)
  PROVE  Rated(a, c)
<1>1. DOMAIN a = DOMAIN b
  BY DEF Rated
<1> QED
  BY <1>1 DEF Rated, Alike

LEMMA RatedSame == ASSUME NEW a PROVE Rated(a, a)
BY AlikeSame DEF Rated

\* The dates from the last to the first.
LEMMA BackwardsIs ==
  ASSUME NEW recs \in Seq(Record)
  PROVE  LET dates == Reverse(InOrder(Dates(recs)))
         IN  /\ dates \in Seq(Nat) /\ DOMAIN dates = 1..Len(dates) /\ Len(dates) \in Nat
             /\ \A d \in Dates(recs) : \E i \in 1..Len(dates) : dates[i] = d
             /\ \A i, j \in 1..Len(dates) : i < j => dates[j] < dates[i]
<1> DEFINE f == InOrder(Dates(recs))
           dates == Reverse(f)
<1>1. f \in Seq(Nat) /\ Orders(f, Dates(recs))
  BY DatesType, InOrderIs
<1> HIDE DEF f
<1>2. /\ dates \in Seq(Nat) /\ Len(dates) = Len(f) /\ Len(f) \in Nat
      /\ \A i \in 1..Len(f) : dates[i] = f[Len(f) - i + 1]
  BY <1>1, ReverseType
<1>3. /\ DOMAIN f = 1..Len(f)
      /\ \A d \in Dates(recs) : \E i \in 1..Len(f) : f[i] = d
      /\ \A i, j \in 1..Len(f) : i < j => f[i] < f[j]
  BY <1>1 DEF Orders, ToSet
<1> HIDE DEF dates
<1>4. \A d \in Dates(recs) : \E i \in 1..Len(dates) : dates[i] = d
  <2> SUFFICES ASSUME NEW d \in Dates(recs)
               PROVE  \E i \in 1..Len(dates) : dates[i] = d
    OBVIOUS
  <2>1. PICK i \in 1..Len(f) : f[i] = d
    BY <1>3
  <2>2. /\ Len(f) - i + 1 \in 1..Len(f)
        /\ Len(f) - (Len(f) - i + 1) + 1 = i
    BY <1>2
  <2>3. dates[Len(f) - i + 1] = d
    BY <1>2, <2>1, <2>2
  <2> QED
    BY <1>2, <2>2, <2>3
<1>5. ASSUME NEW i \in 1..Len(dates), NEW j \in 1..Len(dates), i < j
      PROVE  dates[j] < dates[i]
  <2>1. /\ Len(f) - i + 1 \in 1..Len(f) /\ Len(f) - j + 1 \in 1..Len(f)
        /\ Len(f) - j + 1 < Len(f) - i + 1
    <3>1. i \in 1..Len(f) /\ j \in 1..Len(f) /\ i < j /\ Len(f) \in Nat
      BY <1>2, <1>5
    <3> QED
      BY <3>1
  <2>2. dates[i] = f[Len(f) - i + 1] /\ dates[j] = f[Len(f) - j + 1]
    BY <1>2
  <2> QED
    BY <1>3, <2>1, <2>2
<1> QED
  BY <1>2, <1>4, <1>5 DEF f, dates

\* What a sweep of the dates changes, whatever is in the records.
Sweeping(recs, type, s) ==
  /\ Rated(recs, s.recs)
  /\ s.prev # 0 => s.recs[s.prev].type = type
  /\ \A j \in DOMAIN recs : recs[j].type # type => s.recs[j] = recs[j]

LEMMA SweepingStep ==
  ASSUME NEW recs \in Seq(Record), NEW type, NEW s \in Visiting, NEW t \in Visiting,
         NEW d, Visited(s, t, d, type), Sweeping(recs, type, s)
  PROVE  Sweeping(recs, type, t)
<1> DEFINE i == IndexOf(s.recs, type, d)
<1>1. CASE t = s
  BY <1>1
<1>2. CASE /\ i \in DOMAIN s.recs /\ s.recs[i].type = type /\ t.prev = i
           /\ Rated(s.recs, t.recs)
           /\ \A j \in DOMAIN s.recs : j # s.prev => t.recs[j] = s.recs[j]
  <2> HIDE DEF i
  <2>1. s.recs \in Seq(Record) /\ t.recs \in Seq(Record)
    BY DEF Visiting
  <2>2. Rated(recs, t.recs)
    BY <1>2, <2>1, RatedTrans DEF Sweeping
  <2>3. t.recs[i].type = type
    BY <1>2 DEF Rated, Alike
  <2>4. ASSUME NEW j \in DOMAIN recs, recs[j].type # type PROVE t.recs[j] = recs[j]
    <3>1. s.recs[j] = recs[j] /\ j # s.prev /\ j \in DOMAIN s.recs
      BY <2>1, <2>4 DEF Sweeping, Rated
    <3> QED
      BY <1>2, <3>1
  <2> QED
    BY <1>2, <2>2, <2>3, <2>4 DEF Sweeping
<1>3. \/ t = s
      \/ /\ i \in DOMAIN s.recs /\ s.recs[i].type = type /\ t.prev = i
         /\ Rated(s.recs, t.recs)
         /\ \A j \in DOMAIN s.recs : j # s.prev => t.recs[j] = s.recs[j]
  BY DEF Visited
<1> QED
  BY <1>1, <1>2, <1>3

\* The last record visited is rated over the hours of the whole.
LEMMA LastIs ==
  ASSUME NEW s \in Visiting
  PROVE  /\ AccumulateLast(s) \in Seq(Record) /\ Rated(s.recs, AccumulateLast(s))
         /\ \A j \in DOMAIN s.recs : j # s.prev => AccumulateLast(s)[j] = s.recs[j]
         /\ s.prev # 0 => AccumulateLast(s)[s.prev] =
               Rate(s.recs[s.prev], s.recs[s.prev].tr, s.p2 - s.p1)
<1> DEFINE p == s.recs[s.prev]
           x == Rate(p, p.tr, s.p2 - s.p1)
           recs == AccumulateLast(s)
<1>1. /\ s.recs \in Seq(Record) /\ s.p2 - s.p1 \in Int
      /\ s.prev # 0 => s.prev \in DOMAIN s.recs
  BY DEF Visiting
<1>2. CASE s.prev = 0
  BY <1>1, <1>2, RatedSame DEF AccumulateLast
<1>3. CASE s.prev # 0
  <2>1. p \in Record
    BY <1>1, <1>3
  <2>2. x \in Record /\ Alike(p, x)
    <3> HIDE DEF p
    <3> QED
      BY <1>1, <2>1, RateType, RateAlike
  <2>3. recs = [s.recs EXCEPT ![s.prev] = x]
    BY <1>3 DEF AccumulateLast
  <2> HIDE DEF x, recs
  <2>4. /\ recs \in Seq(Record) /\ Len(recs) = Len(s.recs) /\ recs[s.prev] = x
        /\ \A j \in DOMAIN s.recs : j # s.prev => recs[j] = s.recs[j]
    BY <1>1, <1>3, <2>2, <2>3
  <2>5. Rated(s.recs, recs)
    BY <1>1, <2>2, <2>4, AlikeSame DEF Rated
  <2> QED
    BY <2>4, <2>5 DEF x, recs
<1> QED
  BY <1>2, <1>3

\* An accumulation rates records of its type and leaves the others alone.
Accumulated(old, new, type) ==
  /\ Rated(old, new) /\ \A j \in DOMAIN old : old[j].type # type => new[j] = old[j]

LEMMA AccumulationIs ==
  ASSUME NEW r \in Reader, NEW type
  PROVE  LET s == computeAccumulationRecords(r, type)
         IN  s \in Reader /\ s.ok = r.ok /\ s.limit = r.limit
             /\ Accumulated(r.recs, s.recs, type)
<1> DEFINE recs == r.recs
           dates == Reverse(InOrder(Dates(recs)))
           n == Len(dates)
           s == computeAccumulationRecords(r, type)
<1>1. recs \in Seq(Record)
  BY DEF Reader
<1>2. PICK c \in [0..n -> Visiting] :
         /\ c[0] = [recs |-> recs, prev |-> 0, p1 |-> 0, p2 |-> 0]
         /\ AccumulateAll(recs, type) = c[n]
         /\ \A i \in 1..n : c[i] = AccumulateAt(c[i - 1], dates[i], type)
  BY <1>1, AccumulateChain
<1>3. n \in Nat
  BY <1>1, BackwardsIs
<1>4. s \in Reader /\ s = [r EXCEPT !.recs = AccumulateLast(c[n])]
  BY <1>2, AccumulationType DEF computeAccumulationRecords
<1> HIDE DEF recs, dates, n, s
<1> DEFINE G == {i \in 0..n : Sweeping(recs, type, c[i])}
<1>5. 0 \in G
  <2>1. c[0].recs = recs /\ c[0].prev = 0 /\ 0 \in 0..n
    BY <1>2, <1>3
  <2> QED
    BY <2>1, RatedSame DEF Sweeping
<1>6. ASSUME NEW i \in 1..n, i - 1 \in G PROVE i \in G
  <2>1. i \in 0..n /\ i - 1 \in 0..n /\ Sweeping(recs, type, c[i - 1])
    BY <1>3, <1>6
  <2>2. c[i - 1] \in Visiting /\ c[i] \in Visiting
    BY <1>2, <2>1
  <2>3. Visited(c[i - 1], c[i], dates[i], type)
    BY <1>2, <2>2, VisitIs
  <2> QED
    BY <1>1, <2>1, <2>2, <2>3, SweepingStep
<1>7. 0..n \subseteq G
  <2> HIDE DEF G
  <2> QED
    BY <1>3, <1>5, <1>6, StepsInduction
<1>8. Sweeping(recs, type, c[n]) /\ c[n] \in Visiting
  BY <1>2, <1>3, <1>7
<1> DEFINE t == c[n]
           new == AccumulateLast(t)
<1>9. /\ new \in Seq(Record) /\ Rated(t.recs, new) /\ t.recs \in Seq(Record)
      /\ \A j \in DOMAIN t.recs : j # t.prev => new[j] = t.recs[j]
  BY <1>8, LastIs DEF Visiting
<1>10. s.recs = new /\ s.ok = r.ok /\ s.limit = r.limit
  BY <1>4 DEF Reader
<1> HIDE DEF t, new
<1>11. Sweeping(recs, type, t)
  BY <1>8 DEF t
<1>12. Rated(recs, new)
  BY <1>1, <1>9, <1>11, RatedTrans DEF Sweeping
<1>13. ASSUME NEW j \in DOMAIN recs, recs[j].type # type PROVE new[j] = recs[j]
  <2>1. t.recs[j] = recs[j] /\ j # t.prev /\ j \in DOMAIN t.recs
    BY <1>1, <1>9, <1>11, <1>13 DEF Sweeping, Rated
  <2> QED
    BY <1>9, <2>1
<1> QED
  BY <1>4, <1>10, <1>12, <1>13 DEF Accumulated, s, recs

-----------------------------------------------------------------------------
(***************************************************************************)
(* The records of one run become means over their periods.                 *)
(***************************************************************************)
\* The records of a type as a run that began at hour K delivers them.
Steady(recs, type, K) ==
  /\ \A i \in DOMAIN recs : recs[i].type = type => Unrated(recs[i], K)
  /\ \A i, j \in DOMAIN recs : recs[i].type = type /\ recs[j].type = type =>
        /\ recs[i].tr = recs[j].tr
        /\ recs[i].date = recs[j].date => i = j

\* A sweep that has seen these dates: the records of its type at them are means,
\* but for the last one visited.
Swept(recs, type, s, seen) ==
  /\ Rated(recs, s.recs)
  /\ s.prev # 0 => /\ s.prev \in DOMAIN recs /\ recs[s.prev].type = type
                   /\ recs[s.prev].date \in seen /\ s.recs[s.prev] = recs[s.prev]
                   /\ s.p1 = recs[s.prev].p1 /\ s.p2 = recs[s.prev].p2
  /\ \A j \in DOMAIN recs : recs[j].type = type =>
        /\ recs[j].date \notin seen => s.recs[j] = recs[j]
        /\ recs[j].date \in seen /\ j # s.prev => Mean(s.recs[j])

LEMMA SweptStep ==
  ASSUME NEW recs \in Seq(Record), NEW type, NEW K \in Int, Steady(recs, type, K),
         NEW s \in Visiting, NEW t \in Visiting, NEW d \in Nat, NEW seen \in SUBSET Nat,
         \A e \in seen : d < e,
         Visited(s, t, d, type), Swept(recs, type, s, seen)
  PROVE  Swept(recs, type, t, seen \cup {d})
<1> DEFINE i == IndexOf(s.recs, type, d)
           p == s.recs[s.prev]
           r == s.recs[i]
<1>1. /\ s.recs \in Seq(Record) /\ t.recs \in Seq(Record) /\ Rated(recs, s.recs)
      /\ DOMAIN s.recs = DOMAIN recs
  BY DEF Visiting, Swept, Rated
<1>2. CASE i = 0 /\ t = s
  <2>1. \A j \in DOMAIN recs : recs[j].type = type => recs[j].date # d
    <3>1. \A j \in DOMAIN s.recs : s.recs[j].type = type => s.recs[j].date # d
      BY <1>1, <1>2, IndexOfType
    <3> QED
      BY <1>1, <3>1 DEF Rated, Alike
  <2> HIDE DEF i
  <2> QED
    BY <1>2, <2>1 DEF Swept
<1>3. CASE /\ i \in DOMAIN s.recs /\ r.type = type /\ r.date = d
           /\ t.prev = i /\ t.p1 = r.p1 /\ t.p2 = r.p2
           /\ Rated(s.recs, t.recs)
           /\ \A j \in DOMAIN s.recs : j # s.prev => t.recs[j] = s.recs[j]
           /\ s.prev # 0 =>
                 t.recs[s.prev] = Rate(Left(p, r), r.tr, s.p2 - LeftFrom(s, p, r))
  <2> HIDE DEF i
  <2>1. Rated(recs, t.recs)
    BY <1>1, <1>3, RatedTrans
  <2>2. d \notin seen
    OBVIOUS
  <2>3. /\ i \in DOMAIN recs /\ recs[i].type = type /\ recs[i].date = d
        /\ s.recs[i] = recs[i] /\ r = recs[i]
    <3>1. i \in DOMAIN recs /\ recs[i].type = type /\ recs[i].date = d
      BY <1>1, <1>3 DEF Rated, Alike
    <3> QED
      BY <2>2, <3>1 DEF Swept
  <2>4. s.prev # i /\ t.recs[i] = recs[i]
    <3>1. s.prev # 0 => recs[s.prev].date # d
      BY <2>2 DEF Swept
    <3>2. i # 0
      BY <1>1, <1>3
    <3>3. s.prev # i
      BY <2>3, <3>1, <3>2
    <3> QED
      BY <1>3, <2>3, <3>3
  <2>5. s.prev # 0 => Mean(t.recs[s.prev])
    <3> SUFFICES ASSUME s.prev # 0 PROVE Mean(t.recs[s.prev])
      OBVIOUS
    <3>1. /\ p = recs[s.prev] /\ recs[s.prev].type = type /\ s.prev \in DOMAIN recs
          /\ p.date \in seen /\ s.p1 = p.p1 /\ s.p2 = p.p2
      BY DEF Swept
    <3>2. /\ p \in Record /\ r \in Record /\ Unrated(p, K) /\ Unrated(r, K)
          /\ p.tr = r.tr /\ r.date < p.date
      <4>1. p \in Record /\ r \in Record
        BY <2>3, <3>1
      <4>2. recs[s.prev] = p /\ recs[i] = r
        BY <2>3, <3>1
      <4> HIDE DEF p, r
      <4>3. Unrated(p, K) /\ Unrated(r, K) /\ p.tr = r.tr
        BY <2>3, <3>1, <4>2 DEF Steady
      <4>4. r.date < p.date
        BY <1>3, <3>1
      <4> QED
        BY <4>1, <4>3, <4>4
    <3> HIDE DEF p, r
    <3>3. Mean(Rate(Left(p, r), r.tr, s.p2 - LeftFrom(s, p, r)))
      BY <3>1, <3>2, MeanOfRest
    <3> QED
      BY <1>3, <3>3
  <2>6. ASSUME NEW j \in DOMAIN recs, recs[j].type = type,
               recs[j].date \notin seen \cup {d}
        PROVE  t.recs[j] = recs[j]
    <3>1. s.recs[j] = recs[j]
      BY <2>6 DEF Swept
    <3>2. j # s.prev
      <4>1. s.prev # 0 => recs[s.prev].date \in seen
        BY DEF Swept
      <4> QED
        BY <2>6, <4>1
    <3> QED
      BY <1>1, <1>3, <3>1, <3>2
  <2>7. ASSUME NEW j \in DOMAIN recs, recs[j].type = type,
               recs[j].date \in seen \cup {d}, j # t.prev
        PROVE  Mean(t.recs[j])
    <3>1. recs[j].date \in seen
      <4>1. recs[j].date = d => j = i
        BY <2>3, <2>7 DEF Steady
      <4> QED
        BY <1>3, <2>7, <4>1
    <3>2. CASE j = s.prev
      <4>1. j # 0
        BY <1>1
      <4> QED
        BY <2>5, <3>2, <4>1
    <3>3. CASE j # s.prev
      <4>1. Mean(s.recs[j])
        BY <2>7, <3>1, <3>3 DEF Swept
      <4>2. t.recs[j] = s.recs[j]
        BY <1>1, <1>3, <3>3
      <4> QED
        BY <4>1, <4>2
    <3> QED
      BY <3>2, <3>3
  <2> QED
    BY <1>3, <2>1, <2>3, <2>4, <2>6, <2>7 DEF Swept
<1>4. \/ i = 0 /\ t = s
      \/ /\ i \in DOMAIN s.recs /\ r.type = type /\ r.date = d
         /\ t.prev = i /\ t.p1 = r.p1 /\ t.p2 = r.p2
         /\ Rated(s.recs, t.recs)
         /\ \A j \in DOMAIN s.recs : j # s.prev => t.recs[j] = s.recs[j]
         /\ s.prev # 0 =>
               t.recs[s.prev] = Rate(Left(p, r), r.tr, s.p2 - LeftFrom(s, p, r))
  BY DEF Visited
<1> QED
  BY <1>2, <1>3, <1>4

LEMMA AccumulationMeans ==
  ASSUME NEW r \in Reader, NEW type, NEW K \in Int, Steady(r.recs, type, K)
  PROVE  LET recs == computeAccumulationRecords(r, type).recs
         IN  \A j \in DOMAIN recs : recs[j].type = type => Mean(recs[j])
<1> DEFINE recs == r.recs
           dates == Reverse(InOrder(Dates(recs)))
           n == Len(dates)
           s == computeAccumulationRecords(r, type)
           Seen(i) == {dates[a] : a \in 1..i}
<1>1. recs \in Seq(Record)
  BY DEF Reader
<1>2. PICK c \in [0..n -> Visiting] :
         /\ c[0] = [recs |-> recs, prev |-> 0, p1 |-> 0, p2 |-> 0]
         /\ AccumulateAll(recs, type) = c[n]
         /\ \A i \in 1..n : c[i] = AccumulateAt(c[i - 1], dates[i], type)
  BY <1>1, AccumulateChain
<1>3. /\ n \in Nat /\ dates \in Seq(Nat) /\ DOMAIN dates = 1..n
      /\ \A d \in Dates(recs) : \E i \in 1..n : dates[i] = d
      /\ \A i, j \in 1..n : i < j => dates[j] < dates[i]
  BY <1>1, BackwardsIs
<1>4. s \in Reader /\ s = [r EXCEPT !.recs = AccumulateLast(c[n])]
  BY <1>2, AccumulationType DEF computeAccumulationRecords
<1>5. Steady(recs, type, K)
  OBVIOUS
<1> HIDE DEF recs, dates, n, s
<1> DEFINE G == {i \in 0..n : Swept(recs, type, c[i], Seen(i))}
<1>6. 0 \in G
  <2>1. c[0].recs = recs /\ c[0].prev = 0 /\ 0 \in 0..n /\ Seen(0) = {}
    BY <1>2, <1>3
  <2> QED
    BY <2>1, RatedSame DEF Swept
<1>7. ASSUME NEW i \in 1..n, i - 1 \in G PROVE i \in G
  <2>1. /\ i \in 0..n /\ i - 1 \in 0..n /\ Swept(recs, type, c[i - 1], Seen(i - 1))
        /\ dates[i] \in Nat
    BY <1>3, <1>7
  <2>2. c[i - 1] \in Visiting /\ c[i] \in Visiting
    BY <1>2, <2>1
  <2>3. Visited(c[i - 1], c[i], dates[i], type)
    BY <1>2, <2>2, VisitIs
  <2>4. Seen(i - 1) \in SUBSET Nat /\ \A e \in Seen(i - 1) : dates[i] < e
    <3>1. \A a \in 1..(i - 1) : a \in 1..n /\ a < i
      BY <1>3
    <3> QED
      BY <1>3, <3>1
  <2>5. Seen(i) = Seen(i - 1) \cup {dates[i]}
    <3>1. \A a : a \in 1..i <=> a \in 1..(i - 1) \/ a = i
      BY <1>3
    <3> QED
      BY <3>1
  <2> DEFINE before == Seen(i - 1)
  <2>6. /\ Swept(recs, type, c[i - 1], before) /\ before \in SUBSET Nat
        /\ \A e \in before : dates[i] < e
    BY <2>1, <2>4
  <2> HIDE DEF before, Seen
  <2>7. Swept(recs, type, c[i], before \cup {dates[i]})
    BY <1>1, <1>5, <2>1, <2>2, <2>3, <2>6, SweptStep
  <2>8. Swept(recs, type, c[i], Seen(i))
    BY <2>5, <2>7 DEF before
  <2> QED
    BY <2>1, <2>8
<1>8. 0..n \subseteq G
  <2> HIDE DEF G
  <2> QED
    BY <1>3, <1>6, <1>7, StepsInduction
<1>9. Swept(recs, type, c[n], Seen(n)) /\ c[n] \in Visiting
  <2>1. n \in 0..n
    BY <1>3
  <2> QED
    BY <1>2, <1>8, <2>1
<1>10. \A j \in DOMAIN recs : recs[j].date \in Seen(n)
  BY <1>3 DEF Dates
<1> DEFINE t == c[n]
           new == AccumulateLast(t)
           seen == Seen(n)
<1>11. /\ new \in Seq(Record) /\ Rated(t.recs, new) /\ t.recs \in Seq(Record)
       /\ \A j \in DOMAIN t.recs : j # t.prev => new[j] = t.recs[j]
       /\ t.prev # 0 => new[t.prev] =
             Rate(t.recs[t.prev], t.recs[t.prev].tr, t.p2 - t.p1)
  BY <1>9, LastIs DEF Visiting
<1>12. s.recs = new
  BY <1>4 DEF Reader
<1>13. Swept(recs, type, t, seen) /\ \A j \in DOMAIN recs : recs[j].date \in seen
  BY <1>9, <1>10
<1> HIDE DEF t, new, seen
<1>14. DOMAIN new = DOMAIN recs /\ DOMAIN t.recs = DOMAIN recs
       /\ \A j \in DOMAIN recs : new[j].type = recs[j].type
  BY <1>1, <1>11, <1>13 DEF Swept, Rated, Alike
<1>15. ASSUME NEW j \in DOMAIN new, new[j].type = type PROVE Mean(new[j])
  <2>1. j \in DOMAIN recs /\ recs[j].type = type /\ recs[j].date \in seen
    BY <1>13, <1>14, <1>15
  <2>2. CASE j # t.prev
    <3>1. Mean(t.recs[j])
      BY <1>13, <2>1, <2>2 DEF Swept
    <3>2. new[j] = t.recs[j]
      BY <1>11, <1>14, <2>1, <2>2
    <3> QED
      BY <3>1, <3>2
  <2>3. CASE j = t.prev
    <3> DEFINE p == recs[j]
    <3>1. j # 0
      BY <1>1, <2>1
    <3>2. p \in Record /\ Unrated(p, K)
      BY <1>1, <1>5, <2>1 DEF Steady
    <3>3. t.recs[j] = p /\ t.p1 = p.p1 /\ t.p2 = p.p2
      BY <1>13, <2>1, <2>3, <3>1 DEF Swept
    <3> HIDE DEF p
    <3>4. new[j] = Rate(p, p.tr, p.p2 - p.p1)
      BY <1>11, <2>3, <3>1, <3>3
    <3>5. Mean(Rate(p, p.tr, p.p2 - p.p1))
      BY <3>2, MeanOfFirst
    <3> QED
      BY <3>4, <3>5
  <2> QED
    BY <2>2, <2>3
<1> QED
  BY <1>12, <1>15 DEF s

LEMMA SteadyKept ==
  ASSUME NEW old \in Seq(Record), NEW new \in Seq(Record), NEW type, NEW other, NEW K,
         Accumulated(old, new, type), Steady(old, other, K), other # type
  PROVE  Steady(new, other, K)
<1>1. DOMAIN old = DOMAIN new /\ \A i \in DOMAIN old : old[i].type = new[i].type
  BY DEF Accumulated, Rated, Alike
<1>2. \A i \in DOMAIN new : new[i].type = other => new[i] = old[i]
  BY <1>1 DEF Accumulated
<1> QED
  BY <1>1, <1>2 DEF Steady

LEMMA AllRatesIs ==
  ASSUME NEW r \in Reader
  PROVE  /\ AllRates(r) \in Reader /\ Rated(r.recs, AllRates(r).recs)
         /\ \A K \in Int :
               Steady(r.recs, "PRECIP_TOT", K) /\ Steady(r.recs, "PRECIP_RATE", K) =>
                  \A j \in DOMAIN AllRates(r).recs :
                     AllRates(r).recs[j].type \in Rains => Mean(AllRates(r).recs[j])
<1> DEFINE a == computeAccumulationRecords(r, "PRECIP_TOT")
           b == computeAccumulationRecords(a, "PRECIP_RATE")
           c == computeAccumulationRecords(b, "CLOUD_TOT")
<1>1. AllRates(r) = c
  BY DEF AllRates
<1>2. a \in Reader /\ Accumulated(r.recs, a.recs, "PRECIP_TOT")
  BY AccumulationIs
<1>3. \A K \in Int : Steady(r.recs, "PRECIP_TOT", K) =>
         \A j \in DOMAIN a.recs : a.recs[j].type = "PRECIP_TOT" => Mean(a.recs[j])
  BY AccumulationMeans
<1> HIDE DEF a
<1>4. b \in Reader /\ Accumulated(a.recs, b.recs, "PRECIP_RATE")
  BY <1>2, AccumulationIs
<1>5. \A K \in Int : Steady(a.recs, "PRECIP_RATE", K) =>
         \A j \in DOMAIN b.recs : b.recs[j].type = "PRECIP_RATE" => Mean(b.recs[j])
  BY <1>2, AccumulationMeans
<1> HIDE DEF b
<1>6. c \in Reader /\ Accumulated(b.recs, c.recs, "CLOUD_TOT")
  BY <1>4, AccumulationIs
<1> HIDE DEF c
<1>7. r.recs \in Seq(Record) /\ a.recs \in Seq(Record)
      /\ b.recs \in Seq(Record) /\ c.recs \in Seq(Record)
  BY <1>2, <1>4, <1>6 DEF Reader
<1>8. Rated(r.recs, c.recs)
  <2>1. Rated(r.recs, a.recs) /\ Rated(a.recs, b.recs) /\ Rated(b.recs, c.recs)
    BY <1>2, <1>4, <1>6 DEF Accumulated
  <2>2. Rated(r.recs, b.recs)
    BY <1>7, <2>1, RatedTrans
  <2> QED
    BY <1>7, <2>1, <2>2, RatedTrans
<1>9. ASSUME NEW K \in Int, Steady(r.recs, "PRECIP_TOT", K), Steady(r.recs, "PRECIP_RATE", K),
             NEW j \in DOMAIN c.recs, c.recs[j].type \in Rains
      PROVE  Mean(c.recs[j])
  <2>1. \A i \in DOMAIN a.recs : a.recs[i].type = "PRECIP_TOT" => Mean(a.recs[i])
    BY <1>3, <1>9
  <2>2. Steady(a.recs, "PRECIP_RATE", K)
    BY <1>2, <1>7, <1>9, SteadyKept
  <2>3. \A i \in DOMAIN b.recs : b.recs[i].type = "PRECIP_RATE" => Mean(b.recs[i])
    BY <1>5, <1>9, <2>2
  <2>4. /\ DOMAIN a.recs = DOMAIN b.recs /\ DOMAIN b.recs = DOMAIN c.recs
        /\ \A i \in DOMAIN c.recs :
              a.recs[i].type = b.recs[i].type /\ b.recs[i].type = c.recs[i].type
    BY <1>4, <1>6, <1>7 DEF Accumulated, Rated, Alike
  <2>5. c.recs[j] = b.recs[j]
    BY <1>6, <1>9, <2>4 DEF Accumulated, Rains
  <2>6. CASE c.recs[j].type = "PRECIP_TOT"
    <3>1. b.recs[j] = a.recs[j]
      BY <1>4, <2>4, <2>6 DEF Accumulated
    <3> QED
      BY <2>1, <2>4, <2>5, <2>6, <3>1
  <2>7. CASE c.recs[j].type = "PRECIP_RATE"
    BY <2>3, <2>4, <2>5, <2>7
  <2> QED
    BY <1>9, <2>6, <2>7 DEF Rains
<1> QED
  BY <1>1, <1>6, <1>8, <1>9

\* The message of a record that was read, with the hours it counts.
LEMMA UnratedRead ==
  ASSUME NEW m \in Message, NEW K \in Int, m.p1 <= m.p2, m.date - m.p2 = K
  PROVE  Unrated(RecordOf(m), K)
<1>1. m.date \in Nat /\ m.p1 \in Nat /\ m.p2 \in Nat
  BY DEF Message
<1>2. m.date = K + m.p2 /\ m.date - (m.p2 - m.p1) + 1 = K + m.p1 + 1
  BY <1>1
<1>3. (m.date - (m.p2 - m.p1) + 1)..m.date = (K + m.p1 + 1)..(K + m.p2)
  BY <1>2
<1>4. /\ RecordOf(m).p1 = m.p1 /\ RecordOf(m).p2 = m.p2 /\ RecordOf(m).date = m.date
      /\ RecordOf(m).of = m.date /\ RecordOf(m).per = 1 /\ RecordOf(m).exact
      /\ RecordOf(m).hours = (m.date - (m.p2 - m.p1) + 1)..m.date
  BY DEF RecordOf
<1> QED
  BY <1>2, <1>3, <1>4 DEF Unrated

\* What one run delivers is read as records of one run.
LEMMA OneRunSteady ==
  ASSUME NEW files \in Seq(Seq(Message)), NEW newestFile \in BOOLEAN,
         OneRun(FilesRead(files, newestFile))
  PROVE  \E K \in Int :
            LET recs == ReadFiles(files, newestFile).reader.recs
            IN  Steady(recs, "PRECIP_TOT", K) /\ Steady(recs, "PRECIP_RATE", K)
<1> DEFINE read == FilesRead(files, newestFile)
           all == UNION {ToSet(f) : f \in ToSet(read)}
           recs == ReadFiles(files, newestFile).reader.recs
<1>1. Single(recs, all)
  BY FilesOnce
<1>2. /\ Kept(read) \subseteq Message
      /\ \A m \in all : m.type \in Stored => m \in Kept(read)
  BY KeptIs DEF Kept
<1>3. /\ \A m, n \in Kept(read) : m.type = n.type => m.tr = n.tr
      /\ \A m, n \in Kept(read) : m.date - m.p2 = n.date - n.p2
      /\ \A m \in Kept(read) : m.p1 <= m.p2
  BY DEF OneRun
<1> HIDE DEF read, all, recs
<1>4. PICK K \in Int : \A m \in Kept(read) : m.date - m.p2 = K
  <2>1. CASE Kept(read) = {}
    <3>1. 0 \in Int
      OBVIOUS
    <3> QED
      BY <2>1, <3>1
  <2>2. CASE Kept(read) # {}
    <3>1. PICK m \in Kept(read) : TRUE
      BY <2>2
    <3>2. m.date - m.p2 \in Int
      BY <1>2, <3>1 DEF Message
    <3> QED
      BY <1>3, <3>1, <3>2
  <2> QED
    BY <2>1, <2>2
<1>5. \A i \in DOMAIN recs : recs[i].type \in Rains =>
         \E m \in Kept(read) : recs[i] = RecordOf(m)
  <2> SUFFICES ASSUME NEW i \in DOMAIN recs, recs[i].type \in Rains
               PROVE  \E m \in Kept(read) : recs[i] = RecordOf(m)
    OBVIOUS
  <2>1. PICK m \in all : recs[i] = RecordOf(m)
    BY <1>1 DEF Single
  <2>2. m.type \in Stored
    BY <2>1, RainsStored DEF RecordOf
  <2> QED
    BY <1>2, <2>1, <2>2
<1>6. ASSUME NEW type \in Rains PROVE Steady(recs, type, K)
  <2>1. ASSUME NEW i \in DOMAIN recs, recs[i].type = type PROVE Unrated(recs[i], K)
    <3>1. PICK m \in Kept(read) : recs[i] = RecordOf(m)
      BY <1>5, <2>1
    <3> QED
      BY <1>2, <1>3, <1>4, <3>1, UnratedRead
  <2>2. ASSUME NEW i \in DOMAIN recs, NEW j \in DOMAIN recs,
               recs[i].type = type, recs[j].type = type
        PROVE  recs[i].tr = recs[j].tr
    <3>1. PICK m \in Kept(read) : recs[i] = RecordOf(m)
      BY <1>5, <2>2
    <3>2. PICK w \in Kept(read) : recs[j] = RecordOf(w)
      BY <1>5, <2>2
    <3>3. m.type = type /\ w.type = type /\ recs[i].tr = m.tr /\ recs[j].tr = w.tr
      BY <2>2, <3>1, <3>2 DEF RecordOf
    <3> QED
      BY <1>3, <3>3
  <2>3. \A i, j \in DOMAIN recs :
           recs[i].type = type /\ recs[j].type = type /\ recs[i].date = recs[j].date
              => i = j
    BY <1>1 DEF Single
  <2> QED
    BY <2>1, <2>2, <2>3 DEF Steady
<1>7. "PRECIP_TOT" \in Rains /\ "PRECIP_RATE" \in Rains
  BY DEF Rains
<1> QED
  BY <1>6, <1>7 DEF recs

-----------------------------------------------------------------------------
(***************************************************************************)
(* What the copies add.                                                    *)
(***************************************************************************)
Copied == {"CLOUD_TOT", "PRECIP_TOT", "HTSGW", "WVDIR", "WVPER", "DIR", "PER"}

\* Added are copies of old records, to dates that had none of their type.
CopyOf(old, x) ==
  /\ x.type \in Copied /\ ~Holds(old, x.type, x.date)
  /\ \E i \in DOMAIN old : x = [old[i] EXCEPT !.date = x.date]

Filled(old, new) ==
  Grown(old, new) /\ \A j \in DOMAIN new : j \in DOMAIN old \/ CopyOf(old, new[j])

Fills(r, s) ==
  /\ s \in Reader /\ Filled(r.recs, s.recs)
  /\ Len(r.recs) <= MaxRecords => Len(s.recs) <= MaxRecords

LEMMA FillsNone == ASSUME NEW r \in Reader PROVE Fills(r, r)
BY DEF Fills, Filled, Grown, Reader

LEMMA FilledTrans ==
  ASSUME NEW a \in Seq(Record), NEW b \in Seq(Record), NEW c \in Seq(Record),
         Filled(a, b), Filled(b, c)
  PROVE  Filled(a, c)
<1>1. Grown(a, c)
  BY GrownTrans DEF Filled
<1>2. /\ \A i \in DOMAIN a : i \in DOMAIN b /\ b[i] = a[i]
      /\ \A i \in DOMAIN b : c[i] = b[i]
  BY DEF Filled, Grown
<1>3. ASSUME NEW j \in DOMAIN c PROVE j \in DOMAIN a \/ CopyOf(a, c[j])
  <2>1. CASE j \in DOMAIN b
    <3>1. j \in DOMAIN a \/ CopyOf(a, b[j])
      BY <2>1 DEF Filled
    <3> QED
      BY <1>2, <2>1, <3>1
  <2>2. CASE j \notin DOMAIN b
    <3>1. CopyOf(b, c[j])
      BY <2>2 DEF Filled
    <3>2. c[j].type \in Copied /\ ~Holds(a, c[j].type, c[j].date)
      BY <1>2, <3>1 DEF CopyOf, Holds
    <3>3. PICK i \in DOMAIN b : c[j] = [b[i] EXCEPT !.date = c[j].date]
      BY <3>1 DEF CopyOf
    <3>4. CASE i \in DOMAIN a
      BY <1>2, <3>2, <3>3, <3>4 DEF CopyOf
    <3>5. CASE i \notin DOMAIN a
      <4>1. CopyOf(a, b[i])
        BY <3>5 DEF Filled
      <4>2. PICK k \in DOMAIN a : b[i] = [a[k] EXCEPT !.date = b[i].date]
        BY <4>1 DEF CopyOf
      <4>3. a[k] \in Record
        BY <4>2
      <4>4. \A x \in Record : \A d, e : [[x EXCEPT !.date = d] EXCEPT !.date = e] =
                  [x EXCEPT !.date = e]
        BY DEF Record
      <4>5. c[j] = [a[k] EXCEPT !.date = c[j].date]
        <5> DEFINE x == a[k]
                   d == b[i].date
                   e == c[j].date
        <5>1. c[j] = [[x EXCEPT !.date = d] EXCEPT !.date = e] /\ x \in Record
          BY <3>3, <4>2, <4>3
        <5> HIDE DEF x, d, e
        <5>2. c[j] = [x EXCEPT !.date = e]
          BY <4>4, <5>1
        <5> QED
          BY <5>2 DEF x, e
      <4> QED
        BY <3>2, <4>2, <4>5 DEF CopyOf
    <3> QED
      BY <3>4, <3>5
  <2> QED
    BY <2>1, <2>2
<1> QED
  BY <1>1, <1>3 DEF Filled

LEMMA FillsTrans ==
  ASSUME NEW r \in Reader, NEW s, NEW t, Fills(r, s), Fills(s, t)
  PROVE  Fills(r, t)
<1>1. r.recs \in Seq(Record) /\ s.recs \in Seq(Record) /\ t.recs \in Seq(Record)
  BY DEF Fills, Reader
<1> QED
  BY <1>1, FilledTrans DEF Fills

LEMMA CopyToFills ==
  ASSUME NEW r \in Reader, NEW i \in DOMAIN r.recs, NEW d \in Nat,
         r.recs[i].type \in Copied, ~Holds(r.recs, r.recs[i].type, d)
  PROVE  Fills(r, CopyTo(r, i, d))
<1> DEFINE rec == [r.recs[i] EXCEPT !.date = d]
           s == CopyTo(r, i, d)
<1>1. r.recs \in Seq(Record) /\ r.recs[i] \in Record
  BY DEF Reader
<1>2. rec \in Record /\ rec.date = d /\ rec.type = r.recs[i].type
  BY <1>1 DEF Record
<1>3. CopyOf(r.recs, rec)
  BY <1>2 DEF CopyOf
<1>4. s = storeRecordInMap(r, rec)
  BY DEF CopyTo
<1> HIDE DEF rec, s
<1>5. s \in Reader /\ Adds(r, s, rec)
  BY <1>2, <1>4, StoreType, StoreAdds
<1>6. /\ Grown(r.recs, s.recs)
      /\ Len(r.recs) <= MaxRecords => Len(s.recs) <= MaxRecords
      /\ \A j \in DOMAIN s.recs : j \in DOMAIN r.recs \/ s.recs[j] = rec
  BY <1>2, <1>5, AddedIs
<1> QED
  BY <1>3, <1>5, <1>6 DEF Fills, Filled, s

LEMMA CopyFirstFills ==
  ASSUME NEW r \in Reader, NEW type \in Copied
  PROVE  Fills(r, copyFirstCumulativeRecord(r, type))
<1> DEFINE dates == InOrder(Dates(r.recs))
           having == {d \in Dates(r.recs) : IndexOf(r.recs, type, d) # 0}
           i == IndexOf(r.recs, type, InOrder(having)[1])
<1>1. r.recs \in Seq(Record)
  BY DEF Reader
<1>2. Dates(r.recs) \in SUBSET Nat /\ IsFiniteSet(Dates(r.recs))
  BY <1>1, DatesType
<1>3. having \in SUBSET Nat /\ IsFiniteSet(having)
  BY <1>2, FS_Subset
<1>4. having = {} \/ dates[1] \in having => copyFirstCumulativeRecord(r, type) = r
  BY DEF copyFirstCumulativeRecord
<1>5. ASSUME having # {}, dates[1] \notin having
      PROVE  Fills(r, copyFirstCumulativeRecord(r, type))
  <2>1. InOrder(having)[1] \in having
    <3> HIDE DEF having
    <3>1. Orders(InOrder(having), having) /\ InOrder(having) \in Seq(having)
      BY <1>3, InOrderIs
    <3>2. InOrder(having) # <<>>
      BY <1>5, <3>1 DEF Orders, ToSet
    <3> QED
      BY <3>1, <3>2
  <2>2. i \in DOMAIN r.recs /\ r.recs[i].type = type
    <3> DEFINE d == InOrder(having)[1]
    <3>1. IndexOf(r.recs, type, d) # 0 /\ i = IndexOf(r.recs, type, d)
      BY <2>1
    <3> HIDE DEF i, d
    <3> QED
      BY <1>1, <3>1, IndexOfType
  <2>3. dates[1] \in Dates(r.recs)
    <3>1. Orders(dates, Dates(r.recs)) /\ dates \in Seq(Dates(r.recs))
      BY <1>2, InOrderIs
    <3>2. Dates(r.recs) # {}
      BY <1>5
    <3>3. dates # <<>>
      BY <3>1, <3>2 DEF Orders, ToSet
    <3> QED
      BY <3>1, <3>3
  <2>4. IndexOf(r.recs, type, dates[1]) = 0
    BY <1>5, <2>3
  <2>5. ~Holds(r.recs, type, dates[1]) /\ dates[1] \in Nat
    BY <1>1, <1>2, <2>3, <2>4, IndexOfType DEF Holds
  <2>6. copyFirstCumulativeRecord(r, type) = CopyTo(r, i, dates[1])
    BY <1>5 DEF copyFirstCumulativeRecord
  <2> HIDE DEF i, dates
  <2> QED
    BY <2>2, <2>5, <2>6, CopyToFills
<1> QED
  BY <1>4, <1>5, FillsNone

LEMMA CopyMissingFills ==
  ASSUME NEW r \in Reader, NEW type \in Copied, NEW d \in Nat
  PROVE  Fills(r, CopyMissing(r, type, d))
<1> DEFINE i == OfNextDate(r, type, d)
<1>1. r.recs \in Seq(Record)
  BY DEF Reader
<1>2. i # 0 => i \in DOMAIN r.recs /\ r.recs[i].type = type
  <2> DEFINE e == Min({e \in Dates(r.recs) : e > d})
  <2>1. i # 0 => i = IndexOf(r.recs, type, e)
    BY DEF OfNextDate
  <2> HIDE DEF i, e
  <2> QED
    BY <1>1, <2>1, IndexOfType
<1>3. IndexOf(r.recs, type, d) = 0 => ~Holds(r.recs, type, d)
  BY <1>1, IndexOfType DEF Holds
<1>4. CopyMissing(r, type, d) =
         IF IndexOf(r.recs, type, d) # 0 \/ i = 0 THEN r ELSE CopyTo(r, i, d)
  BY DEF CopyMissing
<1> HIDE DEF i
<1> QED
  BY <1>2, <1>3, <1>4, CopyToFills, FillsNone

LEMMA CopyWavesFills ==
  ASSUME NEW r \in Reader, NEW type \in Copied
  PROVE  Fills(r, copyMissingWaveRecords(r, type))
<1> DEFINE dates == InOrder(Dates(r.recs))
           n == Len(dates)
<1>1. PICK c \in [0..n -> Reader] :
         /\ c[0] = r /\ copyMissingWaveRecords(r, type) = c[n]
         /\ \A i \in 1..n : c[i] = CopyMissing(c[i - 1], type, dates[i])
  BY WavesChain
<1>2. dates \in Seq(Nat)
  <2>1. r.recs \in Seq(Record)
    BY DEF Reader
  <2> QED
    BY <2>1, DatesType, InOrderIs
<1>3. n \in Nat /\ \A i \in 1..n : dates[i] \in Nat
  BY <1>2
<1> HIDE DEF n, dates
<1> DEFINE G == {i \in 0..n : Fills(r, c[i])}
<1>4. 0 \in G
  BY <1>1, <1>3, FillsNone
<1>5. ASSUME NEW i \in 1..n, i - 1 \in G PROVE i \in G
  <2>1. i \in 0..n /\ c[i - 1] \in Reader /\ Fills(r, c[i - 1])
    BY <1>1, <1>3, <1>5
  <2>2. Fills(c[i - 1], c[i])
    BY <1>1, <1>3, <2>1, CopyMissingFills
  <2> QED
    BY <2>1, <2>2, FillsTrans
<1>6. 0..n \subseteq G
  <2> HIDE DEF G
  <2> QED
    BY <1>3, <1>4, <1>5, StepsInduction
<1> QED
  BY <1>1, <1>3, <1>6

LEMMA AllFills ==
  ASSUME NEW r \in Reader, NEW CumRec \in BOOLEAN, NEW WaveRec \in BOOLEAN
  PROVE  Fills(r, AllWaves(AllFirst(r, CumRec), WaveRec))
<1>1. ASSUME NEW s, Fills(r, s), NEW type \in Copied
      PROVE  /\ Fills(r, copyFirstCumulativeRecord(s, type))
             /\ Fills(r, copyMissingWaveRecords(s, type))
  <2>1. s \in Reader
    BY <1>1 DEF Fills
  <2>2. /\ Fills(s, copyFirstCumulativeRecord(s, type))
        /\ Fills(s, copyMissingWaveRecords(s, type))
    BY <1>1, <2>1, CopyFirstFills, CopyWavesFills
  <2> QED
    BY <1>1, <2>2, FillsTrans
<1>2. /\ "CLOUD_TOT" \in Copied /\ "PRECIP_TOT" \in Copied /\ "HTSGW" \in Copied
      /\ "WVDIR" \in Copied /\ "WVPER" \in Copied /\ "DIR" \in Copied /\ "PER" \in Copied
  BY DEF Copied
<1>3. Fills(r, AllFirst(r, CumRec))
  BY <1>1, <1>2, FillsNone DEF AllFirst
<1>4. ASSUME NEW s, Fills(r, s) PROVE Fills(r, AllWaves(s, WaveRec))
  BY <1>1, <1>2, <1>4 DEF AllWaves
<1> QED
  BY <1>3, <1>4

-----------------------------------------------------------------------------
(***************************************************************************)
(* The records of a load, and what was read of them.                       *)
(***************************************************************************)
\* Read, then rated, then filled with copies.
LEMMA FinalIs ==
  ASSUME NEW files \in Seq(Seq(Message)), NEW CumRec \in BOOLEAN,
         NEW WaveRec \in BOOLEAN, NEW newestFile \in BOOLEAN
  PROVE  LET read == ReadFiles(files, newestFile).reader
             rated == AllRates(read)
             final == Final(files, CumRec, WaveRec, newestFile)
         IN  /\ read \in Reader /\ rated \in Reader /\ final \in Reader
             /\ read.recs \in Seq(Record) /\ rated.recs \in Seq(Record)
             /\ final.recs \in Seq(Record)
             /\ Rated(read.recs, rated.recs) /\ Filled(rated.recs, final.recs)
             /\ Len(read.recs) <= MaxRecords => Len(final.recs) <= MaxRecords
<1> DEFINE read == ReadFiles(files, newestFile).reader
           rated == AllRates(read)
           final == Final(files, CumRec, WaveRec, newestFile)
<1>1. read \in Reader
  BY ReadFilesType DEF Reading
<1>2. final = AllWaves(AllFirst(rated, CumRec), WaveRec)
  BY DEF Final
<1> HIDE DEF read, final
<1>3. rated \in Reader /\ Rated(read.recs, rated.recs)
  BY <1>1, AllRatesIs
<1> HIDE DEF rated
<1>4. Fills(rated, final)
  BY <1>2, <1>3, AllFills
<1>5. Len(rated.recs) = Len(read.recs)
  BY <1>3 DEF Rated
<1> QED
  BY <1>1, <1>3, <1>4, <1>5 DEF Fills, Reader, read, rated, final

\* What the record of a message becomes.
LEMMA HeldFinally ==
  ASSUME NEW old \in Seq(Record), NEW rated \in Seq(Record), NEW new \in Seq(Record),
         Rated(old, rated), Filled(rated, new),
         NEW j \in DOMAIN old
  PROVE  /\ j \in DOMAIN rated /\ j \in DOMAIN new
         /\ rated[j] = new[j] /\ Alike(old[j], new[j])
BY DEF Rated, Filled, Grown

\* The files read are shown whole or refused: a load stays within the budget,
\* every message it keeps has a record, and beyond the budget nothing is shown.
THEOREM LoadsAllOrNothing ==
  ASSUME NEW files \in Seq(Seq(Message)), NEW CumRec \in BOOLEAN,
         NEW WaveRec \in BOOLEAN, NEW newestFile \in BOOLEAN
  PROVE  AllOrNothing(FilesRead(files, newestFile),
                      GRIBFile(files, CumRec, WaveRec, newestFile))
<1> DEFINE load == GRIBFile(files, CumRec, WaveRec, newestFile)
           read == ReadFiles(files, newestFile)
           rated == AllRates(read.reader)
           final == Final(files, CumRec, WaveRec, newestFile)
           kept == Kept(FilesRead(files, newestFile))
<1>1. /\ load.ok = read.ok
      /\ load.recs = IF load.ok THEN final.recs ELSE read.reader.recs
      /\ ~load.ok => load.sets = <<>>
  BY LoadIs
<1>2. /\ read.reader.recs \in Seq(Record) /\ rated.recs \in Seq(Record)
      /\ final.recs \in Seq(Record)
      /\ Rated(read.reader.recs, rated.recs) /\ Filled(rated.recs, final.recs)
      /\ Len(read.reader.recs) <= MaxRecords => Len(final.recs) <= MaxRecords
  BY FinalIs
<1>3. /\ Len(read.reader.recs) <= MaxRecords
      /\ read.ok => \A m \in kept : \E j \in DOMAIN read.reader.recs :
                       read.reader.recs[j] = RecordOf(m)
  <2> DEFINE Q == Record
  <2>1. kept \subseteq Message
    BY KeptIs
  <2>2. /\ Derived(Q, "GUST") /\ Derived(Q, "DEWPOINT")
        /\ \A m \in kept : RecordOf(m) \in Q
    <3>1. "GUST" \in Stored /\ "DEWPOINT" \in Stored
      BY DerivedStored DEF DerivedTypes
    <3> QED
      BY <2>1, <3>1, RecordOfType DEF Derived, Record
  <2> HIDE DEF Q
  <2> QED
    BY <2>2, FilesAre
<1> HIDE DEF load, read, rated, final
<1>4. ASSUME load.ok, NEW m \in kept PROVE IndexOf(load.recs, m.type, m.date) # 0
  <2>1. PICK j \in DOMAIN read.reader.recs : read.reader.recs[j] = RecordOf(m)
    BY <1>1, <1>3, <1>4
  <2>2. j \in DOMAIN final.recs /\ Alike(RecordOf(m), final.recs[j])
    BY <1>2, <2>1, HeldFinally
  <2>3. final.recs[j].type = m.type /\ final.recs[j].date = m.date
    BY <2>2 DEF Alike, RecordOf
  <2> QED
    BY <1>1, <1>2, <1>4, <2>2, <2>3, IndexOfType
<1>5. Len(load.recs) <= MaxRecords
  BY <1>1, <1>2, <1>3
<1> QED
  BY <1>1, <1>4, <1>5 DEF AllOrNothing, load

-----------------------------------------------------------------------------
(***************************************************************************)
(* The records in the order of their keys.                                 *)
(***************************************************************************)
LEMMA KeyOrderIs == Len(KeyOrder) = 25 /\ DOMAIN KeyOrder = 1..25
<1>1. Len(KeyOrder) = 25
  BY DEF KeyOrder
<1>2. DOMAIN KeyOrder = 1..25
  BY DEF KeyOrder
<1> QED
  BY <1>1, <1>2

\* The record is picked if it has the key.
PickKey(s, rec, key) == IF rec.type = key THEN Append(s, rec) ELSE s

LEMMA PickKept ==
  ASSUME NEW s \in Seq(Record), NEW x \in Record, NEW key
  PROVE  PickKey(s, x, key) \in Seq(Record)
BY DEF PickKey

LEMMA ConcatKept ==
  ASSUME NEW s \in Seq(Record), NEW t \in Seq(Record)
  PROVE  s \o t \in Seq(Record)
OBVIOUS

\* The records of a key are picked in turn.
LEMMA OfKeyChain ==
  ASSUME NEW recs \in Seq(Record), NEW key
  PROVE  \E c \in [0..Len(recs) -> Seq(Record)] :
            /\ c[0] = <<>> /\ OfKey(recs, key) = c[Len(recs)]
            /\ \A i \in 1..Len(recs) : c[i] = PickKey(c[i - 1], recs[i], key)
<1> DEFINE n == Len(recs)
           F == [p \in Seq(Record) \X (1..n) |-> PickKey(p[1], recs[p[2]], key)]
           Eq(h) == h = [s \in SUBSET (1..n) |->
                           IF s = {} THEN <<>>
                           ELSE PickKey(h[s \ {Max(s)}], recs[Max(s)], key)]
           it == CHOOSE h : Eq(h)
<1>1. n \in Nat /\ DOMAIN recs = 1..n /\ (\A i \in 1..n : recs[i] \in Record)
            /\ <<>> \in Seq(Record)
  OBVIOUS
<1>2. OfKey(recs, key) = it[1..n]
  BY <1>1 DEF OfKey, PickKey, FoldLeft, MapThenFoldSet
<1>3. F \in [Seq(Record) \X (1..n) -> Seq(Record)]
  BY <1>1, PickKept
<1>4. \E h : Eq(h)
  <2>1. PICK g \in [SUBSET (1..n) -> Seq(Record)] : IsTable(g, n, <<>>, F)
    <3>1. <<>> \in Seq(Record)
      BY <1>1
    <3> HIDE DEF F, n
    <3> QED
      BY <1>1, <1>3, <3>1, TableExists
  <2>2. \A s \in SUBSET (1..n) : s # {} =>
           F[<<g[s \ {Max(s)}], Max(s)>>] = PickKey(g[s \ {Max(s)}], recs[Max(s)], key)
    BY <1>1, <2>1, LastOf
  <2>3. Eq(g)
    BY <2>1, <2>2 DEF IsTable
  <2> QED
    BY <2>3
<1>5. Eq(it)
  BY <1>4
<1>6. /\ it[{}] = <<>>
      /\ \A i \in 1..n : it[1..i] = PickKey(it[1..(i - 1)], recs[i], key)
  <2> HIDE DEF it
  <2>1. ASSUME NEW i \in 1..n
        PROVE  1..i \in SUBSET (1..n) /\ 1..i # {} /\ Max(1..i) = i
               /\ (1..i) \ {Max(1..i)} = 1..(i - 1)
    <3> HIDE DEF n, F, Eq
    <3>1. n \in Nat
      BY <1>1
    <3>2. 1..i \in SUBSET (1..n) /\ i \in 1..i
      BY <3>1
    <3> QED
      BY <3>1, <3>2, MaxOfFirst
  <2> QED
    BY <1>1, <1>5, <2>1
<1> HIDE DEF it
<1>7. Unrolls(it, n, Seq(Record), <<>>, F)
  BY <1>6 DEF Unrolls
<1>8. PICK c \in [0..n -> Seq(Record)] : IsChain(c, it, n, <<>>, F)
  <2>1. <<>> \in Seq(Record)
    BY <1>1
  <2> HIDE DEF n, F, Eq
  <2> QED
    BY <1>1, <1>3, <1>7, <2>1, ChainOf
<1>9. \A i \in 1..n : c[i] = PickKey(c[i - 1], recs[i], key)
  <2>1. \A i \in 1..n : <<c[i - 1], i>> \in Seq(Record) \X (1..n)
    <3> HIDE DEF n, F, Eq
    <3>1. \A i \in 1..n : i - 1 \in 0..n
      BY <1>1
    <3> QED
      BY <3>1
  <2> QED
    BY <1>8, <2>1 DEF IsChain
<1> QED
  BY <1>2, <1>8, <1>9 DEF IsChain


\* These and no others: the records of this key.
LEMMA OfKeyIs ==
  ASSUME NEW recs \in Seq(Record), NEW key
  PROVE  /\ OfKey(recs, key) \in Seq(Record)
         /\ \A i \in DOMAIN OfKey(recs, key) :
               /\ OfKey(recs, key)[i].type = key
               /\ \E j \in DOMAIN recs : OfKey(recs, key)[i] = recs[j]
         /\ \A j \in DOMAIN recs : recs[j].type = key =>
               \E i \in DOMAIN OfKey(recs, key) : OfKey(recs, key)[i] = recs[j]
<1> DEFINE n == Len(recs)
<1>1. PICK c \in [0..n -> Seq(Record)] :
         /\ c[0] = <<>> /\ OfKey(recs, key) = c[n]
         /\ \A i \in 1..n :
               c[i] = PickKey(c[i - 1], recs[i], key)
  BY OfKeyChain
<1>2. n \in Nat /\ DOMAIN recs = 1..n /\ \A i \in 1..n : recs[i] \in Record
  OBVIOUS
<1> HIDE DEF n
<1> DEFINE Good(k) ==
             /\ \A i \in DOMAIN c[k] : /\ c[k][i].type = key
                                       /\ \E j \in 1..n : c[k][i] = recs[j]
             /\ \A j \in 1..k : recs[j].type = key =>
                   \E i \in DOMAIN c[k] : c[k][i] = recs[j]
           G == {k \in 0..n : Good(k)}
<1>3. 0 \in G
  <2>1. 0 \in 0..n /\ 1..0 = {} /\ DOMAIN c[0] = {}
    BY <1>1, <1>2
  <2> QED
    BY <2>1
<1>4. ASSUME NEW k \in 1..n, k - 1 \in G PROVE k \in G
  <2> DEFINE s == c[k - 1]
             t == c[k]
             x == recs[k]
  <2>1. /\ k \in 0..n /\ k - 1 \in 0..n /\ Good(k - 1) /\ s \in Seq(Record) /\ x \in Record
        /\ \A j : j \in 1..k <=> j \in 1..(k - 1) \/ j = k
    <3>1. k \in 0..n /\ k - 1 \in 0..n /\ \A j : j \in 1..k <=> j \in 1..(k - 1) \/ j = k
      BY <1>2
    <3>2. s \in Seq(Record) /\ x \in Record
      BY <1>1, <1>2, <3>1
    <3>3. Good(k - 1)
      <4> HIDE DEF Good
      <4> QED
        BY <1>4
    <3> HIDE DEF Good
    <3> QED
      BY <3>1, <3>2, <3>3
  <2>2. CASE x.type # key
    <3>1. t = s
      BY <1>1, <2>2 DEF PickKey
    <3>2. Good(k)
      BY <2>1, <2>2, <3>1
    <3> QED
      BY <2>1, <3>2
  <2>3. CASE x.type = key
    <3>1. t = Append(s, x)
      BY <1>1, <2>3 DEF PickKey
    <3> HIDE DEF s, t, x
    <3>2. /\ DOMAIN t = 1..(Len(s) + 1) /\ t[Len(s) + 1] = x /\ Len(s) \in Nat
          /\ DOMAIN s = 1..Len(s) /\ \A i \in 1..Len(s) : t[i] = s[i]
      BY <2>1, <3>1
    <3>3. /\ \A i \in DOMAIN t : i \in DOMAIN s \/ i = Len(s) + 1
          /\ \A i \in DOMAIN s : i \in DOMAIN t /\ t[i] = s[i]
          /\ Len(s) + 1 \in DOMAIN t
      BY <3>2
    <3>4. /\ \A i \in DOMAIN s : s[i].type = key /\ \E j \in 1..n : s[i] = recs[j]
          /\ \A j \in 1..(k - 1) : recs[j].type = key => \E i \in DOMAIN s : s[i] = recs[j]
      BY <2>1 DEF s
    <3>5. \A i \in DOMAIN t : t[i].type = key /\ \E j \in 1..n : t[i] = recs[j]
      BY <2>3, <3>2, <3>3, <3>4 DEF x
    <3>6. \A j \in 1..k : recs[j].type = key => \E i \in DOMAIN t : t[i] = recs[j]
      <4> SUFFICES ASSUME NEW j \in 1..k, recs[j].type = key
                   PROVE  \E i \in DOMAIN t : t[i] = recs[j]
        OBVIOUS
      <4>1. CASE j = k
        BY <3>2, <3>3, <4>1 DEF x
      <4>2. CASE j \in 1..(k - 1)
        BY <3>3, <3>4, <4>2
      <4> QED
        BY <2>1, <4>1, <4>2
    <3> QED
      BY <2>1, <3>5, <3>6 DEF t
  <2> QED
    BY <2>2, <2>3
<1>5. 0..n \subseteq G
  <2> HIDE DEF G
  <2> QED
    BY <1>2, <1>3, <1>4, StepsInduction
<1>6. Good(n) /\ c[n] \in Seq(Record)
  <2> HIDE DEF Good
  <2>1. n \in 0..n
    BY <1>2
  <2> QED
    BY <1>1, <1>5, <2>1
<1>7. /\ c[n] \in Seq(Record) /\ OfKey(recs, key) = c[n]
      /\ \A i \in DOMAIN c[n] : c[n][i].type = key /\ \E j \in DOMAIN recs : c[n][i] = recs[j]
      /\ \A j \in DOMAIN recs : recs[j].type = key =>
            \E i \in DOMAIN c[n] : c[n][i] = recs[j]
  BY <1>1, <1>2, <1>6
<1> HIDE DEF G, Good
<1> QED
  BY <1>7

\* The keys are taken in order.
LEMMA ByKeyChain ==
  ASSUME NEW recs \in Seq(Record)
  PROVE  \E c \in [0..Len(KeyOrder) -> Seq(Record)] :
            /\ c[0] = <<>> /\ ByKey(recs) = c[Len(KeyOrder)]
            /\ \A i \in 1..Len(KeyOrder) : c[i] = (c[i - 1] \o OfKey(recs, KeyOrder[i]))
<1> DEFINE n == Len(KeyOrder)
           F == [p \in Seq(Record) \X (1..n) |-> (p[1] \o OfKey(recs, KeyOrder[p[2]]))]
           Eq(h) == h = [s \in SUBSET (1..n) |->
                           IF s = {} THEN <<>>
                           ELSE (h[s \ {Max(s)}] \o OfKey(recs, KeyOrder[Max(s)]))]
           it == CHOOSE h : Eq(h)
<1>1. n \in Nat /\ DOMAIN KeyOrder = 1..n /\ <<>> \in Seq(Record)
  BY KeyOrderIs
<1>2. ByKey(recs) = it[1..n]
  BY <1>1 DEF ByKey, FoldLeft, MapThenFoldSet
<1>3. F \in [Seq(Record) \X (1..n) -> Seq(Record)]
  BY <1>1, OfKeyIs, ConcatKept
<1>4. \E h : Eq(h)
  <2>1. PICK g \in [SUBSET (1..n) -> Seq(Record)] : IsTable(g, n, <<>>, F)
    <3>1. <<>> \in Seq(Record)
      BY <1>1
    <3> HIDE DEF F, n
    <3> QED
      BY <1>1, <1>3, <3>1, TableExists
  <2>2. \A s \in SUBSET (1..n) : s # {} =>
           F[<<g[s \ {Max(s)}], Max(s)>>] = (g[s \ {Max(s)}] \o OfKey(recs, KeyOrder[Max(s)]))
    BY <1>1, <2>1, LastOf
  <2>3. Eq(g)
    BY <2>1, <2>2 DEF IsTable
  <2> QED
    BY <2>3
<1>5. Eq(it)
  BY <1>4
<1>6. /\ it[{}] = <<>>
      /\ \A i \in 1..n : it[1..i] = (it[1..(i - 1)] \o OfKey(recs, KeyOrder[i]))
  <2> HIDE DEF it
  <2>1. ASSUME NEW i \in 1..n
        PROVE  1..i \in SUBSET (1..n) /\ 1..i # {} /\ Max(1..i) = i
               /\ (1..i) \ {Max(1..i)} = 1..(i - 1)
    <3> HIDE DEF n, F, Eq
    <3>1. n \in Nat
      BY <1>1
    <3>2. 1..i \in SUBSET (1..n) /\ i \in 1..i
      BY <3>1
    <3> QED
      BY <3>1, <3>2, MaxOfFirst
  <2> QED
    BY <1>1, <1>5, <2>1
<1> HIDE DEF it
<1>7. Unrolls(it, n, Seq(Record), <<>>, F)
  BY <1>6 DEF Unrolls
<1>8. PICK c \in [0..n -> Seq(Record)] : IsChain(c, it, n, <<>>, F)
  <2>1. <<>> \in Seq(Record)
    BY <1>1
  <2> HIDE DEF n, F, Eq
  <2> QED
    BY <1>1, <1>3, <1>7, <2>1, ChainOf
<1>9. \A i \in 1..n : c[i] = (c[i - 1] \o OfKey(recs, KeyOrder[i]))
  <2>1. \A i \in 1..n : <<c[i - 1], i>> \in Seq(Record) \X (1..n)
    <3> HIDE DEF n, F, Eq
    <3>1. \A i \in 1..n : i - 1 \in 0..n
      BY <1>1
    <3> QED
      BY <3>1
  <2> QED
    BY <1>8, <2>1 DEF IsChain
<1> QED
  BY <1>2, <1>8, <1>9 DEF IsChain

LEMMA KeysOnce ==
  ASSUME NEW p \in 1..25, NEW q \in 1..25, KeyOrder[p] = KeyOrder[q]
  PROVE  p = q
BY DEF KeyOrder

\* Every type that is shown has its key.
LEMMA KeysAll == \A type \in DOMAIN SlotOf : \E k \in 1..25 : KeyOrder[k] = type
BY DEF KeyOrder, SlotOf

LEMMA KeysOfPairs ==
  /\ KeyOrder[14] = "WIND_DIR" /\ KeyOrder[15] = "WIND_SPEED"
  /\ KeyOrder[16] = "WIND_VX" /\ KeyOrder[17] = "WIND_VY"
  /\ KeyOrder[18] = "CUR_DIR" /\ KeyOrder[19] = "CUR_SPEED"
  /\ KeyOrder[20] = "UOGRD" /\ KeyOrder[21] = "VOGRD"
BY DEF KeyOrder

\* In this sequence every record of one type comes before those of the other.
After(seq, first, then) ==
  \A i, j \in DOMAIN seq : seq[i].type = then /\ seq[j].type = first => j < i

LEMMA ConcatIs ==
  ASSUME NEW s \in Seq(Record), NEW t \in Seq(Record)
  PROVE  /\ s \o t \in Seq(Record) /\ Len(s) \in Nat
         /\ \A i \in DOMAIN s : i \in DOMAIN (s \o t) /\ (s \o t)[i] = s[i] /\ i <= Len(s)
         /\ \A i \in DOMAIN t : /\ Len(s) + i \in DOMAIN (s \o t) /\ (s \o t)[Len(s) + i] = t[i]
         /\ \A i \in DOMAIN (s \o t) : i \in Int /\
               \/ i \in DOMAIN s /\ (s \o t)[i] = s[i] /\ i <= Len(s)
               \/ i > Len(s) /\ i - Len(s) \in DOMAIN t /\ (s \o t)[i] = t[i - Len(s)]
<1> DEFINE w == s \o t
<1>1. /\ w \in Seq(Record) /\ Len(w) = Len(s) + Len(t) /\ Len(s) \in Nat /\ Len(t) \in Nat
      /\ DOMAIN w = 1..Len(w) /\ DOMAIN s = 1..Len(s) /\ DOMAIN t = 1..Len(t)
      /\ \A i \in 1..Len(w) : w[i] = IF i <= Len(s) THEN s[i] ELSE t[i - Len(s)]
  OBVIOUS
<1> HIDE DEF w
<1>2. \A i \in DOMAIN t : Len(s) + i \in DOMAIN w /\ w[Len(s) + i] = t[i]
  <2> SUFFICES ASSUME NEW i \in DOMAIN t
               PROVE  Len(s) + i \in DOMAIN w /\ w[Len(s) + i] = t[i]
    OBVIOUS
  <2>1. Len(s) + i \in 1..Len(w) /\ ~(Len(s) + i <= Len(s)) /\ Len(s) + i - Len(s) = i
    BY <1>1
  <2> QED
    BY <1>1, <2>1
<1>3. \A i \in DOMAIN s : i \in DOMAIN w /\ w[i] = s[i] /\ i <= Len(s)
  BY <1>1
<1>4. \A i \in DOMAIN w : i \in Int /\
         \/ i \in DOMAIN s /\ w[i] = s[i] /\ i <= Len(s)
         \/ i > Len(s) /\ i - Len(s) \in DOMAIN t /\ w[i] = t[i - Len(s)]
  BY <1>1
<1> QED
  BY <1>1, <1>2, <1>3, <1>4 DEF w

\* The records of the first k keys.
KeyedTo(recs, seq, k) ==
  /\ seq \in Seq(Record)
  /\ \A i \in DOMAIN seq : /\ \E l \in 1..k : seq[i].type = KeyOrder[l]
                           /\ \E j \in DOMAIN recs : seq[i] = recs[j]
  /\ \A j \in DOMAIN recs : (\E l \in 1..k : recs[j].type = KeyOrder[l]) =>
        \E i \in DOMAIN seq : seq[i] = recs[j]
  /\ \A p, q \in 1..25 : p < q => After(seq, KeyOrder[p], KeyOrder[q])

LEMMA KeyedStep ==
  ASSUME NEW recs \in Seq(Record), NEW k \in 1..25, NEW s, KeyedTo(recs, s, k - 1)
  PROVE  KeyedTo(recs, s \o OfKey(recs, KeyOrder[k]), k)
<1> DEFINE t == OfKey(recs, KeyOrder[k])
           w == s \o t
<1>1. /\ t \in Seq(Record) /\ s \in Seq(Record)
      /\ \A i \in DOMAIN t : /\ t[i].type = KeyOrder[k]
                             /\ \E j \in DOMAIN recs : t[i] = recs[j]
      /\ \A j \in DOMAIN recs : recs[j].type = KeyOrder[k] =>
            \E i \in DOMAIN t : t[i] = recs[j]
  <2>1. s \in Seq(Record)
    BY DEF KeyedTo
  <2> DEFINE key == KeyOrder[k]
             own == OfKey(recs, key)
  <2>2. own = t
    OBVIOUS
  <2> HIDE DEF key, t
  <2>3. /\ own \in Seq(Record)
        /\ \A i \in DOMAIN own : own[i].type = key /\ \E j \in DOMAIN recs : own[i] = recs[j]
        /\ \A j \in DOMAIN recs : recs[j].type = key => \E i \in DOMAIN own : own[i] = recs[j]
    BY OfKeyIs
  <2> HIDE DEF own
  <2> QED
    BY <2>1, <2>2, <2>3 DEF key
<1> HIDE DEF t
<1>2. /\ w \in Seq(Record) /\ Len(s) \in Nat
      /\ \A i \in DOMAIN s : i \in DOMAIN w /\ w[i] = s[i] /\ i <= Len(s)
      /\ \A i \in DOMAIN t : Len(s) + i \in DOMAIN w /\ w[Len(s) + i] = t[i]
      /\ \A i \in DOMAIN w : i \in Int /\
            \/ i \in DOMAIN s /\ w[i] = s[i] /\ i <= Len(s)
            \/ i > Len(s) /\ i - Len(s) \in DOMAIN t /\ w[i] = t[i - Len(s)]
  BY <1>1, ConcatIs
<1> HIDE DEF w
<1>3. \A l : l \in 1..k <=> l \in 1..(k - 1) \/ l = k
  OBVIOUS
<1>4. ASSUME NEW i \in DOMAIN w
      PROVE  /\ \E l \in 1..k : w[i].type = KeyOrder[l]
             /\ \E j \in DOMAIN recs : w[i] = recs[j]
  <2>1. CASE i \in DOMAIN s /\ w[i] = s[i]
    <3>1. /\ \E l \in 1..(k - 1) : s[i].type = KeyOrder[l]
          /\ \E j \in DOMAIN recs : s[i] = recs[j]
      BY <2>1 DEF KeyedTo
    <3> QED
      BY <1>3, <2>1, <3>1
  <2>2. CASE i - Len(s) \in DOMAIN t /\ w[i] = t[i - Len(s)]
    BY <1>1, <1>3, <2>2
  <2> QED
    BY <1>2, <2>1, <2>2
<1>5. ASSUME NEW j \in DOMAIN recs, NEW l \in 1..k, recs[j].type = KeyOrder[l]
      PROVE  \E i \in DOMAIN w : w[i] = recs[j]
  <2>1. CASE l = k
    <3>1. PICK i \in DOMAIN t : t[i] = recs[j]
      BY <1>1, <1>5, <2>1
    <3> QED
      BY <1>2, <3>1
  <2>2. CASE l \in 1..(k - 1)
    <3>1. PICK i \in DOMAIN s : s[i] = recs[j]
      BY <1>5, <2>2 DEF KeyedTo
    <3> QED
      BY <1>2, <3>1
  <2> QED
    BY <1>3, <2>1, <2>2
<1>6. ASSUME NEW p \in 1..25, NEW q \in 1..25, p < q,
             NEW i \in DOMAIN w, NEW j \in DOMAIN w,
             w[i].type = KeyOrder[q], w[j].type = KeyOrder[p]
      PROVE  j < i
  <2>1. CASE i \in DOMAIN s /\ w[i] = s[i] /\ i <= Len(s)
    <3>1. CASE j \in DOMAIN s /\ w[j] = s[j]
      <4>1. After(s, KeyOrder[p], KeyOrder[q])
        BY <1>6 DEF KeyedTo
      <4> QED
        BY <1>6, <2>1, <3>1, <4>1 DEF After
    <3>2. CASE j - Len(s) \in DOMAIN t /\ w[j] = t[j - Len(s)]
      <4>1. p = k
        <5>1. KeyOrder[p] = KeyOrder[k]
          BY <1>1, <1>6, <3>2
        <5> QED
          BY <5>1, KeysOnce
      <4>2. PICK l \in 1..(k - 1) : s[i].type = KeyOrder[l]
        BY <2>1 DEF KeyedTo
      <4>3. l \in 1..25 /\ l < k
        BY <1>3
      <4>4. l = q
        BY <1>6, <2>1, <4>2, <4>3, KeysOnce
      <4> QED
        BY <1>6, <4>1, <4>3, <4>4
    <3> QED
      BY <1>2, <3>1, <3>2
  <2>2. CASE i > Len(s) /\ i - Len(s) \in DOMAIN t /\ w[i] = t[i - Len(s)]
    <3>1. CASE j \in DOMAIN s /\ j <= Len(s)
      BY <1>2, <2>2, <3>1
    <3>2. CASE j - Len(s) \in DOMAIN t /\ w[j] = t[j - Len(s)]
      <4>1. p = k
        <5>1. KeyOrder[p] = KeyOrder[k]
          BY <1>1, <1>6, <3>2
        <5> QED
          BY <5>1, KeysOnce
      <4>2. q = k
        <5>1. KeyOrder[q] = KeyOrder[k]
          BY <1>1, <1>6, <2>2
        <5> QED
          BY <5>1, KeysOnce
      <4> QED
        BY <1>6, <4>1, <4>2
    <3> QED
      BY <1>2, <3>1, <3>2
  <2> QED
    BY <1>2, <2>1, <2>2
<1>7. \A p, q \in 1..25 : p < q => After(w, KeyOrder[p], KeyOrder[q])
  BY <1>6 DEF After
<1> QED
  BY <1>2, <1>4, <1>5, <1>7 DEF KeyedTo, w, t

LEMMA ByKeyIs ==
  ASSUME NEW recs \in Seq(Record)
  PROVE  KeyedTo(recs, ByKey(recs), 25)
<1>1. PICK c \in [0..Len(KeyOrder) -> Seq(Record)] :
         /\ c[0] = <<>> /\ ByKey(recs) = c[Len(KeyOrder)]
         /\ \A k \in 1..Len(KeyOrder) : c[k] = c[k - 1] \o OfKey(recs, KeyOrder[k])
  BY ByKeyChain
<1>2. /\ c[0] = <<>> /\ ByKey(recs) = c[25]
      /\ \A k \in 1..25 : c[k] = c[k - 1] \o OfKey(recs, KeyOrder[k])
  BY <1>1, KeyOrderIs
<1> DEFINE G == {k \in 0..25 : KeyedTo(recs, c[k], k)}
<1>3. 0 \in G
  <2>1. c[0] = <<>> /\ 0 \in 0..25 /\ 1..0 = {} /\ <<>> \in Seq(Record) /\ DOMAIN <<>> = {}
    BY <1>2
  <2> QED
    BY <2>1 DEF KeyedTo, After
<1>4. ASSUME NEW k \in 1..25, k - 1 \in G PROVE k \in G
  <2>1. KeyedTo(recs, c[k - 1], k - 1) /\ k \in 0..25
    BY <1>4
  <2>2. KeyedTo(recs, c[k - 1] \o OfKey(recs, KeyOrder[k]), k)
    BY <2>1, KeyedStep
  <2> QED
    BY <1>2, <2>1, <2>2
<1>5. 0..25 \subseteq G
  <2> HIDE DEF G
  <2>1. 25 \in Nat
    OBVIOUS
  <2> QED
    BY <1>3, <1>4, <2>1, StepsInduction
<1> QED
  BY <1>2, <1>5

-----------------------------------------------------------------------------
(***************************************************************************)
(* Placing the records in the sets.                                        *)
(***************************************************************************)
Flags == [wind : BOOLEAN, cur : BOOLEAN, height : BOOLEAN, wave : BOOLEAN]
Placing(D) == [flags : Flags, sets : [D -> [Slots -> Record \cup {None}]]]

AllPlaced(recs) ==
  FoldLeft(Place, [flags |-> NoFlags, sets |-> EmptySets(recs)], ByKey(recs))

\* A record for this entry of the set of a date.
Fit(rec, d, slot) ==
  rec.date = d /\ rec.type \in DOMAIN SlotOf /\ SlotOf[rec.type] = slot

\* Placed on what is there, a record replaces it or not.
Put(old, rec, new) == \E f : new = IF Keeps(old, f) THEN old ELSE rec

LEMMA SlotsAre == \A type \in DOMAIN SlotOf : SlotOf[type] \in Slots
BY DEF Slots

LEMMA PlaceType ==
  ASSUME NEW D, NEW s \in Placing(D), NEW rec \in Record, rec.date \in D
  PROVE  Place(s, rec) \in Placing(D)
<1> DEFINE f == Raise(s.flags, rec.type)
           slot == SlotOf[rec.type]
           sets == IF Keeps(s.sets[rec.date][slot], f) THEN s.sets
                   ELSE [s.sets EXCEPT ![rec.date][slot] = rec]
<1>1. CASE rec.type \notin DOMAIN SlotOf
  BY <1>1 DEF Place
<1>2. CASE rec.type \in DOMAIN SlotOf
  <2>1. slot \in Slots
    BY <1>2, SlotsAre
  <2>2. f \in Flags
    BY DEF Raise, Flags, Placing
  <2>3. s.sets \in [D -> [Slots -> Record \cup {None}]]
    BY DEF Placing
  <2>4. Place(s, rec) = [flags |-> f, sets |-> sets]
    BY <1>2 DEF Place
  <2> HIDE DEF f, slot
  <2>5. sets \in [D -> [Slots -> Record \cup {None}]]
    BY <2>1, <2>3
  <2> QED
    BY <2>2, <2>4, <2>5 DEF Placing
<1> QED
  BY <1>1, <1>2

\* A record changes the entry it fits and no other.
LEMMA PlaceIs ==
  ASSUME NEW D, NEW s \in Placing(D), NEW rec \in Record, rec.date \in D,
         NEW d \in D, NEW slot \in Slots
  PROVE  /\ Fit(rec, d, slot) => Put(s.sets[d][slot], rec, Place(s, rec).sets[d][slot])
         /\ ~Fit(rec, d, slot) => Place(s, rec).sets[d][slot] = s.sets[d][slot]
<1> DEFINE f == Raise(s.flags, rec.type)
           own == SlotOf[rec.type]
           old == s.sets[rec.date][own]
           sets == IF Keeps(old, f) THEN s.sets
                   ELSE [s.sets EXCEPT ![rec.date][own] = rec]
<1>1. CASE rec.type \notin DOMAIN SlotOf
  BY <1>1 DEF Place, Fit
<1>2. CASE rec.type \in DOMAIN SlotOf
  <2>1. own \in Slots /\ s.sets \in [D -> [Slots -> Record \cup {None}]]
    BY <1>2, SlotsAre DEF Placing
  <2>2. Place(s, rec).sets = sets
    BY <1>2 DEF Place
  <2>3. Fit(rec, d, slot) <=> d = rec.date /\ slot = own
    BY <1>2 DEF Fit
  <2> HIDE DEF own, f
  <2>4. sets[rec.date][own] = IF Keeps(old, f) THEN old ELSE rec
    BY <2>1
  <2>5. ~(d = rec.date /\ slot = own) => sets[d][slot] = s.sets[d][slot]
    BY <2>1
  <2> HIDE DEF sets
  <2> QED
    BY <2>2, <2>3, <2>4, <2>5 DEF Put
<1> QED
  BY <1>1, <1>2

LEMMA EmptyPlacing ==
  ASSUME NEW recs \in Seq(Record)
  PROVE  /\ [flags |-> NoFlags, sets |-> EmptySets(recs)] \in Placing(Dates(recs))
         /\ \A d \in Dates(recs), slot \in Slots : EmptySets(recs)[d][slot] = None
BY DEF Placing, NoFlags, Flags, EmptySets

LEMMA KeyedDates ==
  ASSUME NEW recs \in Seq(Record)
  PROVE  /\ ByKey(recs) \in Seq(Record) /\ Len(ByKey(recs)) \in Nat
         /\ DOMAIN ByKey(recs) = 1..Len(ByKey(recs))
         /\ \A i \in 1..Len(ByKey(recs)) :
               ByKey(recs)[i] \in Record /\ ByKey(recs)[i].date \in Dates(recs)
<1>1. KeyedTo(recs, ByKey(recs), 25)
  BY ByKeyIs
<1> DEFINE seq == ByKey(recs)
<1> HIDE DEF seq
<1>2. seq \in Seq(Record) /\ \A i \in DOMAIN seq : \E j \in DOMAIN recs : seq[i] = recs[j]
  BY <1>1 DEF KeyedTo, seq
<1>3. \A i \in DOMAIN seq : seq[i].date \in Dates(recs)
  BY <1>2 DEF Dates
<1> QED
  BY <1>2, <1>3 DEF seq

\* The records are placed one after the other.
LEMMA PlaceChain ==
  ASSUME NEW recs \in Seq(Record)
  PROVE  \E c \in [0..Len(ByKey(recs)) -> Placing(Dates(recs))] :
            /\ c[0] = [flags |-> NoFlags, sets |-> EmptySets(recs)]
                  /\ AllPlaced(recs) = c[Len(ByKey(recs))]
            /\ \A i \in 1..Len(ByKey(recs)) : c[i] = Place(c[i - 1], ByKey(recs)[i])
<1> DEFINE n == Len(ByKey(recs))
           F == [p \in Placing(Dates(recs)) \X (1..n) |-> Place(p[1], ByKey(recs)[p[2]])]
           Eq(h) == h = [s \in SUBSET (1..n) |->
                           IF s = {} THEN [flags |-> NoFlags, sets |-> EmptySets(recs)]
                           ELSE Place(h[s \ {Max(s)}], ByKey(recs)[Max(s)])]
           it == CHOOSE h : Eq(h)
<1>1. n \in Nat /\ DOMAIN ByKey(recs) = 1..n
      /\ (\A i \in 1..n : ByKey(recs)[i] \in Record /\ ByKey(recs)[i].date \in Dates(recs))
      /\ [flags |-> NoFlags, sets |-> EmptySets(recs)] \in Placing(Dates(recs))
  BY KeyedDates, EmptyPlacing
<1>2. AllPlaced(recs) = it[1..n]
  BY <1>1 DEF AllPlaced, FoldLeft, MapThenFoldSet
<1>3. F \in [Placing(Dates(recs)) \X (1..n) -> Placing(Dates(recs))]
  BY <1>1, PlaceType
<1>4. \E h : Eq(h)
  <2>1. PICK g \in [SUBSET (1..n) -> Placing(Dates(recs))] :
              IsTable(g, n, [flags |-> NoFlags, sets |-> EmptySets(recs)], F)
    <3>1. [flags |-> NoFlags, sets |-> EmptySets(recs)] \in Placing(Dates(recs))
      BY <1>1
    <3> HIDE DEF F, n
    <3> QED
      BY <1>1, <1>3, <3>1, TableExists
  <2>2. \A s \in SUBSET (1..n) : s # {} =>
           F[<<g[s \ {Max(s)}], Max(s)>>] = Place(g[s \ {Max(s)}], ByKey(recs)[Max(s)])
    BY <1>1, <2>1, LastOf
  <2>3. Eq(g)
    BY <2>1, <2>2 DEF IsTable
  <2> QED
    BY <2>3
<1>5. Eq(it)
  BY <1>4
<1>6. /\ it[{}] = [flags |-> NoFlags, sets |-> EmptySets(recs)]
      /\ \A i \in 1..n : it[1..i] = Place(it[1..(i - 1)], ByKey(recs)[i])
  <2> HIDE DEF it
  <2>1. ASSUME NEW i \in 1..n
        PROVE  1..i \in SUBSET (1..n) /\ 1..i # {} /\ Max(1..i) = i
               /\ (1..i) \ {Max(1..i)} = 1..(i - 1)
    <3> HIDE DEF n, F, Eq
    <3>1. n \in Nat
      BY <1>1
    <3>2. 1..i \in SUBSET (1..n) /\ i \in 1..i
      BY <3>1
    <3> QED
      BY <3>1, <3>2, MaxOfFirst
  <2> QED
    BY <1>1, <1>5, <2>1
<1> HIDE DEF it
<1>7. Unrolls(it, n, Placing(Dates(recs)), [flags |-> NoFlags, sets |-> EmptySets(recs)], F)
  BY <1>6 DEF Unrolls
<1>8. PICK c \in [0..n -> Placing(Dates(recs))] :
            IsChain(c, it, n, [flags |-> NoFlags, sets |-> EmptySets(recs)], F)
  <2>1. [flags |-> NoFlags, sets |-> EmptySets(recs)] \in Placing(Dates(recs))
    BY <1>1
  <2> HIDE DEF n, F, Eq
  <2> QED
    BY <1>1, <1>3, <1>7, <2>1, ChainOf
<1>9. \A i \in 1..n : c[i] = Place(c[i - 1], ByKey(recs)[i])
  <2>1. \A i \in 1..n : <<c[i - 1], i>> \in Placing(Dates(recs)) \X (1..n)
    <3> HIDE DEF n, F, Eq
    <3>1. \A i \in 1..n : i - 1 \in 0..n
      BY <1>1
    <3> QED
      BY <3>1
  <2> QED
    BY <1>8, <2>1 DEF IsChain
<1> QED
  BY <1>2, <1>8, <1>9 DEF IsChain

\* An entry holds one of the records that fit it, if there are any.
OneOf(v, P) == (v = None <=> P = {}) /\ (v # None => v \in P)

\* Where two types share an entry, a component replaces what came before it,
\* unless that is an average (time range 3), which stays.
Shows(v, P, first, then) ==
  /\ v.type = then <=> /\ \E x \in P : x.type = then
                       /\ \A x \in P : x.type = first => x.tr # 3
  /\ v.type = first /\ v.tr = 3 <=> \E x \in P : x.type = first /\ x.tr = 3

Firsts == [Wx |-> "WIND_DIR", Wy |-> "WIND_SPEED", Cx |-> "CUR_DIR", Cy |-> "CUR_SPEED"]
Thens == [Wx |-> "WIND_VX", Wy |-> "WIND_VY", Cx |-> "UOGRD", Cy |-> "VOGRD"]

LEMMA NoneKept == ASSUME NEW f PROVE ~Keeps(None, f)
BY DEF Keeps, None

LEMMA FirstKept ==
  ASSUME NEW slot \in DOMAIN Firsts, NEW v, v.type = Firsts[slot], NEW f
  PROVE  Keeps(v, f) <=> v.tr = 3
<1>1. v.type \in {"WIND_DIR", "WIND_SPEED", "CUR_DIR", "CUR_SPEED"}
  BY DEF Firsts
<1> QED
  BY <1>1 DEF Keeps

LEMMA ShownIsNone == "none" \notin DOMAIN SlotOf
BY DEF SlotOf

LEMMA TwoTypes ==
  ASSUME NEW slot \in DOMAIN Firsts
  PROVE  /\ slot \in Slots
         /\ Firsts[slot] # Thens[slot] /\ Firsts[slot] # "none" /\ Thens[slot] # "none"
         /\ Firsts[slot] \in DOMAIN SlotOf /\ Thens[slot] \in DOMAIN SlotOf
         /\ SlotOf[Firsts[slot]] = slot /\ SlotOf[Thens[slot]] = slot
         /\ \A type \in DOMAIN SlotOf :
               SlotOf[type] = slot => type = Firsts[slot] \/ type = Thens[slot]
<1>1. slot \in {"Wx", "Wy", "Cx", "Cy"}
  BY DEF Firsts
<1>2. /\ Firsts[slot] # Thens[slot] /\ Firsts[slot] # "none" /\ Thens[slot] # "none"
      /\ Firsts[slot] \in DOMAIN SlotOf /\ Thens[slot] \in DOMAIN SlotOf
      /\ SlotOf[Firsts[slot]] = slot /\ SlotOf[Thens[slot]] = slot
  BY <1>1 DEF Firsts, Thens, SlotOf
<1>3. \A type \in DOMAIN SlotOf :
         SlotOf[type] = slot => type = Firsts[slot] \/ type = Thens[slot]
  BY <1>1 DEF Firsts, Thens, SlotOf
<1> QED
  BY <1>2, <1>3 DEF Slots

LEMMA FirstsBefore ==
  ASSUME NEW recs \in Seq(Record), NEW slot \in DOMAIN Firsts
  PROVE  After(ByKey(recs), Firsts[slot], Thens[slot])
<1>1. \A p, q \in 1..25 : p < q => After(ByKey(recs), KeyOrder[p], KeyOrder[q])
  BY ByKeyIs DEF KeyedTo
<1>2. /\ After(ByKey(recs), KeyOrder[14], KeyOrder[16])
      /\ After(ByKey(recs), KeyOrder[15], KeyOrder[17])
      /\ After(ByKey(recs), KeyOrder[18], KeyOrder[20])
      /\ After(ByKey(recs), KeyOrder[19], KeyOrder[21])
  <2>1. /\ 14 \in 1..25 /\ 16 \in 1..25 /\ 14 < 16
        /\ 15 \in 1..25 /\ 17 \in 1..25 /\ 15 < 17
        /\ 18 \in 1..25 /\ 20 \in 1..25 /\ 18 < 20
        /\ 19 \in 1..25 /\ 21 \in 1..25 /\ 19 < 21
    OBVIOUS
  <2> QED
    BY <1>1, <2>1, Zenon
<1>3. slot \in {"Wx", "Wy", "Cx", "Cy"}
  BY DEF Firsts
<1> QED
  BY <1>2, <1>3, KeysOfPairs DEF Firsts, Thens

LEMMA OneOfPut ==
  ASSUME NEW old, NEW P, OneOf(old, P), NEW rec, rec.type \in DOMAIN SlotOf,
         NEW new, Put(old, rec, new)
  PROVE  OneOf(new, P \cup {rec})
<1>1. rec # None
  BY ShownIsNone DEF None
<1>2. old = None => new = rec
  BY NoneKept DEF Put
<1>3. new = old \/ new = rec
  BY DEF Put
<1> QED
  BY <1>1, <1>2, <1>3 DEF OneOf

LEMMA ShowsPut ==
  ASSUME NEW slot \in DOMAIN Firsts, NEW old, NEW P, OneOf(old, P),
         Shows(old, P, Firsts[slot], Thens[slot]),
         \A x \in P : x.type = Firsts[slot] \/ x.type = Thens[slot],
         NEW rec, rec.type = Firsts[slot] \/ rec.type = Thens[slot],
         rec.type = Firsts[slot] => \A x \in P : x.type = Firsts[slot],
         NEW new, Put(old, rec, new)
  PROVE  Shows(new, P \cup {rec}, Firsts[slot], Thens[slot])
<1> DEFINE first == Firsts[slot]
           then == Thens[slot]
<1>1. first # then /\ first # "none" /\ then # "none"
  BY TwoTypes
<1>2. old.type = first => \A f : Keeps(old, f) <=> old.tr = 3
  BY FirstKept
<1>3. \A f : ~Keeps(None, f)
  BY NoneKept
<1>4. old = None \/ old.type = first \/ old.type = then
  BY DEF OneOf
<1>5. new = old \/ new = rec
  BY DEF Put
<1>6. /\ Shows(old, P, first, then)
      /\ rec.type = first \/ rec.type = then
      /\ rec.type = first => \A x \in P : x.type = first
  OBVIOUS
<1> HIDE DEF first, then
<1>7. CASE old = None
  <2>1. new = rec
    BY <1>3, <1>7 DEF Put
  <2>2. P = {}
    BY <1>7 DEF OneOf
  <2> QED
    BY <1>1, <1>6, <2>1, <2>2 DEF Shows, first, then
<1>8. CASE old.type = first /\ old.tr = 3
  <2>1. new = old
    BY <1>2, <1>8 DEF Put
  <2> QED
    BY <1>1, <1>6, <1>8, <2>1 DEF Shows, first, then
<1>9. CASE old.type = first /\ old.tr # 3
  <2>1. new = rec
    BY <1>2, <1>9 DEF Put
  <2> QED
    BY <1>1, <1>6, <1>9, <2>1 DEF Shows, first, then
<1>10. CASE old # None /\ old.type = then
  <2>1. rec.type = then
    BY <1>1, <1>6, <1>10 DEF OneOf
  <2>2. new.type = then
    BY <1>5, <1>10, <2>1
  <2> QED
    BY <1>1, <1>6, <1>10, <2>1, <2>2 DEF Shows, first, then
<1> QED
  BY <1>4, <1>7, <1>8, <1>9, <1>10

\* The records that fit an entry.
Fitting(recs, d, slot) ==
  {x \in Record : Fit(x, d, slot) /\ \E j \in DOMAIN recs : recs[j] = x}

LEMMA CellIs ==
  ASSUME NEW recs \in Seq(Record), NEW d \in Dates(recs), NEW slot \in Slots
  PROVE  LET v == PlacedSets(recs)[d][slot]
             P == Fitting(recs, d, slot)
         IN  /\ OneOf(v, P)
             /\ slot \in DOMAIN Firsts => Shows(v, P, Firsts[slot], Thens[slot])
<1> DEFINE seq == ByKey(recs)
           n == Len(seq)
           D == Dates(recs)
           Past(i) == {x \in Record : Fit(x, d, slot) /\ \E j \in 1..i : seq[j] = x}
<1>1. PICK c \in [0..n -> Placing(D)] :
         /\ c[0] = [flags |-> NoFlags, sets |-> EmptySets(recs)]
         /\ AllPlaced(recs) = c[n]
         /\ \A i \in 1..n : c[i] = Place(c[i - 1], seq[i])
  BY PlaceChain
<1>2. /\ n \in Nat /\ DOMAIN seq = 1..n
      /\ \A i \in 1..n : seq[i] \in Record /\ seq[i].date \in D
  BY KeyedDates
<1>3. /\ \A i \in DOMAIN seq : \E j \in DOMAIN recs : seq[i] = recs[j]
      /\ \A j \in DOMAIN recs : recs[j].type \in DOMAIN SlotOf =>
            \E i \in DOMAIN seq : seq[i] = recs[j]
  <2>1. KeyedTo(recs, seq, 25)
    BY ByKeyIs
  <2> HIDE DEF seq
  <2> QED
    BY <2>1, KeysAll DEF KeyedTo
<1>4. slot \in DOMAIN Firsts => After(seq, Firsts[slot], Thens[slot])
  BY FirstsBefore
<1>5. PlacedSets(recs) = c[n].sets
  BY <1>1 DEF PlacedSets, AllPlaced
<1>6. c[0].sets[d][slot] = None
  BY <1>1, EmptyPlacing
<1> HIDE DEF seq, n
<1>7. d \in D
  OBVIOUS
<1> HIDE DEF D
<1> DEFINE Good(i) ==
             LET v == c[i].sets[d][slot]
             IN  /\ OneOf(v, Past(i))
                 /\ slot \in DOMAIN Firsts => Shows(v, Past(i), Firsts[slot], Thens[slot])
           G == {i \in 0..n : Good(i)}
<1>8. 0 \in G
  <2>1. 0 \in 0..n /\ Past(0) = {}
    BY <1>2
  <2>2. slot \in DOMAIN Firsts => Firsts[slot] # "none" /\ Thens[slot] # "none"
    BY TwoTypes
  <2>3. None.type = "none"
    BY DEF None
  <2> HIDE DEF Past
  <2> QED
    BY <1>6, <2>1, <2>2, <2>3 DEF OneOf, Shows
<1>9. ASSUME NEW i \in 1..n, i - 1 \in G PROVE i \in G
  <2> DEFINE x == seq[i]
             old == c[i - 1].sets[d][slot]
             new == c[i].sets[d][slot]
  <2>1. /\ i \in 0..n /\ c[i - 1] \in Placing(D) /\ x \in Record /\ x.date \in D
        /\ c[i] = Place(c[i - 1], x)
    BY <1>1, <1>2
  <2>2. Good(i - 1)
    <3> HIDE DEF Good
    <3> QED
      BY <1>9
  <2>3. \A j : j \in 1..i <=> j \in 1..(i - 1) \/ j = i
    BY <1>2
  <2>4. /\ Fit(x, d, slot) => Put(old, x, new)
        /\ ~Fit(x, d, slot) => new = old
    <3> HIDE DEF x
    <3> QED
      BY <1>7, <2>1, PlaceIs
  <2>5. CASE ~Fit(x, d, slot)
    <3>1. Past(i) = Past(i - 1)
      BY <2>3, <2>5
    <3>2. new = old
      BY <2>4, <2>5
    <3>3. Good(i)
      <4> HIDE DEF Past, x
      <4> QED
        BY <2>2, <3>1, <3>2
    <3> HIDE DEF Good
    <3> QED
      BY <2>1, <3>3
  <2>6. CASE Fit(x, d, slot)
    <3> DEFINE P == Past(i - 1)
    <3>1. Past(i) = P \cup {x}
      BY <2>1, <2>3, <2>6
    <3>2. Put(old, x, new) /\ x.type \in DOMAIN SlotOf
      BY <2>4, <2>6 DEF Fit
    <3>3. OneOf(old, P)
      BY <2>2
    <3>4. OneOf(new, P \cup {x})
      <4> HIDE DEF old, new, P, x
      <4> QED
        BY <3>2, <3>3, OneOfPut
    <3>5. ASSUME slot \in DOMAIN Firsts
          PROVE  Shows(new, P \cup {x}, Firsts[slot], Thens[slot])
      <4>1. Shows(old, P, Firsts[slot], Thens[slot])
        BY <2>2, <3>5
      <4>2. \A y : Fit(y, d, slot) => y.type = Firsts[slot] \/ y.type = Thens[slot]
        BY <3>5, TwoTypes DEF Fit
      <4>3. \A y \in P : y.type = Firsts[slot] \/ y.type = Thens[slot]
        BY <4>2
      <4>4. x.type = Firsts[slot] => \A y \in P : y.type = Firsts[slot]
        <5> SUFFICES ASSUME x.type = Firsts[slot], NEW y \in P, y.type = Thens[slot]
                     PROVE  FALSE
          BY <4>3
        <5>1. PICK j \in 1..(i - 1) : seq[j] = y
          OBVIOUS
        <5>2. i \in DOMAIN seq /\ j \in DOMAIN seq /\ j < i
          BY <1>2
        <5>3. i < j
          BY <1>4, <3>5, <5>1, <5>2 DEF After
        <5> QED
          BY <1>2, <5>2, <5>3
      <4>5. x.type = Firsts[slot] \/ x.type = Thens[slot]
        BY <2>6, <4>2
      <4> HIDE DEF old, new, P, x
      <4> QED
        BY <3>2, <3>3, <3>5, <4>1, <4>3, <4>4, <4>5, ShowsPut
    <3>6. Good(i)
      <4> HIDE DEF Past, x, P
      <4> QED
        BY <3>1, <3>4, <3>5
    <3> HIDE DEF Good
    <3> QED
      BY <2>1, <3>6
  <2> QED
    BY <2>5, <2>6
<1>10. Good(n)
  <2> HIDE DEF Good
  <2>1. 0..n \subseteq G
    <3> HIDE DEF G
    <3> QED
      BY <1>2, <1>8, <1>9, StepsInduction
  <2>2. n \in 0..n
    BY <1>2
  <2> QED
    BY <2>1, <2>2
<1>11. Past(n) = Fitting(recs, d, slot)
  <2>1. ASSUME NEW x \in Record, Fit(x, d, slot)
        PROVE  (\E j \in 1..n : seq[j] = x) <=> \E j \in DOMAIN recs : recs[j] = x
    BY <1>2, <1>3, <2>1 DEF Fit
  <2> QED
    BY <2>1 DEF Fitting
<1> HIDE DEF Past
<1> QED
  BY <1>5, <1>10, <1>11

-----------------------------------------------------------------------------
(***************************************************************************)
(* The finished sets.                                                      *)
(***************************************************************************)
RecordSet == [Slots -> Record \cup {None}]

LEMMA PlacedType ==
  ASSUME NEW recs \in Seq(Record), NEW d \in Dates(recs)
  PROVE  PlacedSets(recs)[d] \in RecordSet
<1> DEFINE n == Len(ByKey(recs))
<1>1. PICK c \in [0..n -> Placing(Dates(recs))] : AllPlaced(recs) = c[n]
  BY PlaceChain
<1>2. n \in 0..n
  BY KeyedDates
<1>3. AllPlaced(recs) \in Placing(Dates(recs))
  BY <1>1, <1>2
<1>4. PlacedSets(recs) = AllPlaced(recs).sets
  BY DEF PlacedSets, AllPlaced
<1> QED
  BY <1>3, <1>4 DEF Placing, RecordSet

\* The two parts become components, with the data they had, or nothing changes.
Polar(set, new, x, y, from, to) ==
  \/ /\ ~(set[x].type = from[1] /\ set[y].type = from[2])
     /\ new = set
  \/ /\ set[x].type = from[1] /\ set[y].type = from[2]
     /\ new[x].type = to[1] /\ new[y].type = to[2]
     /\ new[x].of = set[x].of /\ new[y].of = set[y].of
     /\ \A s \in Slots : s # x /\ s # y => new[s] = set[s]

LEMMA PolarIs ==
  ASSUME NEW set \in RecordSet, NEW x \in Slots, NEW y \in Slots, x # y,
         NEW from, from[1] # "none", from[2] # "none",
         NEW to, to[1] \in Stored, to[2] \in Stored
  PROVE  /\ Polar2UV(set, x, y, from, to) \in RecordSet
         /\ Polar(set, Polar2UV(set, x, y, from, to), x, y, from, to)
<1> DEFINE new == Polar2UV(set, x, y, from, to)
<1>1. CASE ~(set[x].type = from[1] /\ set[y].type = from[2])
  BY <1>1 DEF Polar2UV, Polar
<1>2. CASE set[x].type = from[1] /\ set[y].type = from[2]
  <2> DEFINE u == [set[x] EXCEPT !.type = to[1]]
             v == [set[y] EXCEPT !.type = to[2]]
  <2>1. set[x] \in Record /\ set[y] \in Record
    BY <1>2 DEF RecordSet, None
  <2>2. /\ u \in Record /\ u.type = to[1] /\ u.of = set[x].of
        /\ v \in Record /\ v.type = to[2] /\ v.of = set[y].of
    BY <2>1 DEF Record
  <2>3. new = [set EXCEPT ![x] = u, ![y] = v]
    BY <1>2 DEF Polar2UV, RecordSet
  <2> HIDE DEF new, u, v
  <2>4. /\ new \in RecordSet /\ new[x] = u /\ new[y] = v
        /\ \A s \in Slots : s # x /\ s # y => new[s] = set[s]
    BY <2>2, <2>3 DEF RecordSet
  <2> QED
    BY <1>2, <2>2, <2>4 DEF Polar, new
<1> QED
  BY <1>1, <1>2

LEMMA VectorSlots ==
  /\ DOMAIN Firsts = {"Wx", "Wy", "Cx", "Cy"} /\ DOMAIN Firsts \subseteq Slots
  /\ "Wx" \in Slots /\ "Wy" \in Slots /\ "Cx" \in Slots /\ "Cy" \in Slots
  /\ "WIND_VX" \in Stored /\ "WIND_VY" \in Stored /\ "UOGRD" \in Stored
  /\ "VOGRD" \in Stored
<1>1. DOMAIN Firsts = {"Wx", "Wy", "Cx", "Cy"} /\ DOMAIN Firsts \subseteq Slots
  BY TwoTypes DEF Firsts
<1> QED
  BY <1>1 DEF Stored, SlotOf

\* Finishing a set changes winds and currents only: a pair of direction and speed
\* becomes components, and what is no current in range is taken out.
LEMMA FinishIs ==
  ASSUME NEW set \in RecordSet
  PROVE  /\ \A s \in Slots \ DOMAIN Firsts : Finish(set)[s] = set[s]
         /\ \A s \in Slots \ {"Cx", "Cy"} : Finish(set)[s].of = set[s].of
         /\ <<set["Wx"].type, set["Wy"].type>> \in
               {<<"none", "none">>, <<"WIND_DIR", "WIND_SPEED">>, <<"WIND_VX", "WIND_VY">>} =>
            <<Finish(set)["Wx"].type, Finish(set)["Wy"].type>> \in
               {<<"none", "none">>, <<"WIND_VX", "WIND_VY">>}
         /\ <<set["Cx"].type, set["Cy"].type>> \in
               {<<"none", "none">>, <<"CUR_DIR", "CUR_SPEED">>, <<"UOGRD", "VOGRD">>} =>
            <<Finish(set)["Cx"].type, Finish(set)["Cy"].type>> \in
               {<<"none", "none">>, <<"UOGRD", "VOGRD">>}
<1> DEFINE a == Polar2UV(set, "Wx", "Wy", <<"WIND_DIR", "WIND_SPEED">>, <<"WIND_VX",
      "WIND_VY">>)
           b == Polar2UV(a, "Cx", "Cy", <<"CUR_DIR", "CUR_SPEED">>, <<"UOGRD", "VOGRD">>)
           c == RejectCurrent(b)
<1>1. Finish(set) = c
  BY DEF Finish
<1>2. /\ a \in RecordSet
      /\ Polar(set, a, "Wx", "Wy", <<"WIND_DIR", "WIND_SPEED">>, <<"WIND_VX", "WIND_VY">>)
  BY VectorSlots, PolarIs
<1> HIDE DEF a
<1>3. /\ b \in RecordSet
      /\ Polar(a, b, "Cx", "Cy", <<"CUR_DIR", "CUR_SPEED">>, <<"UOGRD", "VOGRD">>)
  BY <1>2, VectorSlots, PolarIs
<1> HIDE DEF b
<1>4. /\ \A s \in Slots : s # "Cx" /\ s # "Cy" => c[s] = b[s]
      /\ c = b \/ (c["Cx"] = None /\ c["Cy"] = None)
  BY <1>3, VectorSlots DEF RejectCurrent, RecordSet
<1> HIDE DEF c
<1>5. \A s \in Slots : s # "Wx" /\ s # "Wy" => a[s] = set[s]
  BY <1>2 DEF Polar
<1>6. \A s \in Slots : s # "Cx" /\ s # "Cy" => b[s] = a[s]
  BY <1>3 DEF Polar
<1>7. \A s \in Slots \ DOMAIN Firsts : c[s] = set[s]
  BY <1>4, <1>5, <1>6, VectorSlots
<1>8. \A s \in Slots \ {"Cx", "Cy"} : c[s].of = set[s].of
  <2>1. \A s \in Slots : a[s].of = set[s].of
    BY <1>2, <1>5 DEF Polar
  <2> QED
    BY <1>4, <1>6, <2>1
<1>9. ASSUME <<set["Wx"].type, set["Wy"].type>> \in
               {<<"none", "none">>, <<"WIND_DIR", "WIND_SPEED">>, <<"WIND_VX", "WIND_VY">>}
      PROVE  <<c["Wx"].type, c["Wy"].type>> \in {<<"none", "none">>, <<"WIND_VX", "WIND_VY">>}
  <2>1. c["Wx"] = a["Wx"] /\ c["Wy"] = a["Wy"]
    BY <1>4, <1>6, VectorSlots
  <2> QED
    BY <1>2, <1>9, <2>1 DEF Polar
<1>10. ASSUME <<set["Cx"].type, set["Cy"].type>> \in
                {<<"none", "none">>, <<"CUR_DIR", "CUR_SPEED">>, <<"UOGRD", "VOGRD">>}
       PROVE  <<c["Cx"].type, c["Cy"].type>> \in {<<"none", "none">>, <<"UOGRD", "VOGRD">>}
  <2>1. a["Cx"] = set["Cx"] /\ a["Cy"] = set["Cy"]
    BY <1>5, VectorSlots
  <2>2. <<b["Cx"].type, b["Cy"].type>> \in {<<"none", "none">>, <<"UOGRD", "VOGRD">>}
    BY <1>3, <1>10, <2>1 DEF Polar
  <2>3. None.type = "none"
    BY DEF None
  <2> QED
    BY <1>4, <2>2, <2>3
<1> QED
  BY <1>1, <1>7, <1>8, <1>9, <1>10

-----------------------------------------------------------------------------
(***************************************************************************)
(* What a load shows of the messages it keeps.                             *)
(***************************************************************************)
\* Records with data for their date, of a message that is kept or derived.
Sources(kept) ==
  {x \in Record : /\ x.of = x.date
                  /\ \/ x.type \in DerivedTypes
                     \/ \E m \in kept : m.type = x.type /\ m.date = x.date /\ m.tr = x.tr}

LEMMA ReadFrom ==
  ASSUME NEW files \in Seq(Seq(Message)), NEW newestFile \in BOOLEAN,
         ReadFiles(files, newestFile).ok
  PROVE  LET recs == ReadFiles(files, newestFile).reader.recs
             kept == Kept(FilesRead(files, newestFile))
         IN  /\ AllIn(recs, Sources(kept))
             /\ \A m \in kept : \E j \in DOMAIN recs : recs[j] = RecordOf(m)
<1> DEFINE kept == Kept(FilesRead(files, newestFile))
           Q == Sources(kept)
<1>1. kept \subseteq Message
  BY KeptIs
<1>2. \A m \in kept : RecordOf(m) \in Q
  <2>1. \A m \in Message : /\ RecordOf(m).type = m.type /\ RecordOf(m).date = m.date
                           /\ RecordOf(m).tr = m.tr /\ RecordOf(m).of = m.date
    BY DEF RecordOf
  <2>2. \A m \in Message : RecordOf(m) \in Record
    BY RecordOfType
  <2> HIDE DEF kept
  <2> QED
    BY <1>1, <2>1, <2>2 DEF Sources
<1>3. \A type \in DerivedTypes : Derived(Q, type)
  <2> HIDE DEF kept
  <2>1. ASSUME NEW type \in DerivedTypes, NEW x \in Q
        PROVE  [x EXCEPT !.type = type] \in Q
    <3> DEFINE y == [x EXCEPT !.type = type]
    <3>1. x \in Record /\ x.of = x.date /\ type \in Stored
      BY <2>1, DerivedStored DEF Sources
    <3>2. y \in Record /\ y.type = type /\ y.of = x.of /\ y.date = x.date
      BY <3>1 DEF Record
    <3> HIDE DEF y
    <3>3. y \in Q
      BY <2>1, <3>1, <3>2 DEF Sources
    <3> QED
      BY <3>3 DEF y
  <2> QED
    BY <2>1 DEF Derived
<1>4. Derived(Q, "GUST") /\ Derived(Q, "DEWPOINT")
  BY <1>3 DEF DerivedTypes
<1> HIDE DEF Q
<1> QED
  BY <1>2, <1>4, FilesAre DEF Q

\* What is shown of a date is the finished set of the records of the load.
LEMMA ShownIs ==
  ASSUME NEW files \in Seq(Seq(Message)), NEW CumRec \in BOOLEAN,
         NEW WaveRec \in BOOLEAN, NEW newestFile \in BOOLEAN,
         NEW d \in DOMAIN GRIBFile(files, CumRec, WaveRec, newestFile).sets
  PROVE  LET recs == Final(files, CumRec, WaveRec, newestFile).recs
             load == GRIBFile(files, CumRec, WaveRec, newestFile)
         IN  /\ ReadFiles(files, newestFile).ok
             /\ d \in Dates(recs) /\ recs \in Seq(Record)
             /\ PlacedSets(recs)[d] \in RecordSet
             /\ load.sets[d] = Finish(PlacedSets(recs)[d])
<1> DEFINE load == GRIBFile(files, CumRec, WaveRec, newestFile)
           recs == Final(files, CumRec, WaveRec, newestFile).recs
<1>1. /\ load.ok = ReadFiles(files, newestFile).ok
      /\ load.sets = IF load.ok THEN RecordSets(recs) ELSE <<>>
      /\ load.ok => DOMAIN load.sets = Dates(recs)
      /\ d \in DOMAIN load.sets
  BY LoadIs
<1>2. recs \in Seq(Record)
  BY FinalIs
<1> HIDE DEF load, recs
<1>3. load.ok
  BY <1>1
<1>4. d \in Dates(recs) /\ load.sets[d] = Finish(PlacedSets(recs)[d])
  BY <1>1, <1>3 DEF RecordSets
<1>5. PlacedSets(recs)[d] \in RecordSet
  BY <1>2, <1>4, PlacedType
<1> QED
  BY <1>1, <1>2, <1>3, <1>4, <1>5 DEF load, recs

LEMMA PrecipTypes ==
  /\ "Precip" \in Slots \ DOMAIN Firsts
  /\ \A type \in DOMAIN SlotOf : SlotOf[type] = "Precip" => type \in Rains
<1>1. \A type \in DOMAIN SlotOf : SlotOf[type] = "Precip" => type \in Rains
  BY DEF SlotOf, Rains
<1>2. "PRECIP_TOT" \in DOMAIN SlotOf /\ SlotOf["PRECIP_TOT"] = "Precip"
  BY DEF SlotOf
<1>3. "Precip" \in Slots
  BY <1>2, SlotsAre
<1> QED
  BY <1>1, <1>3, VectorSlots

LEMMA MeanCopied ==
  ASSUME NEW x \in Record, Mean(x), NEW d
  PROVE  Mean([x EXCEPT !.date = d])
BY DEF Mean, Record

\* Every precipitation shown is a mean over a period that ends at the date it was
\* forecast for, whatever files of one run were read and whatever was copied.
THEOREM LoadsRatesAreMeans ==
  ASSUME NEW files \in Seq(Seq(Message)), NEW CumRec \in BOOLEAN,
         NEW WaveRec \in BOOLEAN, NEW newestFile \in BOOLEAN
  PROVE  RatesAreMeans(FilesRead(files, newestFile),
                       GRIBFile(files, CumRec, WaveRec, newestFile))
<1> DEFINE load == GRIBFile(files, CumRec, WaveRec, newestFile)
           read == ReadFiles(files, newestFile).reader
           rated == AllRates(read)
           recs == Final(files, CumRec, WaveRec, newestFile).recs
<1> SUFFICES ASSUME OneRun(FilesRead(files, newestFile)), NEW d \in DOMAIN load.sets
             PROVE  load.sets[d]["Precip"] # None => Mean(load.sets[d]["Precip"])
  BY DEF RatesAreMeans, Mean
<1>1. /\ d \in Dates(recs) /\ recs \in Seq(Record) /\ PlacedSets(recs)[d] \in RecordSet
      /\ load.sets[d] = Finish(PlacedSets(recs)[d])
  BY ShownIs
<1>2. /\ read \in Reader /\ rated \in Reader /\ rated.recs \in Seq(Record)
      /\ Filled(rated.recs, recs)
  BY FinalIs
<1>3. PICK K \in Int : Steady(read.recs, "PRECIP_TOT", K) /\ Steady(read.recs, "PRECIP_RATE", K)
  BY OneRunSteady
<1> HIDE DEF load, read, recs
<1>4. \A j \in DOMAIN rated.recs : rated.recs[j].type \in Rains => Mean(rated.recs[j])
  BY <1>2, <1>3, AllRatesIs
<1> HIDE DEF rated
<1> DEFINE v == PlacedSets(recs)[d]["Precip"]
<1>5. load.sets[d]["Precip"] = v
  BY <1>1, PrecipTypes, FinishIs
<1>6. OneOf(v, Fitting(recs, d, "Precip"))
  BY <1>1, PrecipTypes, CellIs
<1> HIDE DEF v
<1>7. ASSUME v # None PROVE Mean(v)
  <2>1. v \in Fitting(recs, d, "Precip")
    BY <1>6, <1>7 DEF OneOf
  <2>2. PICK j \in DOMAIN recs : recs[j] = v
    BY <2>1 DEF Fitting
  <2>3. v.type \in Rains
    BY <2>1, PrecipTypes DEF Fitting, Fit
  <2>4. CASE j \in DOMAIN rated.recs
    <3>1. rated.recs[j] = v
      BY <1>2, <2>2, <2>4 DEF Filled, Grown
    <3> QED
      BY <1>4, <2>3, <2>4, <3>1
  <2>5. CASE j \notin DOMAIN rated.recs
    <3>1. PICK i \in DOMAIN rated.recs : v = [rated.recs[i] EXCEPT !.date = v.date]
      BY <1>2, <2>2, <2>5 DEF Filled, CopyOf
    <3> DEFINE x == rated.recs[i]
    <3>2. x \in Record
      BY <1>2
    <3>3. x.type = v.type
      <4>1. \A y \in Record : \A e : [y EXCEPT !.date = e].type = y.type
        BY DEF Record
      <4> HIDE DEF x
      <4> QED
        BY <3>1, <3>2, <4>1 DEF x
    <3>4. Mean(x)
      BY <1>4, <2>3, <3>3
    <3> HIDE DEF x
    <3>5. Mean([x EXCEPT !.date = v.date])
      BY <3>2, <3>4, MeanCopied
    <3> QED
      BY <3>1, <3>5 DEF x
  <2> QED
    BY <2>4, <2>5
<1> QED
  BY <1>5, <1>7 DEF load

\* The record of a message in the records of the load, and where others are from.
LEMMA FromMessages ==
  ASSUME NEW files \in Seq(Seq(Message)), NEW CumRec \in BOOLEAN,
         NEW WaveRec \in BOOLEAN, NEW newestFile \in BOOLEAN,
         ReadFiles(files, newestFile).ok
  PROVE  LET recs == Final(files, CumRec, WaveRec, newestFile).recs
             rated == AllRates(ReadFiles(files, newestFile).reader).recs
             kept == Kept(FilesRead(files, newestFile))
         IN  /\ \A j \in DOMAIN recs : recs[j] \in Sources(kept) \/ CopyOf(rated, recs[j])
             /\ \A m \in kept :
                   /\ Holds(rated, m.type, m.date)
                   /\ \E j \in DOMAIN recs : Alike(RecordOf(m), recs[j])
<1> DEFINE recs == Final(files, CumRec, WaveRec, newestFile).recs
           read == ReadFiles(files, newestFile).reader.recs
           rated == AllRates(ReadFiles(files, newestFile).reader).recs
           kept == Kept(FilesRead(files, newestFile))
<1>1. /\ read \in Seq(Record) /\ rated \in Seq(Record) /\ recs \in Seq(Record)
      /\ Rated(read, rated) /\ Filled(rated, recs)
  BY FinalIs
<1>2. /\ AllIn(read, Sources(kept))
      /\ \A m \in kept : \E j \in DOMAIN read : read[j] = RecordOf(m)
  BY ReadFrom
<1> HIDE DEF recs, read, rated, kept
<1>3. \A j \in DOMAIN read : /\ j \in DOMAIN rated /\ j \in DOMAIN recs
                             /\ rated[j] = recs[j] /\ Alike(read[j], recs[j])
  BY <1>1, HeldFinally
<1>4. ASSUME NEW j \in DOMAIN recs PROVE recs[j] \in Sources(kept) \/ CopyOf(rated, recs[j])
  <2>1. CASE j \in DOMAIN rated
    <3>1. j \in DOMAIN read
      BY <1>1, <2>1 DEF Rated
    <3>2. read[j] \in Sources(kept) /\ Alike(read[j], recs[j]) /\ recs[j] \in Record
      BY <1>1, <1>2, <1>3, <3>1 DEF AllIn
    <3> QED
      BY <3>2 DEF Sources, Alike
  <2>2. CASE j \notin DOMAIN rated
    BY <1>1, <2>2 DEF Filled
  <2> QED
    BY <2>1, <2>2
<1>5. ASSUME NEW m \in kept
      PROVE  /\ Holds(rated, m.type, m.date)
             /\ \E j \in DOMAIN recs : Alike(RecordOf(m), recs[j])
  <2>1. PICK j \in DOMAIN read : read[j] = RecordOf(m)
    BY <1>2
  <2>2. /\ j \in DOMAIN rated /\ j \in DOMAIN recs /\ rated[j] = recs[j]
        /\ Alike(RecordOf(m), recs[j])
    BY <1>3, <2>1
  <2>3. rated[j].type = m.type /\ rated[j].date = m.date
    BY <2>2 DEF Alike, RecordOf
  <2> QED
    BY <2>2, <2>3 DEF Holds
<1> QED
  BY <1>4, <1>5 DEF recs, rated, kept

\* The entry and the types of the other part of a vector.
Mates == [Wx |-> "Wy", Wy |-> "Wx", Cx |-> "Cy", Cy |-> "Cx"]

\* Each of these records has its other part among those, forecast the same way.
Matched(P, R, slot, mate) ==
  \A x \in P : \E y \in R :
     /\ x.tr = y.tr
     /\ \/ x.type = Firsts[slot] /\ y.type = Firsts[mate]
        \/ x.type = Thens[slot] /\ y.type = Thens[mate]

LEMMA PairShown ==
  ASSUME NEW slot \in DOMAIN Firsts, NEW mate \in DOMAIN Firsts,
         NEW P, NEW R, Matched(P, R, slot, mate), Matched(R, P, mate, slot),
         NEW u, OneOf(u, P), Shows(u, P, Firsts[slot], Thens[slot]),
         NEW v, OneOf(v, R), Shows(v, R, Firsts[mate], Thens[mate])
  PROVE  <<u.type, v.type>> \in {<<"none", "none">>, <<Firsts[slot], Firsts[mate]>>,
                                 <<Thens[slot], Thens[mate]>>}
<1> DEFINE a == Firsts[slot]
           b == Thens[slot]
           c == Firsts[mate]
           d == Thens[mate]
<1>1. a # b /\ c # d
  BY TwoTypes
<1>2. /\ \A x \in P : x.type = a \/ x.type = b
      /\ \A y \in R : y.type = c \/ y.type = d
  BY DEF Matched
<1>3. /\ (\E x \in P : x.type = b) <=> (\E y \in R : y.type = d)
      /\ (\A x \in P : x.type = a => x.tr # 3) <=> (\A y \in R : y.type = c => y.tr # 3)
      /\ P = {} <=> R = {}
  BY <1>1 DEF Matched
<1>4. Shows(u, P, a, b) /\ Shows(v, R, c, d)
  OBVIOUS
<1> HIDE DEF a, b, c, d
<1>5. u.type = b <=> v.type = d
  BY <1>3, <1>4 DEF Shows
<1>6. CASE P = {}
  BY <1>3, <1>6 DEF OneOf, None
<1>7. CASE P # {}
  <2>1. (u.type = a \/ u.type = b) /\ (v.type = c \/ v.type = d)
    BY <1>2, <1>3, <1>7 DEF OneOf
  <2> QED
    BY <1>5, <2>1 DEF a, b, c, d
<1> QED
  BY <1>6, <1>7

LEMMA PairTypes ==
  ASSUME NEW slot \in DOMAIN Firsts
  PROVE  LET mate == Mates[slot]
         IN  /\ mate \in DOMAIN Firsts /\ Mates[mate] = slot
             /\ \E p \in Pairs : \E i \in 1..2 : p[i] = Firsts[slot] /\ p[3 - i] = Firsts[mate]
             /\ \E p \in Pairs : \E i \in 1..2 : p[i] = Thens[slot] /\ p[3 - i] = Thens[mate]
             /\ Firsts[slot] \notin DerivedTypes \cup Copied
             /\ Thens[slot] \notin DerivedTypes \cup Copied
<1>1. slot \in {"Wx", "Wy", "Cx", "Cy"}
  BY VectorSlots
<1>2. Mates[slot] \in DOMAIN Firsts /\ Mates[Mates[slot]] = slot
  BY <1>1 DEF Mates, Firsts
<1>3. \E p \in Pairs : \E i \in 1..2 : p[i] = Firsts[slot] /\ p[3 - i] = Firsts[Mates[slot]]
  BY <1>1 DEF Pairs, Mates, Firsts
<1>4. \E p \in Pairs : \E i \in 1..2 : p[i] = Thens[slot] /\ p[3 - i] = Thens[Mates[slot]]
  BY <1>1 DEF Pairs, Mates, Thens
<1>5. /\ Firsts[slot] \notin DerivedTypes \cup Copied
      /\ Thens[slot] \notin DerivedTypes \cup Copied
  BY <1>1 DEF Firsts, Thens, DerivedTypes, Copied
<1> QED
  BY <1>2, <1>3, <1>4, <1>5

LEMMA FittingMatched ==
  ASSUME NEW files \in Seq(Seq(Message)), NEW CumRec \in BOOLEAN,
         NEW WaveRec \in BOOLEAN, NEW newestFile \in BOOLEAN,
         ReadFiles(files, newestFile).ok,
         WholePairs(FilesRead(files, newestFile)),
         NEW d, NEW slot \in DOMAIN Firsts
  PROVE  LET recs == Final(files, CumRec, WaveRec, newestFile).recs
         IN  Matched(Fitting(recs, d, slot), Fitting(recs, d, Mates[slot]), slot, Mates[slot])
<1> DEFINE recs == Final(files, CumRec, WaveRec, newestFile).recs
           rated == AllRates(ReadFiles(files, newestFile).reader).recs
           read == FilesRead(files, newestFile)
           kept == Kept(read)
           mate == Mates[slot]
<1>1. /\ \A j \in DOMAIN recs : recs[j] \in Sources(kept) \/ CopyOf(rated, recs[j])
      /\ \A m \in kept : \E j \in DOMAIN recs : Alike(RecordOf(m), recs[j])
  BY FromMessages
<1>2. /\ \A p \in Pairs, m \in kept, i \in 1..2 : m.type = p[i] =>
            \E n \in kept : n.type = p[3 - i] /\ n.date = m.date /\ n.tr = m.tr
      /\ recs \in Seq(Record)
  BY FinalIs DEF WholePairs
<1> HIDE DEF recs, rated, kept, read
<1>3. /\ mate \in DOMAIN Firsts
      /\ \E p \in Pairs : \E i \in 1..2 : p[i] = Firsts[slot] /\ p[3 - i] = Firsts[mate]
      /\ \E p \in Pairs : \E i \in 1..2 : p[i] = Thens[slot] /\ p[3 - i] = Thens[mate]
      /\ Firsts[slot] \notin DerivedTypes \cup Copied
      /\ Thens[slot] \notin DerivedTypes \cup Copied
  BY PairTypes
<1> HIDE DEF mate
<1>4. /\ Firsts[mate] \in DOMAIN SlotOf /\ Thens[mate] \in DOMAIN SlotOf
      /\ SlotOf[Firsts[mate]] = mate /\ SlotOf[Thens[mate]] = mate
  BY <1>3, TwoTypes
<1>5. ASSUME NEW a, NEW b, b \in DOMAIN SlotOf, SlotOf[b] = mate,
             \E p \in Pairs : \E i \in 1..2 : p[i] = a /\ p[3 - i] = b,
             a \notin DerivedTypes \cup Copied,
             NEW x \in Fitting(recs, d, slot), x.type = a
      PROVE  \E y \in Fitting(recs, d, mate) : x.tr = y.tr /\ y.type = b
  <2>1. PICK j \in DOMAIN recs : recs[j] = x
    BY DEF Fitting
  <2>2. x \in Sources(kept)
    BY <1>1, <1>5, <2>1 DEF CopyOf
  <2>3. PICK m \in kept : m.type = a /\ m.date = x.date /\ m.tr = x.tr
    BY <1>5, <2>2 DEF Sources
  <2>4. PICK p \in Pairs, i \in 1..2 : p[i] = a /\ p[3 - i] = b
    BY <1>5
  <2>5. PICK n \in kept : n.type = b /\ n.date = m.date /\ n.tr = m.tr
    BY <1>2, <2>3, <2>4
  <2>6. PICK k \in DOMAIN recs : Alike(RecordOf(n), recs[k])
    BY <1>1
  <2>7. /\ recs[k] \in Record /\ recs[k].type = b /\ recs[k].date = x.date
        /\ recs[k].tr = x.tr
    BY <1>2, <2>3, <2>5, <2>6 DEF Alike, RecordOf
  <2>8. x.date = d
    BY DEF Fitting, Fit
  <2>9. recs[k] \in Fitting(recs, d, mate)
    BY <1>5, <2>7, <2>8 DEF Fitting, Fit
  <2> QED
    BY <2>7, <2>9
<1>6. \A x \in Fitting(recs, d, slot) : x.type = Firsts[slot] \/ x.type = Thens[slot]
  BY TwoTypes DEF Fitting, Fit
<1>7. \A x \in Fitting(recs, d, slot) : x.type = Firsts[slot] =>
         \E y \in Fitting(recs, d, mate) : x.tr = y.tr /\ y.type = Firsts[mate]
  BY <1>3, <1>4, <1>5
<1>8. \A x \in Fitting(recs, d, slot) : x.type = Thens[slot] =>
         \E y \in Fitting(recs, d, mate) : x.tr = y.tr /\ y.type = Thens[mate]
  BY <1>3, <1>4, <1>5
<1>9. Matched(Fitting(recs, d, slot), Fitting(recs, d, mate), slot, mate)
  BY <1>6, <1>7, <1>8 DEF Matched
<1> QED
  BY <1>9 DEF recs, mate

\* A wind or current is drawn with both of its components or not at all, whatever
\* forms the files mix, if they have both parts of every vector.
THEOREM LoadsVectorsWhole ==
  ASSUME NEW files \in Seq(Seq(Message)), NEW CumRec \in BOOLEAN,
         NEW WaveRec \in BOOLEAN, NEW newestFile \in BOOLEAN
  PROVE  VectorsWhole(FilesRead(files, newestFile),
                      GRIBFile(files, CumRec, WaveRec, newestFile))
<1> DEFINE load == GRIBFile(files, CumRec, WaveRec, newestFile)
           recs == Final(files, CumRec, WaveRec, newestFile).recs
<1> SUFFICES ASSUME WholePairs(FilesRead(files, newestFile)), NEW d \in DOMAIN load.sets
             PROVE  /\ <<load.sets[d]["Wx"].type, load.sets[d]["Wy"].type>> \in
                          {<<"none", "none">>, <<"WIND_VX", "WIND_VY">>}
                    /\ <<load.sets[d]["Cx"].type, load.sets[d]["Cy"].type>> \in
                          {<<"none", "none">>, <<"UOGRD", "VOGRD">>}
  BY DEF VectorsWhole
<1>1. /\ ReadFiles(files, newestFile).ok
      /\ d \in Dates(recs) /\ recs \in Seq(Record) /\ PlacedSets(recs)[d] \in RecordSet
      /\ load.sets[d] = Finish(PlacedSets(recs)[d])
  BY ShownIs
<1>2. \A slot \in DOMAIN Firsts :
         Matched(Fitting(recs, d, slot), Fitting(recs, d, Mates[slot]), slot, Mates[slot])
  BY <1>1, FittingMatched
<1> DEFINE set == PlacedSets(recs)[d]
<1> HIDE DEF load, recs
<1>3. ASSUME NEW slot \in DOMAIN Firsts
      PROVE  /\ OneOf(set[slot], Fitting(recs, d, slot))
             /\ Shows(set[slot], Fitting(recs, d, slot), Firsts[slot], Thens[slot])
  BY <1>1, CellIs, VectorSlots
<1>4. set \in RecordSet /\ load.sets[d] = Finish(set)
  BY <1>1
<1> HIDE DEF set
<1>5. ASSUME NEW slot \in DOMAIN Firsts
      PROVE  <<set[slot].type, set[Mates[slot]].type>> \in
                {<<"none", "none">>, <<Firsts[slot], Firsts[Mates[slot]]>>,
                 <<Thens[slot], Thens[Mates[slot]]>>}
  <2> DEFINE mate == Mates[slot]
             P == Fitting(recs, d, slot)
             R == Fitting(recs, d, mate)
             u == set[slot]
             v == set[mate]
  <2>1. mate \in DOMAIN Firsts /\ Mates[mate] = slot
    BY PairTypes
  <2>2. Matched(P, R, slot, mate) /\ Matched(R, P, mate, slot)
    BY <1>2, <2>1
  <2>3. /\ OneOf(u, P) /\ Shows(u, P, Firsts[slot], Thens[slot])
        /\ OneOf(v, R) /\ Shows(v, R, Firsts[mate], Thens[mate])
    BY <1>3, <2>1
  <2> HIDE DEF mate, P, R, u, v
  <2>4. <<u.type, v.type>> \in {<<"none", "none">>, <<Firsts[slot], Firsts[mate]>>,
                                <<Thens[slot], Thens[mate]>>}
    BY <2>1, <2>2, <2>3, PairShown
  <2> QED
    BY <2>4 DEF mate, u, v
<1>6. <<set["Wx"].type, set["Wy"].type>> \in
         {<<"none", "none">>, <<"WIND_DIR", "WIND_SPEED">>, <<"WIND_VX", "WIND_VY">>}
  <2>1. /\ "Wx" \in DOMAIN Firsts /\ Mates["Wx"] = "Wy" /\ Firsts["Wx"] = "WIND_DIR"
        /\ Firsts["Wy"] = "WIND_SPEED" /\ Thens["Wx"] = "WIND_VX" /\ Thens["Wy"] = "WIND_VY"
    BY DEF Firsts, Thens, Mates
  <2>2. <<set["Wx"].type, set[Mates["Wx"]].type>> \in
                {<<"none", "none">>, <<Firsts["Wx"], Firsts[Mates["Wx"]]>>,
                 <<Thens["Wx"], Thens[Mates["Wx"]]>>}
    BY <1>5, <2>1
  <2> QED
    BY <2>1, <2>2
<1>7. <<set["Cx"].type, set["Cy"].type>> \in
         {<<"none", "none">>, <<"CUR_DIR", "CUR_SPEED">>, <<"UOGRD", "VOGRD">>}
  <2>1. /\ "Cx" \in DOMAIN Firsts /\ Mates["Cx"] = "Cy" /\ Firsts["Cx"] = "CUR_DIR"
        /\ Firsts["Cy"] = "CUR_SPEED" /\ Thens["Cx"] = "UOGRD" /\ Thens["Cy"] = "VOGRD"
    BY DEF Firsts, Thens, Mates
  <2>2. <<set["Cx"].type, set[Mates["Cx"]].type>> \in
                {<<"none", "none">>, <<Firsts["Cx"], Firsts[Mates["Cx"]]>>,
                 <<Thens["Cx"], Thens[Mates["Cx"]]>>}
    BY <1>5, <2>1
  <2> QED
    BY <2>1, <2>2
<1> QED
  BY <1>4, <1>6, <1>7, FinishIs

\* A copy only fills a gap: where the files read have a forecast for a date and an
\* entry, of one type throughout, what is shown is a forecast for that date.
THEOREM LoadsOwnForecast ==
  ASSUME NEW files \in Seq(Seq(Message)), NEW CumRec \in BOOLEAN,
         NEW WaveRec \in BOOLEAN, NEW newestFile \in BOOLEAN
  PROVE  OwnForecastShown(FilesRead(files, newestFile),
                          GRIBFile(files, CumRec, WaveRec, newestFile))
<1> DEFINE load == GRIBFile(files, CumRec, WaveRec, newestFile)
           recs == Final(files, CumRec, WaveRec, newestFile).recs
           rated == AllRates(ReadFiles(files, newestFile).reader).recs
           kept == Kept(FilesRead(files, newestFile))
<1> SUFFICES ASSUME NEW m \in kept, m.date \in DOMAIN load.sets, m.type \in DOMAIN SlotOf,
                    SlotOf[m.type] \notin {"Cx", "Cy"},
                    \A n \in kept : n.type \in DOMAIN SlotOf =>
                       (SlotOf[n.type] = SlotOf[m.type] => n.type = m.type)
             PROVE  load.sets[m.date][SlotOf[m.type]].of = m.date
  BY DEF OwnForecastShown
<1> DEFINE d == m.date
           slot == SlotOf[m.type]
           v == PlacedSets(recs)[d][slot]
<1>1. /\ ReadFiles(files, newestFile).ok
      /\ d \in Dates(recs) /\ recs \in Seq(Record) /\ PlacedSets(recs)[d] \in RecordSet
      /\ load.sets[d] = Finish(PlacedSets(recs)[d])
  BY ShownIs
<1>2. /\ \A j \in DOMAIN recs : recs[j] \in Sources(kept) \/ CopyOf(rated, recs[j])
      /\ Holds(rated, m.type, d)
      /\ \E j \in DOMAIN recs : Alike(RecordOf(m), recs[j])
  BY <1>1, FromMessages
<1>3. slot \in Slots \ {"Cx", "Cy"}
  BY SlotsAre
<1>4. rated \in Seq(Record) /\ \A i \in DOMAIN rated : rated[i].type \in {x.type :
            x \in Sources(kept)}
  <2> DEFINE read == ReadFiles(files, newestFile).reader.recs
  <2>1. rated \in Seq(Record) /\ Rated(read, rated)
    BY FinalIs
  <2>2. AllIn(read, Sources(kept))
    BY <1>1, ReadFrom
  <2> HIDE DEF read, rated, kept
  <2>3. \A i \in DOMAIN rated : i \in DOMAIN read /\ rated[i].type = read[i].type
    BY <2>1 DEF Rated, Alike
  <2> QED
    BY <2>1, <2>2, <2>3 DEF AllIn
<1> HIDE DEF load, recs, rated, kept
<1>5. OneOf(v, Fitting(recs, d, slot))
  BY <1>1, <1>3, CellIs
<1>6. load.sets[d][slot].of = v.of
  <2> DEFINE set == PlacedSets(recs)[d]
  <2>1. set \in RecordSet /\ load.sets[d] = Finish(set) /\ v = set[slot]
    BY <1>1
  <2> HIDE DEF set, v, slot
  <2> QED
    BY <1>3, <2>1, FinishIs
<1>7. Fitting(recs, d, slot) # {}
  <2>1. PICK j \in DOMAIN recs : Alike(RecordOf(m), recs[j])
    BY <1>2
  <2>2. recs[j].type = m.type /\ recs[j].date = d /\ recs[j] \in Record
    BY <1>1, <2>1 DEF Alike, RecordOf
  <2> QED
    BY <2>2 DEF Fitting, Fit
<1> HIDE DEF v
<1>8. v \in Fitting(recs, d, slot)
  BY <1>5, <1>7 DEF OneOf
<1>9. v.date = d /\ v.type \in DOMAIN SlotOf /\ SlotOf[v.type] = slot /\ v \in Record
  BY <1>8 DEF Fitting, Fit
<1>10. PICK j \in DOMAIN recs : recs[j] = v
  BY <1>8 DEF Fitting
<1>11. ~CopyOf(rated, v)
  <2> SUFFICES ASSUME CopyOf(rated, v) PROVE FALSE
    OBVIOUS
  <2>1. PICK i \in DOMAIN rated : v = [rated[i] EXCEPT !.date = v.date]
    BY DEF CopyOf
  <2>2. v.type = rated[i].type
    <3>1. rated[i] \in Record
      BY <1>4
    <3>2. \A y \in Record : \A e : [y EXCEPT !.date = e].type = y.type
      BY DEF Record
    <3> QED
      BY <2>1, <3>1, <3>2
  <2>3. PICK x \in Sources(kept) : v.type = x.type
    BY <1>4, <2>2
  <2>4. v.type \notin DerivedTypes
    BY DEF CopyOf, Copied, DerivedTypes
  <2>5. PICK n \in kept : n.type = v.type
    BY <2>3, <2>4 DEF Sources
  <2>6. v.type = m.type
    BY <1>9, <2>5
  <2> QED
    BY <1>2, <1>9, <2>6 DEF CopyOf
<1>12. v.of = v.date
  BY <1>2, <1>10, <1>11 DEF Sources
<1> QED
  BY <1>6, <1>9, <1>12 DEF load, kept
=============================================================================
