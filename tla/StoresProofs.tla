---------------------------- MODULE StoresProofs ----------------------------
(***************************************************************************)
(* Proofs about Stores: its type invariant, that a row looked up in memory *)
(* stays that payment's, and that both stores keep StoreContract.          *)
(***************************************************************************)
EXTENDS Stores, FiniteSetTheorems, SequenceTheorems, TLAPS

-----------------------------------------------------------------------------
(* Ranks: the n-th smallest and the n-th largest of a finite set.           *)

Below(S, i) == {j \in S : j < i}
Above(S, i) == {j \in S : j > i}

\* Fewer elements are below an element of a set than the set has.
LEMMA BelowLess ==
    ASSUME NEW S \in SUBSET Nat, IsFiniteSet(S), NEW i \in S
    PROVE  /\ IsFiniteSet(Below(S, i))
           /\ Cardinality(Below(S, i)) \in 0 .. Cardinality(S) - 1
           /\ Cardinality(S) \in Nat
           /\ Cardinality(Above(S, i)) = Cardinality(S) - 1 - Cardinality(Below(S, i))
  <1>1. IsFiniteSet(Below(S, i)) /\ IsFiniteSet(Above(S, i))
    <2>1. Below(S, i) \in SUBSET S /\ Above(S, i) \in SUBSET S
      BY DEF Below, Above
    <2> QED BY <2>1, FS_Subset
  <1>2. /\ Cardinality(Below(S, i)) \in Nat /\ Cardinality(Above(S, i)) \in Nat
        /\ Cardinality(S) \in Nat
    BY <1>1, FS_CardinalityType
  <1>3. IsFiniteSet(Below(S, i) \cup {i}) /\ Cardinality(Below(S, i) \cup {i}) = Cardinality(Below(S, i)) + 1
    <2>1. i \notin Below(S, i)
      BY DEF Below
    <2> QED BY <1>1, <2>1, FS_AddElement
  <1>4. S = (Below(S, i) \cup {i}) \cup Above(S, i) /\ (Below(S, i) \cup {i}) \cap Above(S, i) = {}
    <2>1. i \in Nat /\ \A j \in S : j \in Nat
      OBVIOUS
    <2>2. \A j \in S : j < i \/ j = i \/ j > i
      BY <2>1
    <2>3. \A j : j \in S <=> j \in (Below(S, i) \cup {i}) \cup Above(S, i)
      BY <2>2 DEF Below, Above
    <2>4. \A j : ~(j \in Below(S, i) \cup {i} /\ j \in Above(S, i))
      <3>1. \A j \in S : ~(j < i /\ j > i) /\ (j = i => ~(j > i))
        BY <2>1
      <3> QED BY <3>1 DEF Below, Above
    <2> QED BY <2>3, <2>4
  <1>5. Cardinality(S) = Cardinality(Below(S, i)) + 1 + Cardinality(Above(S, i))
    <2>1. Cardinality((Below(S, i) \cup {i}) \cup Above(S, i))
            = Cardinality(Below(S, i) \cup {i}) + Cardinality(Above(S, i))
              - Cardinality((Below(S, i) \cup {i}) \cap Above(S, i))
      BY <1>1, <1>3, FS_Union
    <2>2. Cardinality((Below(S, i) \cup {i}) \cap Above(S, i)) = 0
      BY <1>4, FS_EmptySet
    <2>3. Cardinality(S) = Cardinality((Below(S, i) \cup {i}) \cup Above(S, i))
      BY <1>4, Zenon
    <2> QED BY <1>2, <1>3, <2>1, <2>2, <2>3
  <1> QED BY <1>1, <1>2, <1>5

\* The greater of two elements has more elements below it.
LEMMA BelowGrows ==
    ASSUME NEW S \in SUBSET Nat, IsFiniteSet(S), NEW i \in S, NEW k \in S, i < k
    PROVE  Cardinality(Below(S, i)) < Cardinality(Below(S, k))
  <1>1. Below(S, i) \cup {i} \in SUBSET Below(S, k) /\ i \notin Below(S, i)
    <2>1. i \in Nat /\ k \in Nat /\ \A j \in S : j \in Nat
      OBVIOUS
    <2>2. \A j \in S : j < i => j < k
      BY <2>1
    <2>3. i \notin Below(S, i) /\ i \in Below(S, k)
      BY <2>1 DEF Below
    <2>4. \A j \in Below(S, i) : j \in Below(S, k)
      BY <2>2 DEF Below
    <2> QED BY <2>3, <2>4
  <1>2. IsFiniteSet(Below(S, i)) /\ IsFiniteSet(Below(S, k))
    BY BelowLess
  <1>3. Cardinality(Below(S, i) \cup {i}) = Cardinality(Below(S, i)) + 1
    BY <1>1, <1>2, FS_AddElement
  <1>4. Cardinality(Below(S, i) \cup {i}) <= Cardinality(Below(S, k))
    BY <1>1, <1>2, FS_Subset
  <1>5. Cardinality(Below(S, i)) \in Nat /\ Cardinality(Below(S, k)) \in Nat
    BY <1>2, FS_CardinalityType
  <1> QED BY <1>3, <1>4, <1>5

\* Two elements of the same rank are the same.
LEMMA BelowTells ==
    ASSUME NEW S \in SUBSET Nat, IsFiniteSet(S), NEW i \in S, NEW k \in S,
           Cardinality(Below(S, i)) = Cardinality(Below(S, k))
    PROVE  i = k
  <1>1. Cardinality(Below(S, i)) \in Nat /\ Cardinality(Below(S, k)) \in Nat
    BY BelowLess
  <1>2. ~(i < k)
    BY <1>1, BelowGrows
  <1>3. ~(k < i)
    BY <1>1, BelowGrows
  <1> QED BY <1>2, <1>3

\* Every rank is some element's: the ranks are as many as the elements.
LEMMA RankExists ==
    ASSUME NEW S \in SUBSET Nat, IsFiniteSet(S), NEW n \in 1 .. Cardinality(S)
    PROVE  \E i \in S : Cardinality(Below(S, i)) = n - 1
  <1> DEFINE ranks == 0 .. Cardinality(S) - 1
             rank == [i \in S |-> Cardinality(Below(S, i))]
  <1>1. Cardinality(S) \in Nat
    BY FS_CardinalityType
  <1>2. IsFiniteSet(ranks) /\ Cardinality(ranks) = Cardinality(S)
    <2>1. 0 \in Int /\ Cardinality(S) - 1 \in Int
      BY <1>1
    <2>2. /\ IsFiniteSet(ranks)
          /\ Cardinality(ranks) = IF 0 > Cardinality(S) - 1 THEN 0 ELSE Cardinality(S) - 1 - 0 + 1
      BY <2>1, FS_Interval
    <2> HIDE DEF ranks
    <2> QED BY <1>1, <2>2
  <1>3. rank \in [S -> ranks]
    BY BelowLess
  <1>4. \A i, k \in S : rank[i] = rank[k] => i = k
    BY BelowTells
  <1>5. rank \in Injection(S, ranks)
    BY <1>3, <1>4 DEF Injection, IsInjective
  <1>6. rank \in Surjection(S, ranks)
    <2> HIDE DEF rank, ranks
    <2> QED BY <1>2, <1>5, FS_Injection
  <1>7. n - 1 \in ranks
    BY <1>1
  <1>8. \E i \in S : rank[i] = n - 1
    <2> HIDE DEF rank, ranks
    <2> QED BY <1>6, <1>7 DEF Surjection
  <1> QED BY <1>8

\* The n-th smallest is the element with n - 1 below it.
LEMMA NthSmallestIs ==
    ASSUME NEW S \in SUBSET Nat, IsFiniteSet(S), NEW n \in 1 .. Cardinality(S)
    PROVE  /\ NthSmallest(S, n) \in S
           /\ Cardinality(Below(S, NthSmallest(S, n))) = n - 1
           /\ \A i \in S : Cardinality(Below(S, i)) = n - 1 => i = NthSmallest(S, n)
  <1>1. NthSmallest(S, n) \in S /\ Cardinality(Below(S, NthSmallest(S, n))) = n - 1
    <2>1. \E i \in S : Cardinality({j \in S : j < i}) = n - 1
      BY RankExists DEF Below
    <2> QED BY <2>1, Zenon DEF NthSmallest, Below
  <1>2. ASSUME NEW i \in S, Cardinality(Below(S, i)) = n - 1 PROVE i = NthSmallest(S, n)
    <2>1. Cardinality(Below(S, i)) = Cardinality(Below(S, NthSmallest(S, n)))
      BY <1>1, <1>2
    <2> QED BY <1>1, <2>1, BelowTells
  <1> QED BY <1>1, <1>2

\* Counted from the other end.
LEMMA NthLargestIs ==
    ASSUME NEW S \in SUBSET Nat, IsFiniteSet(S), NEW n \in 1 .. Cardinality(S)
    PROVE  NthLargest(S, n) = NthSmallest(S, Cardinality(S) - n + 1)
  <1> DEFINE m == Cardinality(S) - n + 1
  <1>1. m \in 1 .. Cardinality(S) /\ Cardinality(S) \in Nat
    BY FS_CardinalityType
  <1>2. \A i \in S : Cardinality(Above(S, i)) = n - 1 <=> Cardinality(Below(S, i)) = m - 1
    BY <1>1, BelowLess
  <1>3. NthSmallest(S, m) \in S /\ Cardinality(Above(S, NthSmallest(S, m))) = n - 1
    <2>1. NthSmallest(S, m) \in S /\ Cardinality(Below(S, NthSmallest(S, m))) = m - 1
      BY <1>1, NthSmallestIs
    <2> QED BY <1>2, <2>1
  <1>4. \A i \in S : Cardinality(Above(S, i)) = n - 1 => i = NthSmallest(S, m)
    <2>1. \A i \in S : Cardinality(Below(S, i)) = m - 1 => i = NthSmallest(S, m)
      BY <1>1, NthSmallestIs
    <2> QED BY <1>2, <2>1
  <1> HIDE DEF m
  <1>5. NthLargest(S, n) \in S /\ Cardinality(Above(S, NthLargest(S, n))) = n - 1
    <2>1. \E i \in S : Cardinality({j \in S : j > i}) = n - 1
      BY <1>3 DEF Above
    <2> QED BY <2>1, Zenon DEF NthLargest, Above
  <1> QED BY <1>4, <1>5 DEF m

\* A new greatest element is the last and moves no other.
LEMMA NthSmallestAdd ==
    ASSUME NEW S \in SUBSET Nat, IsFiniteSet(S), NEW e \in Nat, \A i \in S : i < e
    PROVE  /\ IsFiniteSet(S \cup {e}) /\ Cardinality(S \cup {e}) = Cardinality(S) + 1
           /\ Cardinality(S) \in Nat
           /\ NthSmallest(S \cup {e}, Cardinality(S) + 1) = e
           /\ \A n \in 1 .. Cardinality(S) : NthSmallest(S \cup {e}, n) = NthSmallest(S, n)
  <1> DEFINE T == S \cup {e}
  <1>1. e \notin S /\ T \in SUBSET Nat
    OBVIOUS
  <1>2. IsFiniteSet(T) /\ Cardinality(T) = Cardinality(S) + 1 /\ Cardinality(S) \in Nat
    BY <1>1, FS_AddElement, FS_CardinalityType
  <1>3. Below(T, e) = S
    <2>1. ~(e < e)
      OBVIOUS
    <2>2. \A i : i \in Below(T, e) <=> i \in S
      BY <2>1 DEF Below
    <2> QED BY <2>2
  <1>4. \A i \in S : Below(T, i) = Below(S, i)
    <2>1. \A i \in S : ~(e < i)
      OBVIOUS
    <2> QED BY <2>1 DEF Below
  <1>5. NthSmallest(T, Cardinality(S) + 1) = e
    <2>1. Cardinality(S) + 1 \in 1 .. Cardinality(T) /\ e \in T
      BY <1>2
    <2>2. Cardinality(Below(T, e)) = (Cardinality(S) + 1) - 1
      BY <1>2, <1>3
    <2> HIDE DEF T
    <2> QED BY <1>1, <1>2, <2>1, <2>2, NthSmallestIs
  <1>6. ASSUME NEW n \in 1 .. Cardinality(S) PROVE NthSmallest(T, n) = NthSmallest(S, n)
    <2>1. NthSmallest(S, n) \in S /\ Cardinality(Below(S, NthSmallest(S, n))) = n - 1
      BY NthSmallestIs
    <2>2. NthSmallest(S, n) \in T /\ Cardinality(Below(T, NthSmallest(S, n))) = n - 1
      <3>1. Below(T, NthSmallest(S, n)) = Below(S, NthSmallest(S, n))
        BY <1>4, <2>1
      <3> QED BY <2>1, <3>1, Zenon
    <2>3. n \in 1 .. Cardinality(T)
      BY <1>2
    <2> HIDE DEF T
    <2>4. \A i \in T : Cardinality(Below(T, i)) = n - 1 => i = NthSmallest(T, n)
      BY <1>1, <1>2, <2>3, NthSmallestIs
    <2> QED BY <2>2, <2>4
  <1> QED BY <1>2, <1>5, <1>6

-----------------------------------------------------------------------------
(* The database's history of an order, out of the table of all orders'.     *)

Listed(o) == [n \in 1 .. Cardinality(Recorded(o)) |-> transactions[NthSmallest(Recorded(o), n)].ref]

RefsReal == \A i \in DOMAIN transactions : transactions[i].ref \in Sessions

\* The entries of an order are finitely many places of the table.
LEMMA RecordedIs ==
    ASSUME StoreTypeOK, NEW o \in Orders
    PROVE  /\ Recorded(o) \in SUBSET Nat /\ IsFiniteSet(Recorded(o))
           /\ Recorded(o) \in SUBSET (1 .. Len(transactions))
           /\ Len(transactions) \in Nat /\ DOMAIN transactions = 1 .. Len(transactions)
           /\ Cardinality(Recorded(o)) \in Nat
  <1>1. Len(transactions) \in Nat /\ DOMAIN transactions = 1 .. Len(transactions)
    BY DEF StoreTypeOK
  <1>2. Recorded(o) \in SUBSET (1 .. Len(transactions))
    BY <1>1 DEF Recorded
  <1>3. IsFiniteSet(1 .. Len(transactions))
    BY <1>1, FS_Interval
  <1>4. IsFiniteSet(Recorded(o))
    BY <1>2, <1>3, FS_Subset
  <1> QED BY <1>1, <1>2, <1>4, FS_CardinalityType

\* The history has the references of the order's entries.
LEMMA ListedIs ==
    ASSUME StoreTypeOK, RefsReal, NEW o \in Orders
    PROVE  /\ Listed(o) \in Seq(Sessions) /\ Len(Listed(o)) = Cardinality(Recorded(o))
           /\ \A n \in 1 .. Cardinality(Recorded(o)) :
                Listed(o)[n] = transactions[NthSmallest(Recorded(o), n)].ref
  <1>1. \A n \in 1 .. Cardinality(Recorded(o)) :
            transactions[NthSmallest(Recorded(o), n)].ref \in Sessions
    BY RecordedIs, NthSmallestIs DEF RefsReal
  <1> QED BY <1>1, RecordedIs DEF Listed

\* Appending, as a function of the place.
LEMMA AppendIs ==
    ASSUME NEW S, NEW s \in Seq(S), NEW e \in S
    PROVE  Append(s, e) = [n \in 1 .. Len(s) + 1 |-> IF n = Len(s) + 1 THEN e ELSE s[n]]
  <1> DEFINE t == [n \in 1 .. Len(s) + 1 |-> IF n = Len(s) + 1 THEN e ELSE s[n]]
  <1>1. Len(s) \in Nat /\ \A n \in 1 .. Len(s) : s[n] \in S
    OBVIOUS
  <1>2. \A n \in 1 .. Len(s) + 1 : n = Len(s) + 1 \/ n \in 1 .. Len(s)
    BY <1>1
  <1>3. t \in Seq(S) /\ Len(t) = Len(s) + 1
    BY <1>1, <1>2
  <1>4. \A n \in 1 .. Len(s) + 1 : t[n] = Append(s, e)[n]
    BY <1>1, <1>2, AppendProperties
  <1> HIDE DEF t
  <1>5. Append(s, e) \in Seq(S) /\ Len(Append(s, e)) = Len(s) + 1
    BY AppendProperties
  <1>6. Append(s, e) = t
    BY <1>3, <1>4, <1>5, SeqEqual
  <1> QED BY <1>6 DEF t

\* A transaction saved comes last in the history of its order.
LEMMA SaveLists ==
    ASSUME StoreTypeOK, RefsReal, NEW o \in Orders, NEW ref \in Sessions,
           transactions' = Append(transactions, [order |-> o, ref |-> ref])
    PROVE  /\ RefsReal'
           /\ \A p \in Orders : Listed(p)' = IF p = o THEN Append(Listed(p), ref) ELSE Listed(p)
  <1> DEFINE e == Len(transactions) + 1
  <1>1. Len(transactions) \in Nat /\ DOMAIN transactions = 1 .. Len(transactions)
    BY DEF StoreTypeOK
  <1>2. /\ DOMAIN transactions' = 1 .. e /\ e \in Nat
        /\ \A i \in DOMAIN transactions : transactions'[i] = transactions[i]
        /\ transactions'[e] = [order |-> o, ref |-> ref]
    BY <1>1 DEF StoreTypeOK
  <1>3. RefsReal'
    BY <1>1, <1>2 DEF RefsReal
  <1> HIDE DEF e
  <1>4. ASSUME NEW p \in Orders, p # o PROVE Listed(p)' = Listed(p)
    <2>1. Recorded(p)' = Recorded(p)
      <3>1. \A i \in 1 .. e : i = e \/ i \in DOMAIN transactions
        BY <1>1 DEF e
      <3>2. \A i \in DOMAIN transactions : i \in 1 .. e
        BY <1>1 DEF e
      <3>3. \A i : i \in Recorded(p)' <=> i \in Recorded(p)
        BY <1>2, <1>4, <3>1, <3>2 DEF Recorded
      <3> QED BY <3>3
    <2>2. \A n \in 1 .. Cardinality(Recorded(p)) :
            transactions'[NthSmallest(Recorded(p), n)].ref = transactions[NthSmallest(Recorded(p), n)].ref
      BY <1>1, <1>2, RecordedIs, NthSmallestIs
    <2>3. Listed(p)' = [n \in 1 .. Cardinality(Recorded(p)) |-> transactions'[NthSmallest(Recorded(p), n)].ref]
      BY <2>1, Zenon DEF Listed
    <2> QED BY <2>2, <2>3 DEF Listed
  <1>5. Listed(o)' = Append(Listed(o), ref)
    <2> DEFINE R == Recorded(o)
               c == Cardinality(R)
    <2>1. Recorded(o)' = R \cup {e}
      <3>1. \A i : i \in 1 .. e <=> i = e \/ i \in DOMAIN transactions
        BY <1>1 DEF e
      <3>2. \A i : i \in Recorded(o)' <=> i \in R \cup {e}
        BY <1>2, <3>1 DEF Recorded
      <3> QED BY <3>2
    <2>2. R \in SUBSET Nat /\ IsFiniteSet(R) /\ R \in SUBSET DOMAIN transactions /\ \A i \in R : i < e
      BY <1>1, RecordedIs DEF e
    <2>3. /\ Cardinality(R \cup {e}) = c + 1 /\ c \in Nat
          /\ NthSmallest(R \cup {e}, c + 1) = e
          /\ \A n \in 1 .. c : NthSmallest(R \cup {e}, n) = NthSmallest(R, n)
      BY <1>2, <2>2, NthSmallestAdd
    <2>4. Listed(o)' = [n \in 1 .. Cardinality(R \cup {e}) |-> transactions'[NthSmallest(R \cup {e}, n)].ref]
      BY <2>1, Zenon DEF Listed
    <2>5. \A n \in 1 .. c : NthSmallest(R, n) \in DOMAIN transactions
      BY <2>2, NthSmallestIs
    <2>6. /\ Listed(o) \in Seq(Sessions) /\ Len(Listed(o)) = c
          /\ \A n \in 1 .. c : Listed(o)[n] = transactions[NthSmallest(R, n)].ref
      BY <1>1, ListedIs
    <2> HIDE DEF R, c
    <2>7. Listed(o)' = [n \in 1 .. c + 1 |-> IF n = c + 1 THEN ref ELSE Listed(o)[n]]
      <3>1. ASSUME NEW n \in 1 .. c + 1
            PROVE  transactions'[NthSmallest(R \cup {e}, n)].ref = IF n = c + 1 THEN ref ELSE Listed(o)[n]
        <4>1. CASE n = c + 1
          BY <1>2, <2>3, <4>1
        <4>2. CASE n # c + 1
          <5>1. n \in 1 .. c
            BY <2>3, <4>2
          <5> QED BY <1>2, <2>3, <2>5, <2>6, <4>2, <5>1
        <4> QED BY <4>1, <4>2
      <3> QED BY <2>3, <2>4, <3>1
    <2>8. Append(Listed(o), ref) = [n \in 1 .. c + 1 |-> IF n = c + 1 THEN ref ELSE Listed(o)[n]]
      BY <2>3, <2>6, AppendIs
    <2> QED BY <2>7, <2>8, Zenon
  <1> QED BY <1>3, <1>4, <1>5

\* ListTransactions answers the history backwards.
LEMMA ListingIs ==
    ASSUME StoreTypeOK, RefsReal, NEW o \in Orders
    PROVE  /\ References(ListTransactions(o)) = Contract!Reverse(Listed(o))
           /\ References(ListTransactions(o)) \in Seq(Sessions)
  <1> DEFINE R == Recorded(o)
             c == Cardinality(R)
  <1>1. /\ Listed(o) \in Seq(Sessions) /\ Len(Listed(o)) = c /\ c \in Nat
        /\ \A n \in 1 .. c : Listed(o)[n] = transactions[NthSmallest(R, n)].ref
    BY RecordedIs, ListedIs
  <1>2. ListTransactions(o) = [n \in 1 .. c |-> transactions[NthLargest(R, n)]]
    BY Zenon DEF ListTransactions, Recorded
  <1>3. R \in SUBSET Nat /\ IsFiniteSet(R)
    BY RecordedIs
  <1>4. \A n \in 1 .. c : NthLargest(R, n) = NthSmallest(R, c - n + 1)
    BY <1>3, NthLargestIs
  <1> HIDE DEF R, c
  <1>5. \A n \in 1 .. c : c - n + 1 \in 1 .. c
    BY <1>1
  <1>6. References(ListTransactions(o)) = [n \in 1 .. c |-> Listed(o)[c - n + 1]]
    BY <1>1, <1>2, <1>4, <1>5 DEF References
  <1>7. \A n \in 1 .. c : Listed(o)[c - n + 1] \in Sessions
    BY <1>1, <1>5
  <1>8. Contract!Reverse(Listed(o)) = [n \in 1 .. c |-> Listed(o)[c - n + 1]]
    BY <1>1, Zenon DEF Contract!Reverse
  <1> QED BY <1>1, <1>6, <1>7, <1>8

\* GetTransaction answers the last of the history.
LEMMA LatestIs ==
    ASSUME StoreTypeOK, RefsReal, NEW o \in Orders
    PROVE  /\ GetTransaction(o) = {} <=> Listed(o) = <<>>
           /\ \A t \in GetTransaction(o) :
                t.ref \in Sessions /\ t.ref = Contract!Last(Listed(o))
  <1> DEFINE R == Recorded(o)
             c == Cardinality(R)
             latest == NthSmallest(R, c)
  <1>1. /\ Listed(o) \in Seq(Sessions) /\ Len(Listed(o)) = c /\ c \in Nat
        /\ \A n \in 1 .. c : Listed(o)[n] = transactions[NthSmallest(R, n)].ref
    BY RecordedIs, ListedIs
  <1>2. R \in SUBSET Nat /\ IsFiniteSet(R) /\ R \in SUBSET DOMAIN transactions
    BY RecordedIs
  <1>3. GetTransaction(o) = {transactions[i] : i \in {j \in R : \A k \in R : k <= j}}
    BY <1>2 DEF GetTransaction, Recorded
  <1>4. c = 0 <=> R = {}
    BY <1>2, FS_EmptySet
  <1>5. ASSUME c # 0
        PROVE  /\ latest \in R
               /\ \A j \in R : (\A k \in R : k <= j) <=> j = latest
    <2>1. /\ latest \in R /\ Cardinality(Below(R, latest)) = c - 1
          /\ \A i \in R : Cardinality(Below(R, i)) = c - 1 => i = latest
      <3>1. c \in 1 .. c
        BY <1>1, <1>5
      <3> QED BY <1>2, <3>1, NthSmallestIs
    <2>2. \A j \in R : /\ Cardinality(Above(R, j)) = c - 1 - Cardinality(Below(R, j))
                       /\ IsFiniteSet(Above(R, j))
                       /\ Cardinality(Below(R, j)) \in Nat
      <3>1. \A j \in R : Above(R, j) \in SUBSET R
        BY DEF Above
      <3> QED BY <1>2, <3>1, BelowLess, FS_Subset
    <2> HIDE DEF R, c, latest
    <2>3. \A j \in R : Cardinality(Above(R, j)) = 0 <=> j = latest
      BY <1>1, <2>1, <2>2
    <2>4. \A j \in R : Above(R, j) = {} <=> j = latest
      BY <2>2, <2>3, FS_EmptySet
    <2>5. \A j \in R : (\A k \in R : k <= j) <=> Above(R, j) = {}
      <3>1. \A j, k \in R : k <= j <=> ~(k > j)
        BY <1>2
      <3> QED BY <3>1 DEF Above
    <2> QED BY <2>1, <2>4, <2>5
  <1> HIDE DEF R, c, latest
  <1>6. c = 0 => GetTransaction(o) = {} /\ Listed(o) = <<>>
    BY <1>1, <1>3, <1>4
  <1>7. c # 0 => /\ GetTransaction(o) = {transactions[latest]}
                 /\ transactions[latest].ref \in Sessions
                 /\ transactions[latest].ref = Listed(o)[c]
    <2>1. c # 0 => GetTransaction(o) = {transactions[latest]} /\ latest \in DOMAIN transactions
      BY <1>2, <1>3, <1>5
    <2>2. c # 0 => c \in 1 .. c
      BY <1>1
    <2> QED BY <1>1, <2>1, <2>2 DEF RefsReal, latest
  <1>8. Contract!Last(Listed(o)) = Listed(o)[c]
    BY <1>1, Zenon DEF Contract!Last
  <1>9. c # 0 => Listed(o) # <<>>
    BY <1>1
  <1> QED BY <1>1, <1>6, <1>7, <1>8, <1>9

-----------------------------------------------------------------------------
(* The invariant.  In memory the two maps have to agree on what they lead   *)
(* to; that a payment's token does not change (no token is saved over       *)
(* another) is what keeps a stale entry out of the map by token.            *)

MapsAgree ==
    /\ \A o \in Orders : byOrder[o] # None =>
        cells[byOrder[o]] # None /\ cells[byOrder[o]].order = o
    /\ \A t \in Sessions : byToken[t] # None =>
        /\ cells[byToken[t]] # None
        /\ cells[byToken[t]].token = t
        /\ byOrder[cells[byToken[t]].order] = byToken[t]
    /\ \A o \in Orders : byOrder[o] # None /\ cells[byOrder[o]].token # None =>
        byToken[cells[byOrder[o]].token] # None

\* Rows have only the statuses the callers use.
StatusUsed == \A o \in Orders : payments[o] # None => payments[o].status \in Status

StoresInv == TypeOK /\ RefsReal /\ StatusUsed /\ MapsAgree /\ HeldPayment

Answered(a) ==
    /\ a.says \in {"nothing", "ok", "nil", "not found", "yes", "no", "error", "row", "refs"}
    /\ a.row \in Row \cup {None}
    /\ a.refs \in Seq(Sessions)

\* The types of what the stores say.
LEMMA SaysTyped ==
    /\ \A s \in {"nothing", "ok", "nil", "not found", "yes", "no", "error"} : Answered(Contract!Say(s))
    /\ \A r \in Row \cup {None} : Answered(Contract!SayRow(r))
    /\ \A refs \in Seq(Sessions) : Answered(Contract!SayRefs(refs))
  BY DEF Answered, Contract!Say, Contract!SayRow, Contract!SayRefs

\* A row changes only its status.
LEMMA RowMoves ==
    ASSUME NEW r \in Row, NEW to \in Status
    PROVE  /\ [r EXCEPT !.status = to] \in Row
           /\ [r EXCEPT !.status = to].order = r.order
           /\ [r EXCEPT !.status = to].token = r.token
  BY DEF Row

LEMMA InitInv == Init => StoresInv
  <1> SUFFICES ASSUME Init PROVE StoresInv
    OBVIOUS
  <1>1. StoreTypeOK
    BY DEF Init, StoreInit, StoreTypeOK
  <1>2. Answered(answer)
    BY SaysTyped DEF Init
  <1>3. /\ cells \in [Addresses -> Row \cup {None}] /\ byOrder \in [Orders -> Addresses \cup {None}]
        /\ byToken \in [Sessions -> Addresses \cup {None}]
        /\ txs \in [Orders -> Seq(Sessions)]
    BY EmptySeq DEF Init, Mem!Init
  <1>6. TypeOK
    BY <1>1, <1>2, <1>3 DEF TypeOK, Init, Answered
  <1>4. RefsReal /\ StatusUsed
    BY DEF Init, StoreInit, RefsReal, StatusUsed
  <1>5. MapsAgree /\ HeldPayment
    BY DEF Init, Mem!Init, MapsAgree, HeldPayment
  <1> QED BY <1>4, <1>5, <1>6 DEF StoresInv

\* A call that reads leaves everything but the answer.
LEMMA ReadsKeep ==
    ASSUME StoresInv, Answered(answer'), UNCHANGED <<storeVars, memVars, backend, held>>,
           half' \in [Callers -> Begun \cup {None}]
    PROVE  StoresInv'
  <1>1. StoreTypeOK' /\ RefsReal' /\ StatusUsed'
    BY DEF StoresInv, TypeOK, StoreTypeOK, RefsReal, StatusUsed, storeVars
  <1>2. MapsAgree' /\ HeldPayment'
    BY DEF StoresInv, MapsAgree, HeldPayment, memVars
  <1>3. TypeOK'
    BY <1>1, Zenon DEF StoresInv, TypeOK, Answered, memVars
  <1> QED BY <1>1, <1>2, <1>3 DEF StoresInv

\* A statement of the database may change its two tables.
LEMMA DatabaseKeeps ==
    ASSUME StoresInv, Answered(answer'), UNCHANGED <<memVars, backend, held>>,
           StoreTypeOK', RefsReal', StatusUsed', half' \in [Callers -> Begun \cup {None}]
    PROVE  StoresInv'
  <1>1. MapsAgree' /\ HeldPayment'
    BY DEF StoresInv, MapsAgree, HeldPayment, memVars
  <1>2. TypeOK'
    BY DEF StoresInv, TypeOK, Answered, memVars
  <1> QED BY <1>1, <1>2 DEF StoresInv

-----------------------------------------------------------------------------
(* The memory store.                                                        *)

\* There is somewhere to put a row that nothing points to.
LEMMA FreshIs ==
    ASSUME TypeOK, MapsAgree
    PROVE  /\ Mem!Fresh(Held) \in Addresses \ Held
           /\ \A o \in Orders : byOrder[o] # Mem!Fresh(Held)
           /\ \A t \in Sessions : byToken[t] # Mem!Fresh(Held)
  <1>1. PICK at : at = byOrder
    OBVIOUS
  <1>2. PICK h : h = IF held = None THEN None ELSE held.at
    OBVIOUS
  <1>3. at \in [Orders -> Addresses \cup {None}] /\ h \in Addresses \cup {None}
    BY <1>1, <1>2 DEF TypeOK, Looked
  <1>4. PICK b \in Addresses \ {h} : \A o \in Orders : at[o] # b
    BY <1>3, AddressesSuffice
  <1>5. b \in Addresses \ Held /\ \A o \in Orders : byOrder[o] # b
    BY <1>1, <1>2, <1>4 DEF Held
  <1>6. \A t \in Sessions : byToken[t] # b
    <2>1. ASSUME NEW t \in Sessions, byToken[t] = b PROVE FALSE
      <3>1. b # None
        BY <1>5, NoneIsNoAddress
      <3>2. cells[b] # None /\ byOrder[cells[b].order] = b
        BY <2>1, <3>1 DEF MapsAgree
      <3>3. cells[b].order \in Orders
        BY <1>5, <3>2 DEF TypeOK, Row
      <3> QED BY <1>5, <3>2, <3>3
    <2> QED BY <2>1
  <1> QED BY <1>5, <1>6, Zenon DEF Mem!Fresh

\* Saving a payment: both maps lead to the new copy, and what they or a caller
\* lead to besides is left as it is.
LEMMA StoreKeeps ==
    ASSUME TypeOK, MapsAgree, HeldPayment, NEW row \in Row,
           byOrder[row.order] # None => cells[byOrder[row.order]].token \in {None, row.token},
           Mem!SavePayment(row, Held), UNCHANGED held
    PROVE  /\ cells' \in [Addresses -> Row \cup {None}]
           /\ byOrder' \in [Orders -> Addresses \cup {None}]
           /\ byToken' \in [Sessions -> Addresses \cup {None}]
           /\ txs' = txs
           /\ MapsAgree' /\ HeldPayment'
           /\ \A o \in Orders : IF o = row.order THEN byOrder'[o] # None /\ cells'[byOrder'[o]] = row
                                ELSE /\ byOrder'[o] = byOrder[o]
                                     /\ byOrder[o] # None => cells'[byOrder[o]] = cells[byOrder[o]]
  <1>1. PICK a : a = Mem!Fresh(Held)
    OBVIOUS
  <1>2. /\ a \in Addresses /\ a \notin Held /\ a # None
        /\ \A o \in Orders : byOrder[o] # a
        /\ \A t \in Sessions : byToken[t] # a
    BY <1>1, FreshIs, NoneIsNoAddress
  <1>3. /\ byOrder' = [byOrder EXCEPT ![row.order] = a]
        /\ byToken' = [t \in Sessions |-> IF t = row.token THEN a ELSE byToken[t]]
        /\ cells' = [b \in Addresses |->
             IF b = a THEN row
             ELSE IF b \in Held \/ (\E o \in Orders : byOrder'[o] = b)
                                \/ (\E t \in Sessions : byToken'[t] = b)
             THEN cells[b] ELSE None]
        /\ txs' = txs
    BY <1>1 DEF Mem!SavePayment, Mem!Store
  <1>4. row.order \in Orders /\ row.token \in Sessions \cup {None} /\ row # None
    BY NoneIsNoRecord DEF Row
  <1>5. \A o \in Orders : byOrder'[o] = IF o = row.order THEN a ELSE byOrder[o]
    BY <1>3 DEF TypeOK
  <1>6. \A t \in Sessions : byToken'[t] = IF t = row.token THEN a ELSE byToken[t]
    BY <1>3
  <1>7. cells'[a] = row
    BY <1>2, <1>3
  <1>8. \A b \in Addresses : b # a /\ (b \in Held \/ (\E o \in Orders : byOrder'[o] = b)
                                          \/ (\E t \in Sessions : byToken'[t] = b))
            => cells'[b] = cells[b]
    BY <1>3
  <1>9. /\ cells' \in [Addresses -> Row \cup {None}]
        /\ byOrder' \in [Orders -> Addresses \cup {None}]
        /\ byToken' \in [Sessions -> Addresses \cup {None}]
    BY <1>2, <1>3 DEF TypeOK
  <1>10. \A o \in Orders : o # row.order =>
            byOrder'[o] = byOrder[o] /\ (byOrder[o] # None => cells'[byOrder[o]] = cells[byOrder[o]])
    BY <1>2, <1>5, <1>8 DEF TypeOK
  <1>11. \A t \in Sessions : t # row.token =>
            byToken'[t] = byToken[t] /\ (byToken[t] # None => cells'[byToken[t]] = cells[byToken[t]])
    BY <1>2, <1>6, <1>8 DEF TypeOK
  <1>12. ASSUME NEW t \in Sessions, byToken'[t] # None
         PROVE  /\ cells'[byToken'[t]] # None
                /\ cells'[byToken'[t]].token = t
                /\ byOrder'[cells'[byToken'[t]].order] = byToken'[t]
    <2>1. CASE t = row.token
      BY <1>4, <1>5, <1>6, <1>7, <2>1
    <2>2. CASE t # row.token
      <3>1. /\ byToken'[t] = byToken[t] /\ byToken[t] # None /\ cells'[byToken[t]] = cells[byToken[t]]
            /\ cells[byToken[t]] # None
            /\ cells[byToken[t]].token = t
            /\ byOrder[cells[byToken[t]].order] = byToken[t]
        BY <1>11, <1>12, <2>2 DEF MapsAgree
      <3>2. cells[byToken[t]].order \in Orders
        BY <3>1 DEF TypeOK, Row
      <3>3. cells[byToken[t]].order # row.order
        <4>1. t # None
          BY NoneIsApart
        <4> QED BY <2>2, <3>1, <4>1
      <3> QED BY <1>10, <3>1, <3>2, <3>3
    <2> QED BY <2>1, <2>2
  <1>13. MapsAgree'
    <2>1. \A o \in Orders : byOrder'[o] # None =>
            cells'[byOrder'[o]] # None /\ cells'[byOrder'[o]].order = o
      BY <1>4, <1>5, <1>7, <1>10 DEF MapsAgree
    <2>2. \A o \in Orders : byOrder'[o] # None /\ cells'[byOrder'[o]].token # None =>
            byToken'[cells'[byOrder'[o]].token] # None
      <3>1. ASSUME NEW o \in Orders, byOrder'[o] # None, cells'[byOrder'[o]].token # None
            PROVE  byToken'[cells'[byOrder'[o]].token] # None
        <4>1. CASE o = row.order
          BY <1>2, <1>4, <1>5, <1>6, <1>7, <3>1, <4>1
        <4>2. CASE o # row.order
          <5>1. /\ byOrder'[o] = byOrder[o] /\ byOrder[o] # None
                /\ cells'[byOrder'[o]] = cells[byOrder[o]]
                /\ cells[byOrder[o]].token # None /\ cells[byOrder[o]] # None
                /\ byToken[cells[byOrder[o]].token] # None
            BY <1>10, <3>1, <4>2 DEF MapsAgree
          <5>2. cells[byOrder[o]].token \in Sessions
            BY <5>1 DEF TypeOK, Row
          <5> QED BY <1>2, <1>6, <5>1, <5>2
        <4> QED BY <4>1, <4>2
      <3> QED BY <3>1
    <2> QED BY <1>12, <2>1, <2>2 DEF MapsAgree
  <1>14. HeldPayment'
    <2>1. ASSUME held # None PROVE held.at \in Addresses /\ held.at \in Held /\ held.at # a
      BY <1>2, <2>1 DEF Held, TypeOK, Looked
    <2>2. held # None => cells'[held.at] = cells[held.at]
      BY <1>8, <2>1
    <2> QED BY <2>2 DEF HeldPayment
  <1> QED BY <1>2, <1>3, <1>5, <1>7, <1>9, <1>10, <1>13, <1>14

\* Moving a payment's status: the row keeps its address, order and token.
LEMMA MoveKeeps ==
    ASSUME TypeOK, MapsAgree, HeldPayment, NEW o \in Orders, NEW to \in Status,
           Mem!SetStatus(o, to), UNCHANGED held
    PROVE  /\ cells' \in [Addresses -> Row \cup {None}]
           /\ UNCHANGED <<byOrder, byToken, txs>>
           /\ MapsAgree' /\ HeldPayment'
           /\ byOrder[o] # None
           /\ cells'[byOrder[o]] = [cells[byOrder[o]] EXCEPT !.status = to]
           /\ \A p \in Orders : p # o /\ byOrder[p] # None => cells'[byOrder[p]] = cells[byOrder[p]]
  <1>1. PICK a : a = byOrder[o]
    OBVIOUS
  <1>2. /\ a \in Addresses /\ a # None /\ cells[a] \in Row /\ cells[a].order = o
        /\ UNCHANGED <<byOrder, byToken, txs>>
    <2>1. a \in Addresses \cup {None} /\ \A b \in Addresses : cells[b] \in Row \cup {None}
      BY <1>1 DEF TypeOK
    <2>2. a # None /\ UNCHANGED <<byOrder, byToken, txs>>
      BY <1>1 DEF Mem!SetStatus
    <2>3. cells[a] # None /\ cells[a].order = o
      BY <1>1, <2>2 DEF MapsAgree
    <2> QED BY <2>1, <2>2, <2>3
  <1>3. PICK r : r = [cells[a] EXCEPT !.status = to]
    OBVIOUS
  <1>4. r \in Row /\ r.order = cells[a].order /\ r.token = cells[a].token /\ r # None
    BY <1>2, <1>3, RowMoves, NoneIsNoRecord
  <1>5. cells' = [cells EXCEPT ![a] = r]
    BY <1>1, <1>3 DEF Mem!SetStatus
  <1>6. cells' \in [Addresses -> Row \cup {None}]
    BY <1>4, <1>5 DEF TypeOK
  <1>7. cells'[a] = r /\ \A b \in Addresses : b # a => cells'[b] = cells[b]
    BY <1>2, <1>5 DEF TypeOK
  <1>8. \A b \in Addresses : /\ cells'[b] # None <=> cells[b] # None
                             /\ cells[b] # None => /\ cells'[b].order = cells[b].order
                                                   /\ cells'[b].token = cells[b].token
    BY <1>2, <1>4, <1>7, NoneIsNoRecord
  <1>9. \A p \in Orders : p # o /\ byOrder[p] # None => cells'[byOrder[p]] = cells[byOrder[p]]
    <2>1. ASSUME NEW p \in Orders, p # o, byOrder[p] # None
          PROVE  byOrder[p] \in Addresses /\ byOrder[p] # a
      <3>1. byOrder[p] \in Addresses
        BY <2>1 DEF TypeOK
      <3>2. cells[byOrder[p]].order = p
        BY <2>1 DEF MapsAgree
      <3> QED BY <1>2, <2>1, <3>1, <3>2
    <2> QED BY <1>7, <2>1
  <1>10. MapsAgree'
    <2>1. \A p \in Orders : byOrder[p] # None => byOrder[p] \in Addresses
      BY DEF TypeOK
    <2>2. \A t \in Sessions : byToken[t] # None => byToken[t] \in Addresses
      BY DEF TypeOK
    <2> QED BY <1>2, <1>8, <2>1, <2>2 DEF MapsAgree
  <1>11. HeldPayment'
    <2>1. held # None => held.at \in Addresses
      BY DEF TypeOK, Looked
    <2> QED BY <1>8, <2>1 DEF HeldPayment
  <1> QED BY <1>1, <1>2, <1>3, <1>6, <1>7, <1>9, <1>10, <1>11

-----------------------------------------------------------------------------
(* What the callers see of either store.                                    *)

LEMMA DatabaseView ==
    ASSUME StoresInv, backend # "memory", NEW o \in Orders
    PROVE  /\ Rows[o] = IF payments[o] = None THEN None ELSE RowOf(o)
           /\ Rows[o] # None <=> payments[o] # None
           /\ payments[o] # None => /\ RowOf(o) \in Row
                                    /\ Rows[o].status = payments[o].status
                                    /\ Rows[o].token = payments[o].token
           /\ History[o] = Listed(o)
  <1>1. Rows[o] = IF payments[o] = None THEN None ELSE RowOf(o)
    BY DEF Rows
  <1>2. payments[o] # None => RowOf(o) \in Row
    <2>1. payments[o] \in StoredPayment \cup {None}
      BY DEF StoresInv, TypeOK, StoreTypeOK
    <2>2. payments[o] # None => payments[o].status \in Status
      BY DEF StoresInv, StatusUsed
    <2> QED BY <2>1, <2>2 DEF StoredPayment, RowOf, Row
  <1>3. History[o] = Listed(o)
    BY DEF History, Listed
  <1>4. RowOf(o).status = payments[o].status /\ RowOf(o).token = payments[o].token
    BY DEF RowOf
  <1> QED BY <1>1, <1>2, <1>3, <1>4, NoneIsNoRecord

LEMMA MemoryView ==
    ASSUME StoresInv, backend = "memory", NEW o \in Orders
    PROVE  /\ Rows[o] = IF byOrder[o] = None THEN None ELSE cells[byOrder[o]]
           /\ Rows[o] # None <=> byOrder[o] # None
           /\ byOrder[o] # None => Rows[o] \in Row /\ Rows[o].order = o
           /\ History[o] = txs[o]
  <1>1. Rows[o] = IF byOrder[o] = None THEN None ELSE cells[byOrder[o]]
    BY DEF Rows
  <1>2. byOrder[o] # None => /\ cells[byOrder[o]] # None /\ cells[byOrder[o]].order = o
                             /\ cells[byOrder[o]] \in Row
    <2>1. byOrder[o] # None => byOrder[o] \in Addresses
      BY DEF StoresInv, TypeOK
    <2>2. \A a \in Addresses : cells[a] \in Row \cup {None}
      BY DEF StoresInv, TypeOK
    <2> QED BY <2>1, <2>2 DEF StoresInv, MapsAgree
  <1>3. History[o] = txs[o]
    BY DEF History
  <1> QED BY <1>1, <1>2, <1>3

\* Changing one row, seen as a whole.
LEMMA RowsSet ==
    ASSUME NEW o \in Orders, NEW r, Rows'[o] = r, \A p \in Orders : p # o => Rows'[p] = Rows[p]
    PROVE  Rows' = [Rows EXCEPT ![o] = r]
  <1>1. Rows = [p \in Orders |-> Rows[p]] /\ Rows' = [p \in Orders |-> Rows'[p]]
    BY DEF Rows
  <1> QED BY <1>1

LEMMA RowsSame ==
    ASSUME \A p \in Orders : Rows'[p] = Rows[p]
    PROVE  Rows' = Rows
  <1>1. Rows = [p \in Orders |-> Rows[p]] /\ Rows' = [p \in Orders |-> Rows'[p]]
    BY DEF Rows
  <1> QED BY <1>1

LEMMA HistorySet ==
    ASSUME NEW o \in Orders, NEW h, History'[o] = h, \A p \in Orders : p # o => History'[p] = History[p]
    PROVE  History' = [History EXCEPT ![o] = h]
  <1>1. History = [p \in Orders |-> History[p]] /\ History' = [p \in Orders |-> History'[p]]
    BY DEF History
  <1> QED BY <1>1

LEMMA HistorySame ==
    ASSUME \A p \in Orders : History'[p] = History[p]
    PROVE  History' = History
  <1>1. History = [p \in Orders |-> History[p]] /\ History' = [p \in Orders |-> History'[p]]
    BY DEF History
  <1> QED BY <1>1

\* Nobody sees a difference when neither store changes.
LEMMA ViewStays ==
    ASSUME UNCHANGED <<storeVars, memVars, backend>>
    PROVE  Rows' = Rows /\ History' = History
  <1>1. \A p \in Orders : Rows'[p] = Rows[p]
    BY DEF Rows, RowOf, storeVars, memVars
  <1>2. \A p \in Orders : Recorded(p)' = Recorded(p)
    BY DEF Recorded, storeVars
  <1>3. \A p \in Orders : History'[p] = History[p]
    BY <1>2 DEF History, storeVars, memVars
  <1> QED BY <1>1, <1>3, RowsSame, HistorySame

\* Nor, of the other store, when one of them does.
LEMMA PaymentsStay ==
    ASSUME UNCHANGED <<payments, memVars, backend>>
    PROVE  Rows' = Rows
  <1>1. \A p \in Orders : Rows'[p] = Rows[p]
    BY DEF Rows, RowOf, memVars
  <1> QED BY <1>1, RowsSame

LEMMA TransactionsStay ==
    ASSUME UNCHANGED <<transactions, txs, backend>>
    PROVE  History' = History
  <1>1. \A p \in Orders : Recorded(p)' = Recorded(p)
    BY DEF Recorded
  <1>2. \A p \in Orders : History'[p] = History[p]
    BY <1>1 DEF History
  <1> QED BY <1>2, HistorySame

-----------------------------------------------------------------------------
(* Each operation of the default stores keeps the invariant and is a step   *)
(* of the contract.                                                         *)

LEMMA DatabaseReads ==
    ASSUME StoresInv, NEW a, Answered(a), DBReads(a)
    PROVE  StoresInv' /\ Contract!Reads(a)
  <1>1. /\ answer' \in {a, Contract!Say("error")}
        /\ UNCHANGED <<memVars, backend, held, storeVars, half>>
    BY DEF DBReads, DBAnswers
  <1>2. Answered(answer')
    BY <1>1, SaysTyped
  <1>3. half' \in [Callers -> Begun \cup {None}]
    BY <1>1 DEF StoresInv, TypeOK
  <1>4. StoresInv'
    BY <1>1, <1>2, <1>3, ReadsKeep
  <1>5. Rows' = Rows /\ History' = History
    BY <1>1, ViewStays
  <1>6. Contract!Reads(a)
    BY <1>1, <1>5 DEF Contract!Reads, Contract!Answers
  <1> QED BY <1>4, <1>6

LEMMA DBFailsIs ==
    ASSUME StoresInv, DBFails
    PROVE  StoresInv' /\ Contract!Next
  <1>1. StoresInv' /\ Contract!Reads(Contract!Say("error"))
    BY SaysTyped, DatabaseReads DEF DBFails
  <1> QED BY <1>1 DEF Contract!Next, Contract!Fails

LEMMA DBGetPaymentIs ==
    ASSUME StoresInv, NEW o \in Orders, DBGetPayment(o)
    PROVE  StoresInv' /\ Contract!Next
  <1>1. backend # "memory"
    BY DEF DBGetPayment, DBFirst, DBReads, DBAnswers
  <1>2. StoresInv' /\ Contract!GetPayment(o)
    <2>1. CASE payments[o] = None
      <3>1. DBReads(Contract!Say("nil"))
        BY <2>1 DEF DBGetPayment, DBFirst, GetPayment
      <3>2. StoresInv' /\ Contract!Reads(Contract!Say("nil"))
        BY <3>1, SaysTyped, DatabaseReads
      <3> QED BY <1>1, <2>1, <3>2, DatabaseView DEF Contract!GetPayment
    <2>2. CASE payments[o] # None
      <3>1. GetPayment(o) = {o}
        BY <2>2 DEF GetPayment
      <3>2. DBReads(Contract!SayRow(RowOf(o)))
        BY <3>1 DEF DBGetPayment, DBFirst
      <3>3. RowOf(o) \in Row /\ Rows[o] = RowOf(o) /\ Rows[o] # None
        BY <1>1, <2>2, DatabaseView
      <3>4. Answered(Contract!SayRow(RowOf(o)))
        BY <3>3, SaysTyped
      <3>5. StoresInv' /\ Contract!Reads(Contract!SayRow(RowOf(o)))
        BY <3>2, <3>4, DatabaseReads
      <3> QED BY <3>3, <3>5 DEF Contract!GetPayment
    <2> QED BY <2>1, <2>2
  <1> QED BY <1>2 DEF Contract!Next

LEMMA DBGetPaymentByTokenIs ==
    ASSUME StoresInv, NEW token \in Sessions \cup {None}, DBGetPaymentByToken(token)
    PROVE  StoresInv' /\ Contract!Next
  <1>1. backend # "memory"
    BY DEF DBGetPaymentByToken, DBFirst, DBReads, DBAnswers
  <1> DEFINE carrying == {o \in Orders : Rows[o] # None /\ Rows[o].token = token}
  <1>2. \A o \in Orders : o \in GetPaymentByToken(token) <=> token # None /\ o \in carrying
    BY <1>1, DatabaseView DEF GetPaymentByToken
  <1>3. StoresInv' /\ Contract!GetPaymentByToken(token)
    <2>1. CASE GetPaymentByToken(token) = {}
      <3>1. DBReads(Contract!Say("nil"))
        BY <2>1 DEF DBGetPaymentByToken, DBFirst
      <3>2. StoresInv' /\ Contract!Reads(Contract!Say("nil"))
        BY <3>1, SaysTyped, DatabaseReads
      <3>3. token = None \/ carrying = {}
        BY <1>2, <2>1
      <3> QED BY <3>2, <3>3 DEF Contract!GetPaymentByToken
    <2>2. CASE GetPaymentByToken(token) # {}
      <3>1. PICK o \in GetPaymentByToken(token) : DBReads(Contract!SayRow(RowOf(o)))
        BY <2>2 DEF DBGetPaymentByToken, DBFirst
      <3>2. o \in Orders /\ payments[o] # None
        BY <3>1 DEF GetPaymentByToken
      <3>3. RowOf(o) \in Row /\ Rows[o] = RowOf(o)
        BY <1>1, <3>2, DatabaseView
      <3>4. Answered(Contract!SayRow(RowOf(o)))
        BY <3>3, SaysTyped
      <3>5. StoresInv' /\ Contract!Reads(Contract!SayRow(Rows[o]))
        BY <3>1, <3>3, <3>4, DatabaseReads
      <3>6. token # None /\ o \in carrying
        BY <1>2, <3>1, <3>2
      <3> QED BY <3>5, <3>6 DEF Contract!GetPaymentByToken
    <2> QED BY <2>1, <2>2
  <1> QED BY <1>3 DEF Contract!Next

LEMMA DBGetTransactionIs ==
    ASSUME StoresInv, NEW o \in Orders, DBGetTransaction(o)
    PROVE  StoresInv' /\ Contract!Next
  <1>1. backend # "memory"
    BY DEF DBGetTransaction, DBReads, DBAnswers
  <1>2. /\ GetTransaction(o) = {} <=> History[o] = <<>>
        /\ \A t \in GetTransaction(o) : t.ref \in Sessions /\ t.ref = Contract!Last(History[o])
    BY <1>1, DatabaseView, LatestIs DEF StoresInv, TypeOK
  <1>3. StoresInv' /\ Contract!GetTransaction(o)
    <2>1. CASE GetTransaction(o) = {}
      <3>1. DBReads(Contract!Say("nil"))
        BY <2>1 DEF DBGetTransaction
      <3>2. StoresInv' /\ Contract!Reads(Contract!Say("nil"))
        BY <3>1, SaysTyped, DatabaseReads
      <3> QED BY <1>2, <2>1, <3>2 DEF Contract!GetTransaction
    <2>2. CASE GetTransaction(o) # {}
      <3>1. PICK t \in GetTransaction(o) : DBReads(Contract!SayRefs(<<t.ref>>))
        BY <2>2 DEF DBGetTransaction
      <3>2. <<t.ref>> \in Seq(Sessions)
        BY <1>2, <3>1
      <3>3. Answered(Contract!SayRefs(<<t.ref>>))
        BY <3>2, SaysTyped
      <3>4. StoresInv' /\ Contract!Reads(Contract!SayRefs(<<t.ref>>))
        BY <3>1, <3>3, DatabaseReads
      <3>5. Contract!Reads(Contract!SayRefs(<<Contract!Last(History[o])>>)) /\ History[o] # <<>>
        BY <1>2, <2>2, <3>1, <3>4
      <3> QED BY <3>4, <3>5 DEF Contract!GetTransaction
    <2> QED BY <2>1, <2>2
  <1> QED BY <1>3 DEF Contract!Next

LEMMA DBListTransactionsIs ==
    ASSUME StoresInv, NEW o \in Orders, DBListTransactions(o)
    PROVE  StoresInv' /\ Contract!Next
  <1>1. backend # "memory"
    BY DEF DBListTransactions, DBReads, DBAnswers
  <1>2. /\ References(ListTransactions(o)) = Contract!Reverse(History[o])
        /\ References(ListTransactions(o)) \in Seq(Sessions)
    BY <1>1, DatabaseView, ListingIs DEF StoresInv, TypeOK
  <1>3. DBReads(Contract!SayRefs(References(ListTransactions(o))))
    BY DEF DBListTransactions
  <1>4. StoresInv' /\ Contract!Reads(Contract!SayRefs(References(ListTransactions(o))))
    BY <1>2, <1>3, SaysTyped, DatabaseReads
  <1>5. Contract!ListTransactions(o)
    BY <1>2, <1>4 DEF Contract!ListTransactions
  <1> QED BY <1>4, <1>5 DEF Contract!Next

\* A row of payments changes.
LEMMA RowChanges ==
    ASSUME StoresInv, backend # "memory", NEW o \in Orders, NEW sp \in StoredPayment,
           sp.status \in Status, payments' = [payments EXCEPT ![o] = sp],
           UNCHANGED <<transactions, memVars, backend>>
    PROVE  /\ StoreTypeOK' /\ RefsReal' /\ StatusUsed'
           /\ Rows' = [Rows EXCEPT ![o] = [order |-> o, status |-> sp.status, token |-> sp.token]]
           /\ History' = History
  <1>1. payments \in [Orders -> StoredPayment \cup {None}]
    BY DEF StoresInv, TypeOK, StoreTypeOK
  <1>2. payments'[o] = sp /\ \A p \in Orders : p # o => payments'[p] = payments[p]
    BY <1>1
  <1>3. StoreTypeOK' /\ RefsReal'
    BY <1>1 DEF StoresInv, TypeOK, StoreTypeOK, RefsReal
  <1>4. StatusUsed'
    BY <1>2 DEF StoresInv, StatusUsed
  <1>5. Rows'[o] = [order |-> o, status |-> sp.status, token |-> sp.token]
    <2>1. sp # None
      BY NoneIsNoRow
    <2> QED BY <1>2, <2>1 DEF Rows, RowOf
  <1>6. \A p \in Orders : p # o => Rows'[p] = Rows[p]
    BY <1>2 DEF Rows, RowOf
  <1>7. Rows' = [Rows EXCEPT ![o] = [order |-> o, status |-> sp.status, token |-> sp.token]]
    BY <1>5, <1>6, RowsSet
  <1>8. History' = History
    BY TransactionsStay DEF memVars
  <1> QED BY <1>3, <1>4, <1>7, <1>8

\* A payment's status changes.
LEMMA StatusMoves ==
    ASSUME StoresInv, backend # "memory", NEW o \in Orders, NEW to \in Status,
           SetStatus(o, to), UNCHANGED <<transactions, memVars, backend>>
    PROVE  /\ StoreTypeOK' /\ RefsReal' /\ StatusUsed'
           /\ Rows[o] # None
           /\ Rows' = [Rows EXCEPT ![o] = [Rows[o] EXCEPT !.status = to]]
           /\ History' = History
  <1>1. payments[o] # None /\ payments' = [payments EXCEPT ![o].status = to]
    BY DEF SetStatus
  <1>2. payments[o] \in StoredPayment /\ to \in Statuses
    BY <1>1, StatusAssumption DEF StoresInv, TypeOK, StoreTypeOK
  <1>3. PICK sp : sp = [payments[o] EXCEPT !.status = to]
    OBVIOUS
  <1>4. sp \in StoredPayment /\ sp.status = to /\ sp.token = payments[o].token
    BY <1>2, <1>3 DEF StoredPayment
  <1>5. payments' = [payments EXCEPT ![o] = sp]
    BY <1>1, <1>3
  <1>6. /\ StoreTypeOK' /\ RefsReal' /\ StatusUsed'
        /\ Rows' = [Rows EXCEPT ![o] = [order |-> o, status |-> sp.status, token |-> sp.token]]
        /\ History' = History
    BY <1>4, <1>5, RowChanges
  <1>7. Rows[o] # None /\ Rows[o] = RowOf(o)
    BY <1>1, DatabaseView
  <1>8. [order |-> o, status |-> sp.status, token |-> sp.token] = [Rows[o] EXCEPT !.status = to]
    BY <1>4, <1>7 DEF RowOf
  <1> QED BY <1>6, <1>7, <1>8

LEMMA DBSavePaymentIs ==
    ASSUME StoresInv, NEW row \in Row, DBSavePayment(row)
    PROVE  StoresInv' /\ Contract!Next
  <1>1. /\ backend # "memory" /\ UNCHANGED <<memVars, backend, held, transactions, half>>
        /\ answer' \in {Contract!Say("ok"), Contract!Say("error")}
        /\ payments' = [payments EXCEPT ![row.order] = [status |-> row.status, token |-> row.token]]
    BY DEF DBSavePayment, DBAnswers, SavePayment
  <1>2. PICK sp : sp = [status |-> row.status, token |-> row.token]
    OBVIOUS
  <1>3. row.order \in Orders /\ sp \in StoredPayment /\ sp.status \in Status
    BY <1>2, StatusAssumption DEF Row, StoredPayment
  <1>4. row = [order |-> row.order, status |-> sp.status, token |-> sp.token]
    BY <1>2 DEF Row
  <1>5. /\ StoreTypeOK' /\ RefsReal' /\ StatusUsed'
        /\ Rows' = [Rows EXCEPT ![row.order] = row]
        /\ History' = History
    BY <1>1, <1>2, <1>3, <1>4, RowChanges
  <1>6. StoresInv'
    <2>1. Answered(answer') /\ half' \in [Callers -> Begun \cup {None}]
      BY <1>1, SaysTyped DEF StoresInv, TypeOK
    <2> QED BY <1>1, <1>5, <2>1, DatabaseKeeps
  <1>7. Contract!SavePayment(row.order)
    BY <1>1, <1>5 DEF Contract!SavePayment, Contract!Answers, Contract!Row, Row
  <1> QED BY <1>3, <1>6, <1>7 DEF Contract!Next

\* SetStatus in one statement, whatever it answers.
LEMMA SetStatusOnce ==
    ASSUME StoresInv, backend # "memory", NEW o \in Orders, NEW to \in Status,
           payments[o] # None, SetStatus(o, to), UNCHANGED transactions,
           DBAnswers(Contract!Say("ok")), UNCHANGED half
    PROVE  StoresInv' /\ Contract!Next
  <1>1. /\ UNCHANGED <<memVars, backend, held>>
        /\ answer' \in {Contract!Say("ok"), Contract!Say("error")}
    BY DEF DBAnswers
  <1>2. /\ StoreTypeOK' /\ RefsReal' /\ StatusUsed' /\ Rows[o] # None
        /\ Rows' = [Rows EXCEPT ![o] = [Rows[o] EXCEPT !.status = to]]
        /\ History' = History
    BY <1>1, StatusMoves
  <1>3. StoresInv'
    <2>1. Answered(answer') /\ half' \in [Callers -> Begun \cup {None}]
      BY <1>1, SaysTyped DEF StoresInv, TypeOK
    <2> QED BY <1>1, <1>2, <2>1, DatabaseKeeps
  <1>4. Contract!SetStatus(o, to)
    BY <1>1, <1>2 DEF Contract!SetStatus, Contract!Writes, Contract!Answers
  <1> QED BY <1>3, <1>4 DEF Contract!Next

LEMMA DBSetStatusIs ==
    ASSUME StoresInv, NEW c \in Callers, half[c] = None, NEW o \in Orders, NEW to \in Status,
           DBSetStatus(c, o, to)
    PROVE  StoresInv' /\ Contract!Next
  <1>1. backend # "memory" /\ UNCHANGED <<memVars, backend, held, transactions>>
    BY DEF DBSetStatus, DBAnswers
  <1>2. payments[o] = None => UNCHANGED payments
    BY DEF DBSetStatus, SetWhereFound
  <1>3. payments[o] # None => SetStatus(o, to)
    BY DEF DBSetStatus, SetWhereFound
  <1>4. CASE 1 \in RowsAffected(o, to) /\ DBAnswers(Contract!Say("ok")) /\ UNCHANGED half
    <2>1. payments[o] # None
      BY <1>4 DEF RowsAffected
    <2> QED BY <1>1, <1>3, <1>4, <2>1, SetStatusOnce
  <1>5. CASE DBAnswers(Contract!Say("error")) /\ UNCHANGED half
    <2>1. CASE payments[o] = None
      <3>1. DBFails
        BY <1>1, <1>2, <1>5, <2>1 DEF DBFails, DBReads, storeVars
      <3> QED BY <3>1, DBFailsIs
    <2>2. CASE payments[o] # None
      <3>1. DBAnswers(Contract!Say("ok"))
        BY <1>5 DEF DBAnswers
      <3> QED BY <1>1, <1>3, <1>5, <2>2, <3>1, SetStatusOnce
    <2> QED BY <2>1, <2>2
  <1>6. CASE /\ 0 \in RowsAffected(o, to)
             /\ half' = [half EXCEPT ![c] =
                   [order |-> o, found |-> IF payments[o] = None THEN "missed" ELSE "applied"]]
             /\ UNCHANGED answer
    <2>1. half' \in [Callers -> Begun \cup {None}] /\ Answered(answer')
      BY <1>6 DEF StoresInv, TypeOK, Begun, Answered
    <2>2. CASE payments[o] = None
      <3>1. UNCHANGED storeVars
        BY <1>1, <1>2, <2>2 DEF storeVars
      <3>2. StoresInv'
        BY <1>1, <2>1, <3>1, ReadsKeep
      <3>3. Rows' = Rows /\ History' = History /\ Rows[o] = None
        BY <1>1, <2>2, <3>1, ViewStays, DatabaseView
      <3>4. half' = [half EXCEPT ![c] = [order |-> o, found |-> "missed"]]
        BY <1>6, <2>2
      <3>5. Contract!SetStatusBegins(c, o, to)
        BY <1>6, <3>3, <3>4 DEF Contract!SetStatusBegins
      <3> QED BY <3>2, <3>5 DEF Contract!Next
    <2>3. CASE payments[o] # None
      <3>1. /\ StoreTypeOK' /\ RefsReal' /\ StatusUsed' /\ Rows[o] # None
            /\ Rows' = [Rows EXCEPT ![o] = [Rows[o] EXCEPT !.status = to]]
            /\ History' = History
        BY <1>1, <1>3, <2>3, StatusMoves
      <3>2. StoresInv'
        BY <1>1, <2>1, <3>1, DatabaseKeeps
      <3>3. half' = [half EXCEPT ![c] = [order |-> o, found |-> "applied"]]
        BY <1>6, <2>3
      <3>4. Rows' = [Rows EXCEPT ![o].status = to]
        BY <3>1
      <3>5. Contract!SetStatusBegins(c, o, to)
        BY <1>6, <3>1, <3>3, <3>4 DEF Contract!SetStatusBegins
      <3> QED BY <3>2, <3>5 DEF Contract!Next
    <2> QED BY <2>2, <2>3
  <1> QED BY <1>4, <1>5, <1>6 DEF DBSetStatus

LEMMA DBSetStatusLooksIs ==
    ASSUME StoresInv, NEW c \in Callers, DBSetStatusLooks(c)
    PROVE  StoresInv' /\ Contract!Next
  <1> DEFINE o == half[c].order
             a == Contract!Say(IF GetPayment(o) = {} THEN "not found" ELSE "ok")
  <1>1. /\ backend # "memory" /\ UNCHANGED <<memVars, backend, held, storeVars>>
        /\ half[c] # None /\ half' = [half EXCEPT ![c] = None]
        /\ answer' \in {a, Contract!Say("error")}
    BY DEF DBSetStatusLooks, DBAnswers
  <1>2. o \in Orders /\ half' \in [Callers -> Begun \cup {None}]
    BY <1>1 DEF StoresInv, TypeOK, Begun
  <1>3. GetPayment(o) = {} <=> Rows[o] = None
    <2>1. Rows[o] # None <=> payments[o] # None
      BY <1>1, <1>2, DatabaseView
    <2> QED BY <1>2, <2>1 DEF GetPayment
  <1>4. StoresInv'
    <2>1. Answered(answer')
      BY <1>1, SaysTyped
    <2> QED BY <1>1, <1>2, <2>1, ReadsKeep
  <1>5. Rows' = Rows /\ History' = History
    BY <1>1, ViewStays
  <1>6. answer' \in {IF Rows[o] = None THEN Contract!Say("not found") ELSE Contract!Say("ok"),
                     Contract!Say("error")}
    BY <1>1, <1>3
  <1>7. Contract!SetStatusReturns(c)
    BY <1>1, <1>5, <1>6 DEF Contract!SetStatusReturns, Contract!Answers
  <1> QED BY <1>4, <1>7 DEF Contract!Next

LEMMA DBTransitionStatusIs ==
    ASSUME StoresInv, NEW o \in Orders, NEW from \in Status, NEW to \in Status, from # to,
           DBTransitionStatus(o, from, to)
    PROVE  StoresInv' /\ Contract!Next
  <1>1. backend # "memory" /\ UNCHANGED <<memVars, backend, held, transactions, half>>
    BY DEF DBTransitionStatus, DBAnswers
  <1>2. InStatus(o, from) <=> Rows[o] # None /\ Rows[o].status = from
    BY <1>1, DatabaseView DEF InStatus
  <1>3. StoresInv' /\ Contract!TransitionStatus(o, from, to)
    <2>1. CASE TransitionStatus(o, from, to) /\ DBAnswers(Contract!Say("yes"))
      <3>1. SetStatus(o, to)
        BY <2>1 DEF TransitionStatus, InStatus, SetStatus
      <3>2. /\ StoreTypeOK' /\ RefsReal' /\ StatusUsed'
            /\ Rows' = [Rows EXCEPT ![o] = [Rows[o] EXCEPT !.status = to]]
            /\ History' = History
        BY <1>1, <3>1, StatusMoves
      <3>3. Rows[o] # None /\ Rows[o].status = from
        BY <1>2, <2>1 DEF TransitionStatus
      <3>4. answer' \in {Contract!Say("yes"), Contract!Say("error")}
        BY <2>1 DEF DBAnswers
      <3>5. Answered(answer') /\ half' \in [Callers -> Begun \cup {None}]
        BY <1>1, <3>4, SaysTyped DEF StoresInv, TypeOK
      <3>6. StoresInv'
        BY <1>1, <3>2, <3>5, DatabaseKeeps
      <3>7. Contract!TransitionStatus(o, from, to)
        BY <1>1, <3>2, <3>3, <3>4 DEF Contract!TransitionStatus, Contract!Writes, Contract!Answers
      <3> QED BY <3>6, <3>7
    <2>2. CASE ~InStatus(o, from) /\ UNCHANGED payments /\ DBAnswers(Contract!Say("no"))
      <3>1. DBReads(Contract!Say("no"))
        BY <1>1, <2>2 DEF DBReads, storeVars
      <3>2. StoresInv' /\ Contract!Reads(Contract!Say("no"))
        BY <3>1, SaysTyped, DatabaseReads
      <3> QED BY <1>2, <2>2, <3>2 DEF Contract!TransitionStatus
    <2> QED BY <2>1, <2>2 DEF DBTransitionStatus
  <1> QED BY <1>3 DEF Contract!Next

LEMMA DBSaveTransactionIs ==
    ASSUME StoresInv, NEW o \in Orders, NEW ref \in Sessions, DBSaveTransaction(o, ref)
    PROVE  StoresInv' /\ Contract!Next
  <1>1. /\ backend # "memory" /\ UNCHANGED <<memVars, backend, held, payments, half>>
        /\ answer' \in {Contract!Say("ok"), Contract!Say("error")}
        /\ transactions' = Append(transactions, [order |-> o, ref |-> ref])
    BY DEF DBSaveTransaction, DBAnswers, SaveTransaction
  <1>2. RefsReal' /\ \A p \in Orders : Listed(p)' = IF p = o THEN Append(Listed(p), ref) ELSE Listed(p)
    BY <1>1, SaveLists DEF StoresInv, TypeOK
  <1>3. StoreTypeOK' /\ StatusUsed'
    <2>1. [order |-> o, ref |-> ref] \in Transaction
      BY DEF Transaction
    <2>2. transactions' \in Seq(Transaction)
      BY <1>1, <2>1, AppendProperties DEF StoresInv, TypeOK, StoreTypeOK
    <2> QED BY <1>1, <2>2 DEF StoresInv, TypeOK, StoreTypeOK, StatusUsed
  <1>4. StoresInv'
    <2>1. Answered(answer') /\ half' \in [Callers -> Begun \cup {None}]
      BY <1>1, SaysTyped DEF StoresInv, TypeOK
    <2> QED BY <1>1, <1>2, <1>3, <2>1, DatabaseKeeps
  <1>5. Rows' = Rows
    BY <1>1, PaymentsStay
  <1>6. \A p \in Orders : History[p] = Listed(p) /\ History'[p] = Listed(p)'
    BY <1>1 DEF History, Listed
  <1>7. History' = [History EXCEPT ![o] = Append(History[o], ref)]
    BY <1>2, <1>6, HistorySet
  <1>8. Contract!SaveTransaction(o, ref)
    BY <1>1, <1>5, <1>7 DEF Contract!SaveTransaction, Contract!Answers
  <1> QED BY <1>4, <1>8 DEF Contract!Next

-----------------------------------------------------------------------------
(* The same of the example's store.                                         *)

LEMMA MemoryReads ==
    ASSUME StoresInv, NEW a, Answered(a), MemReads(a)
    PROVE  StoresInv' /\ Contract!Reads(a)
  <1>1. answer' = a /\ UNCHANGED <<memVars, backend, held, storeVars, half>>
    BY DEF MemReads, MemAnswers
  <1>2. half' \in [Callers -> Begun \cup {None}]
    BY <1>1 DEF StoresInv, TypeOK
  <1>3. StoresInv'
    BY <1>1, <1>2, ReadsKeep
  <1>4. Rows' = Rows /\ History' = History
    BY <1>1, ViewStays
  <1> QED BY <1>1, <1>3, <1>4 DEF Contract!Reads, Contract!Answers

\* A lookup hands out an address; what is there is the payment.
LEMMA MemPointsIs ==
    ASSUME StoresInv, NEW address \in Addresses \cup {None}, MemPoints(address),
           address # None => cells[address] # None
    PROVE  /\ StoresInv'
           /\ Contract!Reads(IF address = None THEN Contract!Say("nil") ELSE Contract!SayRow(cells[address]))
  <1>1. CASE address = None
    <2>1. MemReads(Contract!Say("nil"))
      BY <1>1 DEF MemPoints
    <2> QED BY <1>1, <2>1, SaysTyped, MemoryReads
  <1>2. CASE address # None
    <2>1. /\ answer' = Contract!SayRow(cells[address])
          /\ UNCHANGED <<storeVars, memVars, backend, half>>
          /\ held' \in {held, [at |-> address, order |-> cells[address].order,
                               token |-> cells[address].token]}
      BY <1>2 DEF MemPoints, MemAnswers
    <2>2. cells[address] \in Row /\ cells[address] # None /\ address \in Addresses
      BY <1>2 DEF StoresInv, TypeOK
    <2>3. Answered(answer')
      BY <2>1, <2>2, SaysTyped
    <2>4. Rows' = Rows /\ History' = History
      BY <2>1, ViewStays
    <2>5. Contract!Reads(Contract!SayRow(cells[address]))
      BY <2>1, <2>4 DEF Contract!Reads, Contract!Answers
    <2>6. held' \in Looked \cup {None}
      <3>1. held \in Looked \cup {None}
        BY DEF StoresInv, TypeOK
      <3>2. cells[address].order \in Orders /\ cells[address].token \in Sessions \cup {None}
        BY <2>2 DEF Row
      <3>3. [at |-> address, order |-> cells[address].order, token |-> cells[address].token] \in Looked
        BY <2>2, <3>2 DEF Looked
      <3> QED BY <2>1, <3>1, <3>3
    <2>7. HeldPayment'
      BY <2>1, <2>2 DEF StoresInv, HeldPayment, memVars
    <2>8. MapsAgree' /\ RefsReal' /\ StatusUsed' /\ StoreTypeOK'
      BY <2>1 DEF StoresInv, TypeOK, StoreTypeOK, MapsAgree, RefsReal, StatusUsed, memVars, storeVars
    <2>9. TypeOK'
      BY <2>1, <2>3, <2>6, <2>8 DEF StoresInv, TypeOK, Answered, memVars
    <2> QED BY <1>2, <2>5, <2>7, <2>8, <2>9 DEF StoresInv
  <1> QED BY <1>1, <1>2

LEMMA MemGetPaymentIs ==
    ASSUME StoresInv, NEW o \in Orders, MemGetPayment(o)
    PROVE  StoresInv' /\ Contract!Next
  <1>1. backend = "memory" /\ MemPoints(byOrder[o])
    BY DEF MemGetPayment, MemPoints, MemReads, MemAnswers, Mem!GetPayment
  <1>2. byOrder[o] \in Addresses \cup {None} /\ (byOrder[o] # None => cells[byOrder[o]] # None)
    BY DEF StoresInv, TypeOK, MapsAgree
  <1>3. /\ StoresInv'
        /\ Contract!Reads(IF byOrder[o] = None THEN Contract!Say("nil")
                          ELSE Contract!SayRow(cells[byOrder[o]]))
    BY <1>1, <1>2, MemPointsIs
  <1>4. (IF byOrder[o] = None THEN Contract!Say("nil") ELSE Contract!SayRow(cells[byOrder[o]]))
          = IF Rows[o] = None THEN Contract!Say("nil") ELSE Contract!SayRow(Rows[o])
    BY <1>1, MemoryView
  <1>5. Contract!GetPayment(o)
    BY <1>3, <1>4 DEF Contract!GetPayment
  <1> QED BY <1>3, <1>5 DEF Contract!Next

LEMMA MemGetPaymentByTokenIs ==
    ASSUME StoresInv, NEW token \in Sessions \cup {None}, MemGetPaymentByToken(token)
    PROVE  StoresInv' /\ Contract!Next
  <1> DEFINE address == IF token = None THEN None ELSE byToken[token]
             carrying == {o \in Orders : Rows[o] # None /\ Rows[o].token = token}
  <1>1. backend = "memory" /\ MemPoints(address)
    BY DEF MemGetPaymentByToken, MemPoints, MemReads, MemAnswers, Mem!GetPaymentByToken
  <1>2. /\ address \in Addresses \cup {None}
        /\ address # None => /\ cells[address] # None /\ cells[address].token = token /\ token # None
                             /\ byOrder[cells[address].order] = address
    BY DEF StoresInv, TypeOK, MapsAgree
  <1>3. /\ StoresInv'
        /\ Contract!Reads(IF address = None THEN Contract!Say("nil") ELSE Contract!SayRow(cells[address]))
    BY <1>1, <1>2, MemPointsIs
  <1>4. Contract!GetPaymentByToken(token)
    <2>1. CASE address = None
      <3>1. token = None \/ carrying = {}
        <4>1. ASSUME token # None, NEW o \in Orders, Rows[o] # None, Rows[o].token = token PROVE FALSE
          <5>1. byOrder[o] # None /\ cells[byOrder[o]].token = token
            BY <1>1, <4>1, MemoryView
          <5>2. byToken[token] # None
            BY <4>1, <5>1 DEF StoresInv, MapsAgree
          <5> QED BY <2>1, <4>1, <5>2
        <4> QED BY <4>1
      <3>2. Contract!Reads(Contract!Say("nil"))
        BY <1>3, <2>1
      <3> QED BY <3>1, <3>2 DEF Contract!GetPaymentByToken
    <2>2. CASE address # None
      <3>1. PICK o : o = cells[address].order
        OBVIOUS
      <3>2. address \in Addresses /\ cells[address] \in Row
        BY <1>2, <2>2 DEF StoresInv, TypeOK
      <3>3. o \in Orders /\ byOrder[o] = address
        BY <1>2, <2>2, <3>1, <3>2 DEF Row
      <3>4. Rows[o] = cells[address] /\ Rows[o] # None
        BY <1>1, <2>2, <3>3, MemoryView
      <3>5. token # None /\ o \in carrying
        BY <1>2, <2>2, <3>3, <3>4
      <3>6. Contract!Reads(Contract!SayRow(Rows[o]))
        BY <1>3, <2>2, <3>4
      <3> QED BY <3>5, <3>6 DEF Contract!GetPaymentByToken
    <2> QED BY <2>1, <2>2
  <1> QED BY <1>3, <1>4 DEF Contract!Next

\* An operation of the memory store that writes.
LEMMA MemoryKeeps ==
    ASSUME StoresInv, NEW a, Answered(a), MemWrites(a),
           cells' \in [Addresses -> Row \cup {None}],
           byOrder' \in [Orders -> Addresses \cup {None}],
           byToken' \in [Sessions -> Addresses \cup {None}],
           txs' \in [Orders -> Seq(Sessions)],
           MapsAgree', HeldPayment'
    PROVE  StoresInv'
  <1>1. answer' = a /\ UNCHANGED <<storeVars, backend, half, held>>
    BY DEF MemWrites, MemAnswers
  <1>2. StoreTypeOK' /\ RefsReal' /\ StatusUsed'
    BY <1>1 DEF StoresInv, TypeOK, StoreTypeOK, RefsReal, StatusUsed, storeVars
  <1>3. backend' \in Backends /\ held' \in Looked \cup {None} /\ half' \in [Callers -> Begun \cup {None}]
    BY <1>1 DEF StoresInv, TypeOK
  <1>4. TypeOK'
    BY <1>1, <1>2, <1>3 DEF TypeOK, Answered
  <1> QED BY <1>2, <1>4 DEF StoresInv

LEMMA MemSavePaymentIs ==
    ASSUME StoresInv, "memory" \notin Retoken, NEW row \in Row, MayBeSaved(row), MemSavePayment(row)
    PROVE  StoresInv' /\ Contract!Next
  <1>1. /\ backend = "memory" /\ UNCHANGED <<storeVars, backend, half, held>>
        /\ answer' = Contract!Say("ok")
        /\ Mem!SavePayment(row, Held) /\ MemWrites(Contract!Say("ok"))
    BY DEF MemSavePayment, MemWrites, MemAnswers
  <1>2. row.order \in Orders
    BY DEF Row
  <1>3. byOrder[row.order] # None => cells[byOrder[row.order]].token \in {None, row.token}
    <2>1. byOrder[row.order] # None => Rows[row.order] = cells[byOrder[row.order]] /\ Rows[row.order] # None
      BY <1>1, <1>2, MemoryView
    <2> QED BY <1>1, <2>1 DEF MayBeSaved
  <1>4. TypeOK /\ MapsAgree /\ HeldPayment
    BY DEF StoresInv
  <1>5. /\ cells' \in [Addresses -> Row \cup {None}]
        /\ byOrder' \in [Orders -> Addresses \cup {None}]
        /\ byToken' \in [Sessions -> Addresses \cup {None}]
        /\ txs' = txs
        /\ MapsAgree' /\ HeldPayment'
        /\ \A o \in Orders : IF o = row.order THEN byOrder'[o] # None /\ cells'[byOrder'[o]] = row
                             ELSE /\ byOrder'[o] = byOrder[o]
                                  /\ byOrder[o] # None => cells'[byOrder[o]] = cells[byOrder[o]]
    BY <1>1, <1>3, <1>4, StoreKeeps
  <1>6. StoresInv'
    <2>1. txs' \in [Orders -> Seq(Sessions)]
      BY <1>5 DEF StoresInv, TypeOK
    <2> QED BY <1>1, <1>5, <2>1, SaysTyped, MemoryKeeps
  <1>7. Rows' = [Rows EXCEPT ![row.order] = row]
    <2>1. \A o \in Orders : /\ Rows[o] = IF byOrder[o] = None THEN None ELSE cells[byOrder[o]]
                            /\ Rows'[o] = IF byOrder'[o] = None THEN None ELSE cells'[byOrder'[o]]
      BY <1>1 DEF Rows
    <2>2. Rows'[row.order] = row
      BY <1>2, <1>5, <2>1
    <2>3. \A p \in Orders : p # row.order => Rows'[p] = Rows[p]
      BY <1>5, <2>1
    <2> QED BY <1>2, <2>2, <2>3, RowsSet
  <1>8. History' = History
    BY <1>1, <1>5, TransactionsStay DEF storeVars
  <1>9. Contract!SavePayment(row.order)
    BY <1>1, <1>7, <1>8 DEF Contract!SavePayment, Contract!Answers, Contract!Row, Row
  <1> QED BY <1>2, <1>6, <1>9 DEF Contract!Next

\* A payment's status changes in memory.
LEMMA MemoryMoves ==
    ASSUME StoresInv, backend = "memory", NEW o \in Orders, NEW to \in Status,
           NEW a, Answered(a), Mem!SetStatus(o, to), MemWrites(a)
    PROVE  /\ StoresInv' /\ History' = History /\ Rows[o] # None
           /\ Rows' = [Rows EXCEPT ![o] = [Rows[o] EXCEPT !.status = to]]
           /\ answer' = a /\ UNCHANGED half
  <1>1. answer' = a /\ UNCHANGED <<storeVars, backend, half, held>>
    BY DEF MemWrites, MemAnswers
  <1>2. TypeOK /\ MapsAgree /\ HeldPayment
    BY DEF StoresInv
  <1>3. /\ cells' \in [Addresses -> Row \cup {None}]
        /\ UNCHANGED <<byOrder, byToken, txs>>
        /\ MapsAgree' /\ HeldPayment'
        /\ byOrder[o] # None
        /\ cells'[byOrder[o]] = [cells[byOrder[o]] EXCEPT !.status = to]
        /\ \A p \in Orders : p # o /\ byOrder[p] # None => cells'[byOrder[p]] = cells[byOrder[p]]
    BY <1>1, <1>2, MoveKeeps
  <1>4. StoresInv'
    <2>1. /\ byOrder' \in [Orders -> Addresses \cup {None}]
          /\ byToken' \in [Sessions -> Addresses \cup {None}]
          /\ txs' \in [Orders -> Seq(Sessions)]
      BY <1>2, <1>3 DEF TypeOK
    <2> QED BY <1>3, <2>1, MemoryKeeps
  <1>5. \A p \in Orders : /\ Rows[p] = IF byOrder[p] = None THEN None ELSE cells[byOrder[p]]
                          /\ Rows'[p] = IF byOrder[p] = None THEN None ELSE cells'[byOrder[p]]
    BY <1>1, <1>3 DEF Rows
  <1>6. Rows[o] = cells[byOrder[o]] /\ Rows'[o] = [Rows[o] EXCEPT !.status = to]
    BY <1>3, <1>5
  <1>7. \A p \in Orders : p # o => Rows'[p] = Rows[p]
    BY <1>3, <1>5
  <1>8. Rows' = [Rows EXCEPT ![o] = [Rows[o] EXCEPT !.status = to]]
    BY <1>6, <1>7, RowsSet
  <1>9. History' = History
    BY <1>1, <1>3, TransactionsStay DEF storeVars
  <1>10. Rows[o] # None
    BY <1>3, MemoryView
  <1> QED BY <1>1, <1>4, <1>8, <1>9, <1>10

LEMMA MemSetStatusIs ==
    ASSUME StoresInv, NEW o \in Orders, NEW to \in Status, MemSetStatus(o, to)
    PROVE  StoresInv' /\ Contract!Next
  <1>1. backend = "memory"
    BY DEF MemSetStatus, MemReads, MemWrites, MemAnswers
  <1>2. StoresInv' /\ Contract!SetStatus(o, to)
    <2>1. CASE byOrder[o] = None
      <3>1. MemReads(Contract!Say("not found")) /\ Rows[o] = None
        BY <1>1, <2>1, MemoryView DEF MemSetStatus
      <3>2. StoresInv' /\ Contract!Reads(Contract!Say("not found"))
        BY <3>1, SaysTyped, MemoryReads
      <3> QED BY <3>1, <3>2 DEF Contract!SetStatus
    <2>2. CASE byOrder[o] # None
      <3>1. Mem!SetStatus(o, to) /\ MemWrites(Contract!Say("ok"))
        BY <2>2 DEF MemSetStatus
      <3>2. /\ StoresInv' /\ History' = History /\ Rows[o] # None
            /\ Rows' = [Rows EXCEPT ![o] = [Rows[o] EXCEPT !.status = to]]
            /\ answer' = Contract!Say("ok") /\ UNCHANGED half
        BY <1>1, <3>1, SaysTyped, MemoryMoves
      <3> QED BY <3>2 DEF Contract!SetStatus, Contract!Writes, Contract!Answers
    <2> QED BY <2>1, <2>2
  <1> QED BY <1>2 DEF Contract!Next

LEMMA MemTransitionStatusIs ==
    ASSUME StoresInv, NEW o \in Orders, NEW from \in Status, NEW to \in Status, from # to,
           MemTransitionStatus(o, from, to)
    PROVE  StoresInv' /\ Contract!Next
  <1>1. backend = "memory"
    BY DEF MemTransitionStatus, MemReads, MemWrites, MemAnswers
  <1>2. Mem!InStatus(o, from) <=> Rows[o] # None /\ Rows[o].status = from
    BY <1>1, MemoryView DEF Mem!InStatus
  <1>3. StoresInv' /\ Contract!TransitionStatus(o, from, to)
    <2>1. CASE Mem!TransitionStatus(o, from, to) /\ MemWrites(Contract!Say("yes"))
      <3>1. Mem!InStatus(o, from) /\ Mem!SetStatus(o, to)
        BY <2>1 DEF Mem!TransitionStatus
      <3>2. /\ StoresInv' /\ History' = History
            /\ Rows' = [Rows EXCEPT ![o] = [Rows[o] EXCEPT !.status = to]]
            /\ answer' = Contract!Say("yes") /\ UNCHANGED half
        BY <1>1, <2>1, <3>1, SaysTyped, MemoryMoves
      <3> QED BY <1>2, <3>1, <3>2 DEF Contract!TransitionStatus, Contract!Writes, Contract!Answers
    <2>2. CASE ~Mem!InStatus(o, from) /\ MemReads(Contract!Say("no"))
      <3>1. StoresInv' /\ Contract!Reads(Contract!Say("no"))
        BY <2>2, SaysTyped, MemoryReads
      <3> QED BY <1>2, <2>2, <3>1 DEF Contract!TransitionStatus
    <2> QED BY <2>1, <2>2 DEF MemTransitionStatus
  <1> QED BY <1>3 DEF Contract!Next

LEMMA MemSaveTransactionIs ==
    ASSUME StoresInv, NEW o \in Orders, NEW ref \in Sessions, MemSaveTransaction(o, ref)
    PROVE  StoresInv' /\ Contract!Next
  <1>1. /\ backend = "memory" /\ UNCHANGED <<storeVars, backend, half, held, cells, byOrder, byToken>>
        /\ answer' = Contract!Say("ok") /\ MemWrites(Contract!Say("ok"))
        /\ txs' = [txs EXCEPT ![o] = Append(@, ref)]
    BY DEF MemSaveTransaction, MemWrites, MemAnswers, Mem!SaveTransaction
  <1>2. txs \in [Orders -> Seq(Sessions)]
    BY DEF StoresInv, TypeOK
  <1>3. txs'[o] = Append(txs[o], ref) /\ \A p \in Orders : p # o => txs'[p] = txs[p]
    BY <1>1, <1>2
  <1>4. Append(txs[o], ref) \in Seq(Sessions)
    BY <1>2, AppendProperties
  <1>5. StoresInv'
    <2>1. txs' \in [Orders -> Seq(Sessions)]
      BY <1>1, <1>2, <1>4
    <2>2. /\ cells' \in [Addresses -> Row \cup {None}]
          /\ byOrder' \in [Orders -> Addresses \cup {None}]
          /\ byToken' \in [Sessions -> Addresses \cup {None}]
      BY <1>1 DEF StoresInv, TypeOK
    <2>3. MapsAgree' /\ HeldPayment'
      BY <1>1 DEF StoresInv, MapsAgree, HeldPayment
    <2> QED BY <1>1, <2>1, <2>2, <2>3, SaysTyped, MemoryKeeps
  <1>6. \A p \in Orders : History[p] = txs[p] /\ History'[p] = txs'[p]
    BY <1>1 DEF History
  <1>7. History' = [History EXCEPT ![o] = Append(History[o], ref)]
    BY <1>3, <1>6, HistorySet
  <1>8. Rows' = Rows
    BY <1>1 DEF Rows, RowOf, storeVars
  <1>9. Contract!SaveTransaction(o, ref)
    BY <1>1, <1>7, <1>8 DEF Contract!SaveTransaction, Contract!Answers
  <1> QED BY <1>5, <1>9 DEF Contract!Next

LEMMA MemGetTransactionIs ==
    ASSUME StoresInv, NEW o \in Orders, MemGetTransaction(o)
    PROVE  StoresInv' /\ Contract!Next
  <1>1. backend = "memory"
    BY DEF MemGetTransaction, MemReads, MemAnswers
  <1>2. History[o] = txs[o] /\ txs[o] \in Seq(Sessions)
    BY <1>1, MemoryView DEF StoresInv, TypeOK
  <1>3. StoresInv' /\ Contract!GetTransaction(o)
    <2>1. CASE txs[o] = <<>>
      <3>1. MemReads(Contract!Say("nil"))
        BY <2>1 DEF MemGetTransaction, Mem!GetTransaction
      <3>2. StoresInv' /\ Contract!Reads(Contract!Say("nil"))
        BY <3>1, SaysTyped, MemoryReads
      <3> QED BY <1>2, <2>1, <3>2 DEF Contract!GetTransaction
    <2>2. CASE txs[o] # <<>>
      <3>1. PICK ref : ref = txs[o][Len(txs[o])]
        OBVIOUS
      <3>2. ref \in Sessions
        <4>1. Len(txs[o]) \in 1 .. Len(txs[o])
          BY <1>2, <2>2, EmptySeq
        <4> QED BY <1>2, <3>1, <4>1, ElementOfSeq
      <3>3. Mem!Last(txs[o]) = ref /\ Contract!Last(History[o]) = ref
        BY <1>2, <3>1, Zenon DEF Mem!Last, Contract!Last
      <3>4. Mem!GetTransaction(o) = <<ref>> /\ <<ref>> # <<>>
        BY <2>2, <3>3 DEF Mem!GetTransaction
      <3>5. MemReads(Contract!SayRefs(<<ref>>))
        BY <3>4 DEF MemGetTransaction
      <3>6. <<ref>> \in Seq(Sessions)
        BY <3>2
      <3>7. Answered(Contract!SayRefs(<<ref>>))
        BY <3>6, SaysTyped
      <3>8. StoresInv' /\ Contract!Reads(Contract!SayRefs(<<ref>>))
        BY <3>5, <3>7, MemoryReads
      <3>9. Contract!Reads(Contract!SayRefs(<<Contract!Last(History[o])>>)) /\ History[o] # <<>>
        BY <1>2, <2>2, <3>3, <3>8
      <3> QED BY <3>8, <3>9 DEF Contract!GetTransaction
    <2> QED BY <2>1, <2>2
  <1> QED BY <1>3 DEF Contract!Next

LEMMA MemListTransactionsIs ==
    ASSUME StoresInv, NEW o \in Orders, MemListTransactions(o)
    PROVE  StoresInv' /\ Contract!Next
  <1>1. backend = "memory"
    BY DEF MemListTransactions, MemReads, MemAnswers
  <1>2. History[o] = txs[o] /\ txs[o] \in Seq(Sessions)
    BY <1>1, MemoryView DEF StoresInv, TypeOK
  <1>3. Mem!ListTransactions(o) = Contract!Reverse(History[o])
    BY <1>2, Zenon DEF Mem!ListTransactions, Mem!Reverse, Contract!Reverse
  <1>4. Contract!Reverse(txs[o]) \in Seq(Sessions)
    <2>1. PICK s : s = txs[o]
      OBVIOUS
    <2>2. s \in Seq(Sessions) /\ Len(s) \in Nat /\ \A i \in 1 .. Len(s) : s[(Len(s) - i) + 1] \in Sessions
      BY <1>2, <2>1
    <2>3. Contract!Reverse(s) = [i \in 1 .. Len(s) |-> s[(Len(s) - i) + 1]]
      BY Zenon DEF Contract!Reverse
    <2> QED BY <2>1, <2>2, <2>3
  <1>5. MemReads(Contract!SayRefs(Mem!ListTransactions(o)))
    BY DEF MemListTransactions
  <1>6. Answered(Contract!SayRefs(Mem!ListTransactions(o)))
    BY <1>2, <1>3, <1>4, SaysTyped
  <1>7. StoresInv' /\ Contract!Reads(Contract!SayRefs(Mem!ListTransactions(o)))
    BY <1>5, <1>6, MemoryReads
  <1>8. Contract!ListTransactions(o)
    BY <1>3, <1>7 DEF Contract!ListTransactions
  <1> QED BY <1>7, <1>8 DEF Contract!Next

-----------------------------------------------------------------------------
(* The theorems.  A payment in memory that has a token is not saved with    *)
(* another: the flow saves the token once (webshop/main.go), and the        *)
(* example's store leaves the old token's entry in its map.                 *)

LEMMA StepIs ==
    ASSUME StoresInv, "memory" \notin Retoken, Next
    PROVE  StoresInv' /\ Contract!Next
  <1>1. ASSUME NEW c \in Callers, DBSetStatusLooks(c) PROVE StoresInv' /\ Contract!Next
    BY <1>1, DBSetStatusLooksIs
  <1>2. CASE Saves
    BY <1>2, DBSavePaymentIs, MemSavePaymentIs, DBSaveTransactionIs, MemSaveTransactionIs DEF Saves
  <1>3. CASE Lookups
    BY <1>3, DBGetPaymentIs, MemGetPaymentIs, DBGetTransactionIs, MemGetTransactionIs,
       DBListTransactionsIs, MemListTransactionsIs, DBGetPaymentByTokenIs, MemGetPaymentByTokenIs
       DEF Lookups
  <1>4. CASE Moves
    BY <1>4, MemSetStatusIs, DBSetStatusIs, DBTransitionStatusIs, MemTransitionStatusIs DEF Moves
  <1>5. CASE DBFails
    BY <1>5, DBFailsIs
  <1> QED BY <1>1, <1>2, <1>3, <1>4, <1>5 DEF Next

LEMMA StutterKeeps == ASSUME StoresInv, UNCHANGED vars PROVE StoresInv' /\ UNCHANGED Contract!vars
  <1>1. UNCHANGED <<storeVars, memVars, backend, held, half, answer>>
    BY DEF vars
  <1>2. Answered(answer') /\ half' \in [Callers -> Begun \cup {None}]
    BY <1>1 DEF StoresInv, TypeOK, Answered
  <1>3. StoresInv'
    BY <1>1, <1>2, ReadsKeep
  <1>4. Rows' = Rows /\ History' = History
    BY <1>1, ViewStays
  <1> QED BY <1>1, <1>3, <1>4 DEF Contract!vars

LEMMA InitIs == Init => Contract!Init
  <1> SUFFICES ASSUME Init PROVE Contract!Init
    OBVIOUS
  <1>1. Rows = [o \in Orders |-> None]
    BY DEF Init, StoreInit, Mem!Init, Rows
  <1>2. History = [o \in Orders |-> <<>>]
    <2>1. \A o \in Orders : Recorded(o) = {}
      BY DEF Init, StoreInit, Recorded
    <2>2. Cardinality({}) = 0
      BY FS_EmptySet
    <2>3. \A o \in Orders : History[o] = <<>>
      <3>1. ASSUME NEW o \in Orders PROVE History[o] = <<>>
        <4>1. CASE backend = "memory"
          BY <4>1 DEF Init, Mem!Init, History
        <4>2. CASE backend # "memory"
          <5>1. History[o] = Listed(o)
            BY <4>2 DEF History, Listed
          <5>2. Listed(o) = [n \in 1 .. 0 |-> transactions[NthSmallest(Recorded(o), n)].ref]
            BY <2>1, <2>2, Zenon DEF Listed
          <5> QED BY <5>1, <5>2
        <4> QED BY <4>1, <4>2
      <3> QED BY <3>1
    <2> QED BY <2>3 DEF History
  <1> QED BY <1>1, <1>2 DEF Init, Contract!Init

\* The invariant holds of both stores, whatever calls interleave.
THEOREM StoresHold == ASSUME "memory" \notin Retoken PROVE Spec => []StoresInv
  <1>1. StoresInv /\ [Next]_vars => StoresInv'
    BY StepIs, StutterKeeps
  <1> QED BY InitInv, <1>1, PTL DEF Spec

\* Every state of the stores is well typed: what the maps lead to are rows, and
\* every answer is a row or references that were saved (store.go:126-162).
THEOREM StoresTypes == ASSUME "memory" \notin Retoken PROVE Spec => []TypeOK
  <1>1. StoresInv => TypeOK
    BY DEF StoresInv
  <1> QED BY StoresHold, <1>1, PTL

\* What a caller looked up stays that payment, also when another call saves it
\* again: the copy the example's SavePayment makes is why.
THEOREM HeldStays == ASSUME "memory" \notin Retoken PROVE Spec => []HeldPayment
  <1>1. StoresInv => HeldPayment
    BY DEF StoresInv
  <1> QED BY StoresHold, <1>1, PTL

\* The default stores and the example's implement the contract of store.go: each
\* call answers and changes what the interfaces promise, at one moment.
THEOREM StoresKeepContract == ASSUME "memory" \notin Retoken PROVE Spec => ContractKept
  <1>1. StoresInv /\ [Next]_vars => [Contract!Next]_(Contract!vars)
    BY StepIs, StutterKeeps
  <1> QED BY StoresHold, InitIs, <1>1, PTL DEF Spec, ContractKept, Contract!Spec

=============================================================================
