---------------------------- MODULE RegKey_proofs ----------------------------
(***************************************************************************)
(* For every tree of keys, every locked key and whatever others do         *)
(* meanwhile: what DeleteKey opened it closes, and it stays in the view it *)
(* was asked for.  Where nothing was in its way it deletes everything; it  *)
(* never says so falsely, and deletes no locked key.  For all strings: what*)
(* was written is read.                                                    *)
(***************************************************************************)
EXTENDS RegKey, FiniteSetTheorems, SequenceTheorems, WellFoundedInduction, TLAPS

-----------------------------------------------------------------------------
(* Keys closed under "the key above" stay so.                              *)

LEMMA Prefix ==
    ASSUME NEW S, NEW s \in Seq(S), NEW n \in 0..Len(s)
    PROVE  /\ SubSeq(s, 1, n) \in Seq(S)
           /\ Len(SubSeq(s, 1, n)) = n
           /\ \A i \in 1..n : SubSeq(s, 1, n)[i] = s[i]
<1>1. Len(s) \in Nat /\ n \in Int /\ n >= 0
  BY LenProperties
<1>2. \A i \in 1..n : s[i] \in S
  BY <1>1, ElementOfSeq
<1>3. n - 1 + 1 = n
  BY <1>1
<1>4. /\ SubSeq(s, 1, n) \in Seq(S)
      /\ Len(SubSeq(s, 1, n)) = IF 1 <= n THEN n - 1 + 1 ELSE 0
      /\ \A i \in 1..n - 1 + 1 : SubSeq(s, 1, n)[i] = s[1 + i - 1]
  BY <1>1, <1>2, SubSeqProperties
<1>5. \A i \in 1..n : 1 + i - 1 = i
  OBVIOUS
<1> QED BY <1>1, <1>3, <1>4, <1>5

LEMMA AddKey ==
    ASSUME NEW K \in SUBSET Paths, Closed(K), NEW p \in Paths,
           p # <<>> => SubSeq(p, 1, Len(p) - 1) \in K
    PROVE  Closed(K \cup {p})
<1> USE RegAssumption
<1> SUFFICES ASSUME NEW q \in K \cup {p}, NEW n \in 0..Len(q)
             PROVE  SubSeq(q, 1, n) \in K \cup {p}
  BY DEF Closed
<1>1. CASE q \in K
  BY <1>1 DEF Closed
<1>2. CASE q = p /\ n = Len(p)
  <2>1. SubSeq(p, 1, Len(p)) = p
    BY SubSeqFull
  <2> QED BY <1>2, <2>1
<1>3. CASE q = p /\ n < Len(p)
  <2>1. p \in Seq(NameSet) /\ Len(p) \in Nat /\ Len(p) > 0 /\ p # <<>>
    <3>1. p \in Seq(NameSet)
      OBVIOUS
    <3>2. Len(p) \in Nat
      BY <3>1, LenProperties
    <3>3. Len(p) > 0
      BY <1>3, <3>2
    <3> QED BY <3>1, <3>2, <3>3
  <2> DEFINE above == SubSeq(p, 1, Len(p) - 1)
  <2>2. /\ Len(above) = Len(p) - 1
        /\ \A i \in 1..Len(p) - 1 : above[i] = p[i]
        /\ above \in Seq(NameSet)
    <3>1. Len(p) - 1 \in 0..Len(p)
      BY <2>1
    <3> DEFINE k == Len(p) - 1
    <3>2. k \in 0..Len(p)
      BY <3>1
    <3> HIDE DEF k
    <3>3. /\ Len(SubSeq(p, 1, k)) = k
          /\ \A i \in 1..k : SubSeq(p, 1, k)[i] = p[i]
          /\ SubSeq(p, 1, k) \in Seq(NameSet)
      BY <2>1, <3>2, Prefix
    <3> QED BY <3>3 DEF k
  <2>3. above \in K
    BY <2>1
  <2> HIDE DEF above
  <2>4. SubSeq(above, 1, n) \in K
    BY <1>3, <2>1, <2>2, <2>3 DEF Closed
  <2>5. SubSeq(above, 1, n) = SubSeq(p, 1, n)
    <3>1. n \in 0..Len(p) /\ n \in 0..Len(above)
      BY <1>3, <2>1, <2>2
    <3>2. /\ SubSeq(p, 1, n) \in Seq(NameSet) /\ Len(SubSeq(p, 1, n)) = n
          /\ \A i \in 1..n : SubSeq(p, 1, n)[i] = p[i]
      BY <2>1, <3>1, Prefix
    <3>3. /\ SubSeq(above, 1, n) \in Seq(NameSet) /\ Len(SubSeq(above, 1, n)) = n
          /\ \A i \in 1..n : SubSeq(above, 1, n)[i] = above[i]
      BY <2>2, <3>1, Prefix
    <3>4. \A i \in 1..n : above[i] = p[i]
      BY <1>3, <2>1, <2>2
    <3> QED BY <3>2, <3>3, <3>4, SeqEqual
  <2> QED BY <1>3, <2>4, <2>5
<1> QED
  <2>1. p \in Seq(NameSet) /\ Len(p) \in Nat
    BY LenProperties
  <2> QED BY <1>1, <1>2, <1>3, <2>1

(* The key right below p on the way to q.                                  *)
LEMMA NextKey ==
    ASSUME NEW K \in SUBSET Paths, Closed(K), NEW q \in K, NEW n \in Nat, n < Len(q)
    PROVE  Append(SubSeq(q, 1, n), q[n + 1]) \in K /\ \E i \in DOMAIN Names : q[n + 1] = Names[i]
<1> USE RegAssumption
<1>1. q \in Seq(NameSet) /\ Len(q) \in Nat
  BY LenProperties
<1>2. SubSeq(q, 1, n + 1) \in K
  BY <1>1 DEF Closed
<1>3. n \in 0..Len(q) /\ n + 1 \in 0..Len(q) /\ \A i \in 1..n + 1 : q[i] \in NameSet
  BY <1>1, ElementOfSeq
<1>4. /\ SubSeq(q, 1, n + 1) \in Seq(NameSet) /\ Len(SubSeq(q, 1, n + 1)) = n + 1
      /\ \A i \in 1..n + 1 : SubSeq(q, 1, n + 1)[i] = q[i]
  BY <1>1, <1>3, Prefix
<1>5. /\ SubSeq(q, 1, n) \in Seq(NameSet) /\ Len(SubSeq(q, 1, n)) = n
      /\ \A i \in 1..n : SubSeq(q, 1, n)[i] = q[i]
  BY <1>1, <1>3, Prefix
<1>6. Append(SubSeq(q, 1, n), q[n + 1]) = SubSeq(q, 1, n + 1)
  <2> DEFINE s == SubSeq(q, 1, n)
             t == SubSeq(q, 1, n + 1)
             x == q[n + 1]
  <2>1. x \in NameSet
    BY <1>3
  <2>2. \A i \in 1..n + 1 : t[i] = IF i = n + 1 THEN x ELSE s[i]
    BY <1>4, <1>5
  <2>3. s \in Seq(NameSet) /\ t \in Seq(NameSet) /\ Len(s) = n /\ Len(t) = n + 1
    BY <1>4, <1>5
  <2> HIDE DEF s, t, x
  <2>4. Append(s, x) = t
    BY <2>1, <2>2, <2>3, SeqEqual, AppendProperties
  <2> QED BY <2>4 DEF s, t, x
<1>7. q[n + 1] \in NameSet
  BY <1>3
<1> QED BY <1>2, <1>6, <1>7 DEF NameSet

LEMMA RemoveKey ==
    ASSUME NEW K \in SUBSET Paths, Closed(K), NEW p \in K,
           \A i \in DOMAIN Names : Append(p, Names[i]) \notin K
    PROVE  Closed(K \ {p})
<1> SUFFICES ASSUME NEW q \in K \ {p}, NEW n \in 0..Len(q), SubSeq(q, 1, n) = p
             PROVE  FALSE
  BY DEF Closed
<1>1. q \in Seq(NameSet) /\ Len(q) \in Nat
  BY RegAssumption, LenProperties
<1>2. CASE n = Len(q)
  BY <1>1, <1>2, SubSeqFull
<1>3. CASE n < Len(q)
  <2>1. n \in Nat
    BY <1>1
  <2>2. /\ Append(SubSeq(q, 1, n), q[n + 1]) \in K
        /\ \E i \in DOMAIN Names : q[n + 1] = Names[i]
    BY <1>3, <2>1, NextKey
  <2> QED BY <2>2
<1> QED BY <1>1, <1>2, <1>3

(* A tree without a key below its root is the root, or nothing.            *)
LEMMA OnlyRoot ==
    ASSUME NEW K \in SUBSET Paths, Closed(K),
           \A i \in DOMAIN Names : Append(<<>>, Names[i]) \notin K
    PROVE  K \subseteq {<<>>}
<1> SUFFICES ASSUME NEW q \in K, q # <<>> PROVE FALSE
  OBVIOUS
<1>1. q \in Seq(NameSet)
  BY RegAssumption
<1>2. Len(q) \in Nat /\ 0 < Len(q)
  BY <1>1, LenProperties, EmptySeq
<1>3. SubSeq(q, 1, 0) = <<>>
  BY SubSeqEmpty
<1>4. Append(SubSeq(q, 1, 0), q[0 + 1]) \in K /\ \E i \in DOMAIN Names : q[0 + 1] = Names[i]
  BY <1>2, NextKey
<1> QED BY <1>3, <1>4

-----------------------------------------------------------------------------
(* Counting keys.                                                          *)

LEMMA SmallestPlace ==
    ASSUME NEW S \in SUBSET Nat, S # {}
    PROVE  \E m \in S : \A k \in S : m <= k
<1> DEFINE R == OpToRel(<, Nat)
<1>1. PICK m \in S : \A k \in S : ~ (<<k, m>> \in R)
  <2> HIDE DEF R
  <2>1. IsWellFoundedOn(R, Nat)
    BY NatLessThanWellFounded DEF R
  <2> QED BY <2>1, WFMin, S \subseteq Nat
<1>2. ASSUME NEW k \in S PROVE m <= k
  <2>1. ~ (k < m)
    BY <1>1 DEF OpToRel
  <2> QED BY <2>1
<1> QED BY <1>2

LEMMA NthExists ==
    ASSUME NEW N \in Nat, NEW S \in SUBSET (1..N), NEW n \in 1..Cardinality(S)
    PROVE  Nth(S, n) \in S
<1> DEFINE Low(i) == {j \in S : j <= i}
           Enough == {i \in 1..N : Cardinality(Low(i)) >= n}
<1>1. IsFiniteSet(S) /\ Cardinality(S) \in Nat
  <2>1. IsFiniteSet(1..N)
    BY FS_Interval
  <2>2. IsFiniteSet(S)
    BY <2>1, FS_Subset
  <2> QED BY <2>2, FS_CardinalityType
<1>2. ASSUME NEW i \in Nat
      PROVE  IsFiniteSet(Low(i)) /\ Cardinality(Low(i)) \in Nat
  <2> DEFINE L == Low(i)
  <2>1. L \in SUBSET S
    OBVIOUS
  <2> HIDE DEF L
  <2>2. IsFiniteSet(L)
    BY <1>1, <2>1, FS_Subset
  <2>3. Cardinality(L) \in Nat
    BY <2>2, FS_CardinalityType
  <2> QED BY <2>2, <2>3 DEF L
<1>3. \A j \in S : j \in Nat /\ 1 <= j /\ j <= N
  OBVIOUS
<1>4. N \in Enough
  <2>1. N # 0
    <3>1. CASE N = 0
      <4>1. S = {}
        BY <3>1
      <4> QED BY <4>1, FS_EmptySet
    <3> QED BY <3>1
  <2>2. Low(N) = S
    BY <1>3
  <2>3. N \in 1..N /\ Cardinality(S) >= n
    BY <1>1, <2>1
  <2> QED BY <2>2, <2>3
<1>5. Enough # {} /\ Enough \in SUBSET Nat
  <2>1. \A i \in 1..N : i \in Nat
    OBVIOUS
  <2> QED BY <1>4, <2>1
<1> HIDE DEF Enough
<1>6. PICK m \in Enough : \A k \in Enough : m <= k
  BY <1>5, SmallestPlace
<1>7. m \in 1..N /\ Cardinality(Low(m)) >= n
  BY <1>6 DEF Enough
<1>8. Cardinality(Low(m - 1)) < n
  <2>1. CASE m = 1
    <3>1. Low(m - 1) = {}
      <4> SUFFICES ASSUME NEW j \in S, j <= m - 1 PROVE FALSE
        OBVIOUS
      <4> QED BY <1>3, <2>1
    <3> QED BY <3>1, FS_EmptySet
  <2>2. CASE m > 1
    <3>1. m - 1 \notin Enough
      BY <1>6, <1>7, <2>2
    <3>2. m - 1 \in 1..N /\ m - 1 \in Nat
      BY <1>7, <2>2
    <3>3. ~ (Cardinality(Low(m - 1)) >= n) /\ Cardinality(Low(m - 1)) \in Nat
      BY <1>2, <3>1, <3>2 DEF Enough
    <3> HIDE DEF Low
    <3> QED BY <3>3
  <2> QED BY <1>7, <2>1, <2>2
<1>9. m \in S /\ Cardinality(Low(m)) = n
  <2>1. m - 1 \in Nat /\ m \in Nat
    BY <1>7
  <2>2. CASE m \in S
    <3>1. Low(m) = Low(m - 1) \cup {m} /\ m \notin Low(m - 1)
      <4>1. \A j \in S : j <= m <=> j <= m - 1 \/ j = m
        BY <1>3, <2>1
      <4>2. ~ (m <= m - 1)
        BY <2>1
      <4> QED BY <2>2, <4>1, <4>2
    <3>2. Cardinality(Low(m)) = Cardinality(Low(m - 1)) + 1
      <4> DEFINE L == Low(m - 1)
      <4>1. IsFiniteSet(L)
        BY <1>2, <2>1
      <4> HIDE DEF L
      <4>2. m \notin L => Cardinality(L \cup {m}) = Cardinality(L) + 1
        BY <4>1, FS_AddElement
      <4> QED BY <3>1, <4>2 DEF L
    <3> HIDE DEF Low
    <3> QED BY <1>2, <1>7, <1>8, <2>1, <2>2, <3>2
  <2>3. CASE m \notin S
    <3>1. Low(m) = Low(m - 1)
      <4>1. \A j \in S : j <= m <=> j <= m - 1
        BY <1>3, <2>1, <2>3
      <4> QED BY <4>1
    <3> HIDE DEF Low
    <3> QED BY <1>2, <1>7, <1>8, <2>1, <3>1
  <2> QED BY <2>2, <2>3
<1>10. \E i \in S : Cardinality({j \in S : j <= i}) = n
  BY <1>9
<1> QED BY <1>10 DEF Nth

-----------------------------------------------------------------------------
(* The stack of calls.                                                     *)

LEMMA ChangeTop ==
    ASSUME NEW S, NEW s \in Seq(S), s # <<>>, NEW f \in S
    PROVE  LET t == [s EXCEPT ![Len(s)] = f] IN
           /\ t \in Seq(S) /\ Len(t) = Len(s) /\ t # <<>>
           /\ t[Len(s)] = f
           /\ \A i \in 1..Len(s) - 1 : t[i] = s[i]
<1>1. Len(s) \in Nat /\ Len(s) \in 1..Len(s)
  BY LenProperties, EmptySeq
<1> DEFINE t == [s EXCEPT ![Len(s)] = f]
<1>2. /\ t \in Seq(S) /\ Len(t) = Len(s)
      /\ \A j \in 1..Len(s) : t[j] = IF j = Len(s) THEN f ELSE s[j]
  BY <1>1, ExceptSeq
<1> HIDE DEF t
<1>3. t # <<>>
  BY <1>1, <1>2, EmptySeq
<1>4. /\ t \in Seq(S) /\ Len(t) = Len(s) /\ t # <<>>
      /\ t[Len(s)] = f
      /\ \A i \in 1..Len(s) - 1 : t[i] = s[i]
  BY <1>1, <1>2, <1>3
<1> QED BY <1>4 DEF t

LEMMA Push ==
    ASSUME NEW S, NEW t \in Seq(S), NEW g \in S
    PROVE  LET u == t \o <<g>> IN
           /\ u \in Seq(S) /\ Len(u) = Len(t) + 1 /\ u # <<>>
           /\ u[Len(t) + 1] = g
           /\ \A i \in 1..Len(t) : u[i] = t[i]
<1>1. <<g>> \in Seq(S) /\ Len(<<g>>) = 1 /\ <<g>>[1] = g /\ Len(t) \in Nat
  BY LenProperties
<1> DEFINE u == t \o <<g>>
<1>2. /\ u \in Seq(S) /\ Len(u) = Len(t) + 1
      /\ \A i \in 1..Len(t) + 1 : u[i] = IF i <= Len(t) THEN t[i] ELSE <<g>>[i - Len(t)]
  BY <1>1, ConcatProperties
<1> HIDE DEF u
<1>3. u # <<>>
  BY <1>1, <1>2, EmptySeq
<1>4. u[Len(t) + 1] = <<g>>[Len(t) + 1 - Len(t)] /\ Len(t) + 1 - Len(t) = 1
  BY <1>1, <1>2
<1>5. \A i \in 1..Len(t) : u[i] = t[i]
  BY <1>1, <1>2
<1>6. /\ u \in Seq(S) /\ Len(u) = Len(t) + 1 /\ u # <<>>
      /\ u[Len(t) + 1] = g
      /\ \A i \in 1..Len(t) : u[i] = t[i]
  BY <1>1, <1>2, <1>3, <1>4, <1>5
<1> QED BY <1>6 DEF u

LEMMA TopIsFrame ==
    ASSUME CallOK, stack # <<>>
    PROVE  /\ Len(stack) \in Nat /\ Len(stack) > 0
           /\ top \in Frames
           /\ top.path \in Paths /\ top.cnt \in Nat /\ top.gone \in BOOLEAN
<1>1. stack \in Seq(Frames)
  BY DEF CallOK
<1>2. Len(stack) \in Nat /\ Len(stack) > 0
  BY <1>1, LenProperties, EmptySeq
<1>3. top \in Frames
  BY <1>1, <1>2, ElementOfSeq DEF top
<1> QED BY <1>2, <1>3 DEF Frames

LEMMA SubKeysFinite ==
    ASSUME NEW v, NEW p
    PROVE  IsFiniteSet(SubKeys(v, p)) /\ Cardinality(SubKeys(v, p)) \in Nat
<1>1. IsFiniteSet(DOMAIN Names)
  BY RegAssumption, LenProperties, FS_Interval
<1> DEFINE S == SubKeys(v, p)
<1>2. S \in SUBSET DOMAIN Names
  BY DEF SubKeys
<1> HIDE DEF S
<1>3. IsFiniteSet(S)
  BY <1>1, <1>2, FS_Subset
<1> QED BY <1>3, FS_CardinalityType DEF S

LEMMA FrameIsFrame == \A p \in Paths : Frame(p) \in Frames
BY DEF Frame, Frames

LEMMA ViewIsView == view \in Views /\ DeleteView = view
BY RegAssumption DEF view, View, Views, DeleteView, IsWin64

(* The parent's frames.                                                    *)
LEMMA ParentFrames ==
    ASSUME CallOK, Len(stack) > 1
    PROVE  /\ parent \in Seq(Frames) /\ parent # <<>>
           /\ Len(parent) = Len(stack) - 1
           /\ \A i \in 1..Len(stack) - 1 : parent[i] = stack[i]
<1>1. stack \in Seq(Frames) /\ Len(stack) \in Nat
  BY LenProperties DEF CallOK
<1> DEFINE k == Len(stack) - 1
<1>2. k \in 0..Len(stack) /\ k > 0
  BY <1>1
<1> HIDE DEF k
<1>3. /\ SubSeq(stack, 1, k) \in Seq(Frames) /\ Len(SubSeq(stack, 1, k)) = k
      /\ \A i \in 1..k : SubSeq(stack, 1, k)[i] = stack[i]
  BY <1>1, <1>2, Prefix
<1>4. SubSeq(stack, 1, k) # <<>>
  BY <1>2, <1>3, EmptySeq
<1> QED BY <1>3, <1>4 DEF k, parent

-----------------------------------------------------------------------------
(* The invariant.                                                          *)

(* The keys that are open are those of the calls under way, without the    *)
(* key the caller has opened itself, and without the one on top as long as *)
(* it is not opened yet or closed again.                                   *)
HandlesInv ==
    /\ pc \in {"idle", "open", "finish", "multi", "string"} => stack = <<>> /\ handles = 0
    /\ pc \in {"count", "next", "return"} =>
           stack # <<>> /\ handles = Len(stack) - (IF sub THEN 0 ELSE 1)
    /\ pc \in {"enter", "remove"} =>
           stack # <<>> /\ Len(stack) > 1 /\ handles = Len(stack) - 1 - (IF sub THEN 0 ELSE 1)

RegIInv == KeysOK /\ CallOK /\ HandlesInv

LEMMA RegInit == Init => RegIInv
<1> SUFFICES ASSUME Init PROVE RegIInv
  OBVIOUS
<1>1. KeysOK
  <2>1. \A v \in Views : keys[v] \in SUBSET Paths /\ Closed(keys[v])
    BY DEF Init
  <2> QED BY <2>1 DEF Init, KeysOK
<1>2. CallOK
  <2>1. stack \in Seq(Frames)
    BY EmptySeq DEF Init
  <2> QED BY <2>1 DEF Init, CallOK
<1>3. HandlesInv
  <2>1. pc = "idle" /\ stack = <<>> /\ handles = 0
    BY DEF Init
  <2> QED BY <2>1 DEF HandlesInv
<1> QED BY <1>1, <1>2, <1>3 DEF RegIInv

-----------------------------------------------------------------------------
(* The trees stay trees.                                                   *)

LEMMA DeleteKeepsTrees ==
    ASSUME KeysOK, NEW v \in Views, NEW p \in Paths, Deletable(v, p), Delete(v, p)
    PROVE  KeysOK'
<1>1. p \in keys[v] /\ keys[v] \in SUBSET Paths /\ Closed(keys[v])
  BY DEF KeysOK, Deletable, HasKey
<1>2. \A i \in DOMAIN Names : Append(p, Names[i]) \notin keys[v]
  BY DEF Deletable, SubKeys
<1>3. Closed(keys[v] \ {p})
  BY <1>1, <1>2, RemoveKey
<1>4. keys' = [keys EXCEPT ![v] = keys[v] \ {p}]
  BY DEF Delete
<1> QED BY <1>1, <1>3, <1>4 DEF KeysOK

LEMMA CreateKeepsTrees ==
    ASSUME KeysOK, NEW v \in Views, NEW p \in Paths,
           p # <<>> => SubSeq(p, 1, Len(p) - 1) \in keys[v],
           keys' = [keys EXCEPT ![v] = keys[v] \cup {p}]
    PROVE  KeysOK'
<1>1. keys[v] \in SUBSET Paths /\ Closed(keys[v])
  BY DEF KeysOK
<1>2. Closed(keys[v] \cup {p})
  BY <1>1, AddKey
<1> QED BY <1>1, <1>2 DEF KeysOK

(* EnumKey tells a key that is there.                                      *)
LEMMA ToldKey ==
    ASSUME KeysOK, NEW v \in Views, NEW p \in Paths,
           NEW n \in Nat, n # 0, n <= Cardinality(SubKeys(v, p))
    PROVE  /\ Nth(SubKeys(v, p), n) \in SubKeys(v, p)
           /\ Append(p, Names[Nth(SubKeys(v, p), n)]) \in keys[v]
           /\ Append(p, Names[Nth(SubKeys(v, p), n)]) \in Paths
<1>1. DOMAIN Names = 1..Len(Names) /\ Len(Names) \in Nat
  BY RegAssumption, LenProperties
<1> DEFINE S == SubKeys(v, p)
<1>2. S \in SUBSET (1..Len(Names))
  BY <1>1 DEF SubKeys
<1>3. Cardinality(S) \in Nat
  BY SubKeysFinite
<1>4. Nth(S, n) \in S
  <2>1. n \in 1..Cardinality(S)
    BY <1>3
  <2> HIDE DEF S
  <2> QED BY <1>1, <1>2, <2>1, NthExists
<1>5. Append(p, Names[Nth(S, n)]) \in keys[v]
  BY <1>4 DEF SubKeys
<1> QED BY <1>4, <1>5 DEF KeysOK

-----------------------------------------------------------------------------
(* The steps of DeleteKey.                                                 *)

LEMMA OpenKeyStep == RegIInv /\ OpenKey => RegIInv'
<1> SUFFICES ASSUME RegIInv, OpenKey PROVE RegIInv'
  OBVIOUS
<1> USE DEF RegIInv
<1>1. KeysOK'
  BY DEF OpenKey, KeysOK
<1>2. CASE ~sub \/ Openable(view, <<>>)
  <2>1. /\ stack' = <<Frame(<<>>)>> /\ pc' = "count" /\ ok' = ok
        /\ handles' = IF sub THEN handles + 1 ELSE handles
        /\ UNCHANGED <<sub, prefer, fit, changes>>
    BY <1>2 DEF OpenKey
  <2>2. stack' \in Seq(Frames) /\ stack' # <<>> /\ Len(stack') = 1
    <3>1. Frame(<<>>) \in Frames
      BY FrameIsFrame, RegAssumption
    <3> QED BY <2>1, <3>1
  <2>3. handles = 0 /\ handles' = 1 - (IF sub' THEN 0 ELSE 1) /\ handles' \in Nat
    BY <2>1 DEF OpenKey, HandlesInv, CallOK
  <2>4. CallOK'
    BY <2>1, <2>2, <2>3 DEF CallOK
  <2>5. HandlesInv'
    BY <2>1, <2>2, <2>3 DEF HandlesInv
  <2> QED BY <1>1, <2>4, <2>5
<1>3. CASE ~(~sub \/ Openable(view, <<>>))
  <2>1. ok' = FALSE /\ pc' = "idle" /\ UNCHANGED <<stack, handles, sub, prefer, fit, changes>>
    BY <1>3 DEF OpenKey
  <2>2. CallOK'
    BY <2>1 DEF CallOK
  <2>3. HandlesInv'
    BY <2>1 DEF HandlesInv, OpenKey
  <2> QED BY <1>1, <2>2, <2>3
<1> QED BY <1>2, <1>3

(* What a call that fails leaves, with the same frames.                    *)
LEMMA FailStep ==
    ASSUME RegIInv, pc \in {"count", "next"}, KeysOK', Fails,
           UNCHANGED <<sub, prefer, fit, changes>>
    PROVE  RegIInv'
<1>1. CallOK'
  BY DEF RegIInv, CallOK, Fails
<1>2. HandlesInv'
  BY DEF RegIInv, HandlesInv, Fails
<1> QED BY <1>1, <1>2 DEF RegIInv

LEMMA QueryInfoKeyStep == RegIInv /\ QueryInfoKey => RegIInv'
<1> SUFFICES ASSUME RegIInv, QueryInfoKey PROVE RegIInv'
  OBVIOUS
<1>1. KeysOK'
  BY DEF QueryInfoKey, KeysOK, RegIInv
<1>2. CASE top.gone
  BY <1>1, <1>2, FailStep DEF QueryInfoKey
<1>3. CASE ~top.gone
  <2> DEFINE f == [top EXCEPT !.cnt = Cardinality(SubKeys(view, top.path))]
  <2>1. /\ stack' = [stack EXCEPT ![Len(stack)] = f] /\ pc' = "next"
        /\ UNCHANGED <<ok, handles, sub, prefer, fit, changes>>
    BY <1>3 DEF QueryInfoKey, WithTop
  <2>2. stack \in Seq(Frames) /\ stack # <<>>
    BY DEF RegIInv, CallOK, HandlesInv, QueryInfoKey
  <2>3. f \in Frames
    <3>1. top \in Frames /\ top.path \in Paths
      BY <2>2, TopIsFrame DEF RegIInv
    <3>2. Cardinality(SubKeys(view, top.path)) \in Nat
      BY SubKeysFinite
    <3> QED BY <3>1, <3>2 DEF Frames
  <2> HIDE DEF f
  <2>4. stack' \in Seq(Frames) /\ Len(stack') = Len(stack) /\ stack' # <<>>
    BY <2>1, <2>2, <2>3, ChangeTop
  <2>5. CallOK'
    BY <2>1, <2>4 DEF RegIInv, CallOK
  <2>6. HandlesInv'
    BY <2>1, <2>4 DEF RegIInv, HandlesInv, QueryInfoKey
  <2> QED BY <1>1, <2>5, <2>6 DEF RegIInv
<1> QED BY <1>2, <1>3

LEMMA EnumKeyStep == RegIInv /\ EnumKey => RegIInv'
<1> SUFFICES ASSUME RegIInv, EnumKey PROVE RegIInv'
  OBVIOUS
<1>1. KeysOK'
  BY DEF EnumKey, KeysOK, RegIInv
<1>2. CASE top.cnt = 0
  <2>1. ok' = TRUE /\ pc' = "return" /\ UNCHANGED <<stack, handles, sub, prefer, fit, changes>>
    BY <1>2 DEF EnumKey
  <2>2. CallOK'
    BY <2>1 DEF RegIInv, CallOK
  <2>3. HandlesInv'
    BY <2>1 DEF RegIInv, HandlesInv, EnumKey
  <2> QED BY <1>1, <2>2, <2>3 DEF RegIInv
<1>3. CASE top.cnt # 0 /\ (top.gone \/ top.cnt > Cardinality(SubKeys(view, top.path)))
  BY <1>1, <1>3, FailStep DEF EnumKey
<1>4. CASE top.cnt # 0 /\ ~(top.gone \/ top.cnt > Cardinality(SubKeys(view, top.path)))
  <2> DEFINE f == [top EXCEPT !.cnt = @ - 1]
             p == Append(top.path, Names[Nth(SubKeys(view, top.path), top.cnt)])
             t == [stack EXCEPT ![Len(stack)] = f]
  <2>1. /\ stack' = t \o <<Frame(p)>> /\ pc' = "enter"
        /\ UNCHANGED <<ok, handles, sub, prefer, fit, changes>>
    BY <1>4 DEF EnumKey, WithTop
  <2>2. stack \in Seq(Frames) /\ stack # <<>> /\ Len(stack) \in Nat
    BY LenProperties DEF RegIInv, CallOK, HandlesInv, EnumKey
  <2>3. top \in Frames /\ top.path \in Paths /\ top.cnt \in Nat
    BY <2>2, TopIsFrame DEF RegIInv
  <2>4. f \in Frames
    BY <1>4, <2>3 DEF Frames
  <2>5. Frame(p) \in Frames
    <3>1. top.cnt <= Cardinality(SubKeys(view, top.path))
      BY <1>4, <2>3, SubKeysFinite
    <3>2. p \in Paths
      BY <1>4, <2>3, <3>1, ToldKey, ViewIsView DEF RegIInv
    <3> QED BY <3>2, FrameIsFrame
  <2> HIDE DEF f, p
  <2>6. t \in Seq(Frames) /\ Len(t) = Len(stack)
    BY <2>2, <2>4, ChangeTop
  <2> HIDE DEF t
  <2>7. stack' \in Seq(Frames) /\ Len(stack') = Len(stack) + 1 /\ stack' # <<>>
    BY <2>1, <2>5, <2>6, Push
  <2>8. CallOK'
    BY <2>1, <2>7 DEF RegIInv, CallOK
  <2>9. HandlesInv'
    <3>1. handles = Len(stack) - (IF sub THEN 0 ELSE 1) /\ Len(stack) > 0
      BY <2>2, EmptySeq DEF RegIInv, HandlesInv, EnumKey
    <3>2. Len(stack') > 1 /\ handles' = Len(stack') - 1 - (IF sub' THEN 0 ELSE 1)
      BY <2>1, <2>2, <2>7, <3>1
    <3> QED BY <2>1, <2>7, <3>2 DEF HandlesInv
  <2> QED BY <1>1, <2>8, <2>9 DEF RegIInv
<1> QED BY <1>2, <1>3, <1>4

LEMMA OpenSubKeyStep == RegIInv /\ OpenSubKey => RegIInv'
<1> SUFFICES ASSUME RegIInv, OpenSubKey PROVE RegIInv'
  OBVIOUS
<1>1. KeysOK'
  BY DEF OpenSubKey, KeysOK, RegIInv
<1>2. /\ stack \in Seq(Frames) /\ stack # <<>> /\ Len(stack) > 1 /\ Len(stack) \in Nat
      /\ handles = Len(stack) - 1 - (IF sub THEN 0 ELSE 1)
  BY LenProperties DEF RegIInv, CallOK, HandlesInv, OpenSubKey
<1>3. CASE Openable(view, top.path) /\ ~parent[Len(parent)].gone
  <2>1. /\ stack' = [stack EXCEPT ![Len(stack)] = Frame(top.path)] /\ pc' = "count"
        /\ handles' = handles + 1
        /\ UNCHANGED <<ok, sub, prefer, fit, changes>>
    BY <1>3 DEF OpenSubKey, WithTop
  <2>2. Frame(top.path) \in Frames
    BY <1>2, TopIsFrame, FrameIsFrame DEF RegIInv
  <2>3. stack' \in Seq(Frames) /\ Len(stack') = Len(stack) /\ stack' # <<>>
    BY <1>2, <2>1, <2>2, ChangeTop
  <2>4. CallOK'
    BY <2>1, <2>3 DEF RegIInv, CallOK
  <2>5. HandlesInv'
    <3>1. handles' = Len(stack') - (IF sub' THEN 0 ELSE 1)
      <4>1. handles + 1 = Len(stack) - (IF sub THEN 0 ELSE 1)
        BY <1>2
      <4> QED BY <2>1, <2>3, <4>1
    <3>2. pc' = "count" /\ stack' # <<>>
      BY <2>1, <2>3
    <3> QED BY <3>1, <3>2 DEF HandlesInv
  <2> QED BY <1>1, <2>4, <2>5 DEF RegIInv
<1>4. CASE ~(Openable(view, top.path) /\ ~parent[Len(parent)].gone)
  <2>1. /\ ok' = FALSE /\ pc' = "return" /\ stack' = parent /\ handles' = handles
        /\ UNCHANGED <<sub, prefer, fit, changes>>
    BY <1>4 DEF OpenSubKey
  <2>2. parent \in Seq(Frames) /\ Len(parent) = Len(stack) - 1 /\ parent # <<>>
    BY <1>2, ParentFrames DEF RegIInv
  <2>3. CallOK'
    BY <2>1, <2>2 DEF RegIInv, CallOK
  <2>4. HandlesInv'
    BY <1>2, <2>1, <2>2 DEF HandlesInv
  <2> QED BY <1>1, <2>3, <2>4 DEF RegIInv
<1> QED BY <1>3, <1>4

LEMMA ReturnStep == RegIInv /\ Return => RegIInv'
<1> SUFFICES ASSUME RegIInv, Return PROVE RegIInv'
  OBVIOUS
<1>1. KeysOK'
  BY DEF Return, KeysOK, RegIInv
<1>2. /\ stack \in Seq(Frames) /\ stack # <<>> /\ Len(stack) \in Nat /\ Len(stack) > 0
      /\ handles = Len(stack) - (IF sub THEN 0 ELSE 1)
  BY LenProperties, EmptySeq DEF RegIInv, CallOK, HandlesInv, Return
<1>3. CASE Len(stack) > 1
  <2>1. /\ handles' = handles - 1
        /\ pc' = IF ok THEN "remove" ELSE "return"
        /\ stack' = IF ok THEN stack ELSE parent
        /\ UNCHANGED <<sub, prefer, ok, fit, changes>>
    BY <1>3 DEF Return
  <2>2. parent \in Seq(Frames) /\ Len(parent) = Len(stack) - 1 /\ parent # <<>>
    BY <1>3, ParentFrames DEF RegIInv
  <2>3. handles' \in Nat
    BY <1>2, <1>3, <2>1 DEF RegIInv, CallOK
  <2>4. CallOK'
    BY <1>2, <2>1, <2>2, <2>3 DEF RegIInv, CallOK
  <2>5. HandlesInv'
    <3>1. CASE ok
      BY <1>2, <1>3, <2>1, <3>1 DEF HandlesInv
    <3>2. CASE ~ok
      BY <1>2, <1>3, <2>1, <2>2, <3>2 DEF HandlesInv
    <3> QED BY <3>1, <3>2
  <2> QED BY <1>1, <2>4, <2>5 DEF RegIInv
<1>4. CASE ~(Len(stack) > 1)
  <2>1. /\ handles' = IF sub THEN handles - 1 ELSE handles
        /\ pc' = IF ok THEN "finish" ELSE "idle"
        /\ stack' = <<>>
        /\ UNCHANGED <<sub, prefer, ok, fit, changes>>
    BY <1>4 DEF Return
  <2>2. handles' = 0
    <3>1. Len(stack) = 1
      <4>1. \A n \in Nat : n > 0 /\ ~(n > 1) => n = 1
        OBVIOUS
      <4> QED BY <1>2, <1>4, <4>1
    <3>2. CASE sub
      <4>1. handles = Len(stack) - 0 /\ handles' = handles - 1
        BY <1>2, <2>1, <3>2
      <4> QED BY <3>1, <4>1
    <3>3. CASE ~sub
      <4>1. handles = Len(stack) - 1 /\ handles' = handles
        BY <1>2, <2>1, <3>3
      <4> QED BY <3>1, <4>1
    <3> QED BY <3>2, <3>3
  <2>3. stack' \in Seq(Frames)
    BY <2>1, EmptySeq
  <2>4. CallOK'
    BY <2>1, <2>2, <2>3 DEF RegIInv, CallOK
  <2>5. HandlesInv'
    BY <2>1, <2>2 DEF HandlesInv
  <2> QED BY <1>1, <2>4, <2>5 DEF RegIInv
<1> QED BY <1>3, <1>4

LEMMA RemoveStep == RegIInv /\ Remove => RegIInv'
<1> SUFFICES ASSUME RegIInv, Remove PROVE RegIInv'
  OBVIOUS
<1>1. /\ stack # <<>> /\ Len(stack) > 1
      /\ handles = Len(stack) - 1 - (IF sub THEN 0 ELSE 1)
  BY DEF RegIInv, HandlesInv, Remove
<1>2. KeysOK'
  <2>1. CASE Deletable(view, top.path) /\ ~parent[Len(parent)].gone
    <3>1. top.path \in Paths
      BY <1>1, TopIsFrame DEF RegIInv
    <3>2. Delete(view, top.path)
      BY <2>1 DEF Remove
    <3> QED BY <2>1, <3>1, <3>2, ViewIsView, DeleteKeepsTrees DEF RegIInv
  <2>2. CASE ~(Deletable(view, top.path) /\ ~parent[Len(parent)].gone)
    BY <2>2 DEF Remove, RegIInv, KeysOK
  <2> QED BY <2>1, <2>2
<1>3. /\ pc' \in {"next", "return"} /\ ok' \in BOOLEAN /\ stack' = parent
      /\ UNCHANGED <<sub, prefer, handles, fit, changes>>
  BY DEF Remove, RegIInv, CallOK
<1>4. parent \in Seq(Frames) /\ Len(parent) = Len(stack) - 1 /\ parent # <<>>
  BY <1>1, ParentFrames DEF RegIInv
<1>5. CallOK'
  BY <1>3, <1>4 DEF RegIInv, CallOK
<1>6. HandlesInv'
  BY <1>1, <1>3, <1>4 DEF HandlesInv
<1> QED BY <1>2, <1>5, <1>6 DEF RegIInv

LEMMA FinishStep == RegIInv /\ Finish => RegIInv'
<1> SUFFICES ASSUME RegIInv, Finish PROVE RegIInv'
  OBVIOUS
<1>1. KeysOK'
  <2>1. CASE ok'
    BY <2>1, ViewIsView, RegAssumption, DeleteKeepsTrees DEF Finish, RegIInv
  <2>2. CASE ~ok'
    BY <2>2 DEF Finish, RegIInv, KeysOK
  <2> QED BY <2>1, <2>2
<1>2. ok' \in BOOLEAN
  BY DEF Finish
<1>3. pc = "finish" /\ pc' = "idle" /\ UNCHANGED <<sub, prefer, stack, handles, fit, changes>>
  BY DEF Finish
<1>4. CallOK'
  BY <1>2, <1>3 DEF RegIInv, CallOK
<1>5. HandlesInv'
  BY <1>3 DEF RegIInv, HandlesInv
<1> QED BY <1>1, <1>4, <1>5 DEF RegIInv

-----------------------------------------------------------------------------
(* The other steps.                                                        *)

LEMMA IdleStep ==
    ASSUME RegIInv, \/ Open \/ DeleteValue \/ GetMultiSZValue \/ GetSZValue
                    \/ \E s \in BOOLEAN, p \in BOOLEAN : DeleteKey(s, p)
                    \/ \E w \in Written : SetValue(w)
                    \/ \E reader \in {"multi", "string"} : GetValueBufferSize(reader)
    PROVE  RegIInv'
<1> USE DEF RegIInv
<1>1. CASE Open
  <2>1. KeysOK'
    <3>1. "32" \in Views /\ <<>> \in Paths
      BY RegAssumption DEF Views
    <3>2. keys' = [keys EXCEPT !["32"] = keys["32"] \cup {<<>>}]
      BY <1>1 DEF Open
    <3> QED BY <3>1, <3>2, CreateKeepsTrees
  <2>2. UNCHANGED <<pc, sub, prefer, stack, ok, handles, fit>> /\ changes' = 0
    BY <1>1 DEF Open, deleteVars
  <2>3. CallOK' /\ HandlesInv'
    BY <2>2 DEF CallOK, HandlesInv
  <2> QED BY <2>1, <2>3
<1>2. CASE DeleteValue \/ \E w \in Written : SetValue(w)
  <2>1. UNCHANGED <<keys, pc, sub, prefer, stack, ok, handles, fit, changes>>
    BY <1>2 DEF DeleteValue, SetValue, deleteVars
  <2> QED BY <2>1 DEF KeysOK, CallOK, HandlesInv
<1>3. CASE GetMultiSZValue \/ GetSZValue
  <2>1. /\ UNCHANGED <<keys, sub, prefer, stack, ok, handles, fit, changes>>
        /\ pc \in {"multi", "string"} /\ pc' = "idle"
    BY <1>3 DEF GetMultiSZValue, GetSZValue, deleteVars
  <2> QED BY <2>1 DEF KeysOK, CallOK, HandlesInv
<1>4. CASE \E s \in BOOLEAN, p \in BOOLEAN : DeleteKey(s, p)
  <2>1. /\ UNCHANGED <<keys, stack, handles>> /\ pc = "idle" /\ pc' = "open"
        /\ sub' \in BOOLEAN /\ prefer' \in BOOLEAN /\ ok' \in BOOLEAN /\ fit' \in BOOLEAN
        /\ changes' = 0
    BY <1>4 DEF DeleteKey
  <2> QED BY <2>1 DEF KeysOK, CallOK, HandlesInv
<1>5. CASE \E reader \in {"multi", "string"} : GetValueBufferSize(reader)
  <2>1. /\ UNCHANGED <<keys, sub, prefer, stack, ok, handles, fit>>
        /\ pc = "idle" /\ pc' \in {"idle", "multi", "string"}
        /\ changes' = 0
    BY <1>5 DEF GetValueBufferSize, deleteVars
  <2> QED BY <2>1 DEF KeysOK, CallOK, HandlesInv
<1> QED BY <1>1, <1>2, <1>3, <1>4, <1>5

(* What others do changes no call but for the keys it finds gone.          *)
LEMMA OtherDeletesFrames ==
    ASSUME RegIInv, NEW v \in Views, NEW p \in Paths, OtherDeletes(v, p)
    PROVE  stack' \in Seq(Frames) /\ Len(stack') = Len(stack) /\ (stack' = <<>> <=> stack = <<>>)
<1> DEFINE e(i) == IF v = view /\ stack[i].path = p THEN [stack[i] EXCEPT !.gone = TRUE] ELSE stack[i]
<1>1. stack \in Seq(Frames) /\ Len(stack) \in Nat
  BY LenProperties DEF RegIInv, CallOK
<1>2. ASSUME NEW i \in 1..Len(stack) PROVE e(i) \in Frames
  <2>1. stack[i] \in Frames
    BY <1>1, ElementOfSeq
  <2>2. [stack[i] EXCEPT !.gone = TRUE] \in Frames
    BY <2>1 DEF Frames
  <2> QED BY <2>1, <2>2
<1>3. stack' = [i \in 1..Len(stack) |-> e(i)]
  BY DEF OtherDeletes
<1> HIDE DEF e
<1>4. stack' \in [1..Len(stack) -> Frames]
  BY <1>2, <1>3
<1>5. stack' \in Seq(Frames) /\ Len(stack') = Len(stack)
  BY <1>1, <1>4
<1> QED BY <1>1, <1>5, EmptySeq

LEMMA OtherStep ==
    ASSUME RegIInv, NEW v \in Views, NEW p \in Paths, NEW w \in Written,
           OtherCreates(v, p) \/ OtherDeletes(v, p) \/ OtherWrites(w)
    PROVE  RegIInv'
<1>1. KeysOK'
  <2>1. CASE OtherCreates(v, p)
    <3>1. p # <<>> => SubSeq(p, 1, Len(p) - 1) \in keys[v]
      BY <2>1 DEF OtherCreates, HasKey
    <3>2. keys' = [keys EXCEPT ![v] = keys[v] \cup {p}]
      BY <2>1 DEF OtherCreates
    <3> QED BY <3>1, <3>2, CreateKeepsTrees DEF RegIInv
  <2>2. CASE OtherDeletes(v, p)
    BY <2>2, DeleteKeepsTrees DEF OtherDeletes, RegIInv
  <2>3. CASE OtherWrites(w)
    BY <2>3 DEF OtherWrites, KeysOK, RegIInv
  <2> QED BY <2>1, <2>2, <2>3
<1>2. /\ UNCHANGED <<pc, sub, prefer, ok, handles, fit>>
      /\ changes' = changes + 1
  BY DEF OtherCreates, OtherDeletes, OtherWrites, Another
<1>3. stack' \in Seq(Frames) /\ Len(stack') = Len(stack) /\ (stack' = <<>> <=> stack = <<>>)
  BY OtherDeletesFrames DEF OtherCreates, OtherWrites, RegIInv, CallOK
<1>4. CallOK'
  BY <1>2, <1>3 DEF RegIInv, CallOK
<1>5. HandlesInv'
  BY <1>2, <1>3 DEF RegIInv, HandlesInv
<1> QED BY <1>1, <1>4, <1>5 DEF RegIInv

LEMMA RegStep == RegIInv /\ [Next]_vars => RegIInv'
<1> SUFFICES ASSUME RegIInv, [Next]_vars PROVE RegIInv'
  OBVIOUS
<1>1. CASE OpenKey \/ QueryInfoKey \/ EnumKey \/ OpenSubKey \/ Return \/ Remove \/ Finish
  BY <1>1, OpenKeyStep, QueryInfoKeyStep, EnumKeyStep, OpenSubKeyStep, ReturnStep, RemoveStep, FinishStep
<1>2. CASE \/ Open \/ DeleteValue \/ GetMultiSZValue \/ GetSZValue
           \/ \E s \in BOOLEAN, p \in BOOLEAN : DeleteKey(s, p)
           \/ \E w \in Written : SetValue(w)
           \/ \E reader \in {"multi", "string"} : GetValueBufferSize(reader)
  BY <1>2, IdleStep
<1>3. CASE \/ \E v \in Views, p \in Paths : OtherCreates(v, p) \/ OtherDeletes(v, p)
           \/ \E w \in Written : OtherWrites(w)
  <2>1. Nothing \in Written /\ "32" \in Views /\ <<>> \in Paths
    BY RegAssumption DEF Written, Views
  <2> QED BY <1>3, <2>1, OtherStep
<1>4. CASE UNCHANGED vars
  BY <1>4 DEF vars, RegIInv, KeysOK, CallOK, HandlesInv
<1> QED BY <1>1, <1>2, <1>3, <1>4 DEF Next

-----------------------------------------------------------------------------
(* Whatever fails in the middle, and whatever others do to the keys that   *)
(* are open, DeleteKey leaves no key open.                                 *)
THEOREM HandlesClosedAlways == Spec => []HandlesClosed
<1>1. RegIInv => HandlesClosed
  BY DEF RegIInv, HandlesInv, HandlesClosed
<1> QED BY <1>1, RegInit, RegStep, PTL DEF Spec

(* No step of DeleteKey changes the other view: all its deletions mean the *)
(* view the key was opened in.                                             *)
THEOREM OtherViewKeptAlways == Spec => OtherViewKept
<1> DEFINE A == pc # "idle" /\ changes' = changes => \A v \in Views \ {view} : keys'[v] = keys[v]
<1>1. RegIInv /\ [Next]_vars => [A]_vars
  <2> SUFFICES ASSUME RegIInv, Next, pc # "idle", changes' = changes, NEW v \in Views \ {view}
               PROVE  keys'[v] = keys[v]
    OBVIOUS
  <2>1. DOMAIN keys = Views /\ changes \in Nat
    BY DEF RegIInv, KeysOK, CallOK
  <2>2. ASSUME NEW p, Delete(view, p) PROVE keys'[v] = keys[v]
    BY <2>1, <2>2 DEF Delete
  <2>3. CASE Remove \/ Finish
    BY <2>2, <2>3, ViewIsView DEF Remove, Finish
  <2>4. CASE OpenKey \/ QueryInfoKey \/ EnumKey \/ OpenSubKey \/ Return
    BY <2>4 DEF OpenKey, QueryInfoKey, EnumKey, OpenSubKey, Return
  <2>5. CASE GetMultiSZValue \/ GetSZValue
    BY <2>5 DEF GetMultiSZValue, GetSZValue
  <2>6. ~Another
    BY <2>1 DEF Another
  <2> QED BY <2>3, <2>4, <2>5, <2>6
      DEF Next, Open, DeleteValue, DeleteKey, SetValue, GetValueBufferSize,
          OtherCreates, OtherDeletes, OtherWrites
<1> QED BY <1>1, RegInit, RegStep, PTL DEF Spec, OtherViewKept

-----------------------------------------------------------------------------
(* DeleteKey where nothing is in its way: every call under way has as many *)
(* keys to go as there are below its key, less the one it is at.           *)

(* The keys right below p in a tree.                                       *)
Below(K, p) == {i \in DOMAIN Names : Append(p, Names[i]) \in K}

LEMMA SubKeysBelow == \A v, p : SubKeys(v, p) = Below(keys[v], p)
BY DEF SubKeys, Below

Deleting == pc \in {"open", "count", "next", "enter", "return", "remove", "finish"}

FreeTree == keys[view] \cap Locked = {} /\ <<>> \in keys[view]

OnPath ==
    /\ \A i \in 1..Len(stack) :
          ~stack[i].gone /\ stack[i].path \in keys[view] /\ Len(stack[i].path) = i - 1
    /\ \A i \in 1..Len(stack) - 1 :
          \E n \in DOMAIN Names : stack[i + 1].path = Append(stack[i].path, Names[n])

ToGo ==
    /\ \A i \in 1..Len(stack) - 1 : stack[i].cnt + 1 = Cardinality(Below(keys[view], stack[i].path))
    /\ pc = "next" => top.cnt = Cardinality(Below(keys[view], top.path))

Emptied ==
    /\ pc \in {"return", "remove"} => ok /\ Below(keys[view], top.path) = {}
    /\ pc = "finish" => ok /\ Below(keys[view], <<>>) = {}

Free == fit /\ changes = 0 /\ Deleting => FreeTree /\ OnPath /\ ToGo /\ Emptied

LEMMA FreeOpenKey ==
    ASSUME RegIInv, OpenKey, FreeTree
    PROVE  FreeTree' /\ OnPath' /\ ToGo' /\ Emptied'
<1>1. keys' = keys /\ prefer' = prefer /\ view' = view
  BY DEF OpenKey, view
<1>2. Openable(view, <<>>)
  BY RegAssumption DEF FreeTree, Openable, HasKey
<1>3. stack' = <<Frame(<<>>)>> /\ pc' = "count"
  BY <1>2 DEF OpenKey
<1>4. FreeTree'
  BY <1>1 DEF FreeTree
<1>5. Len(stack') = 1 /\ stack'[1] = Frame(<<>>)
  BY <1>3
<1>6. OnPath'
  <2>1. ~stack'[1].gone /\ stack'[1].path = <<>> /\ Len(<<>>) = 0
    BY <1>5 DEF Frame
  <2>2. \A i \in 1..Len(stack') : i = 1
    BY <1>5
  <2>3. \A i \in 1..Len(stack') - 1 : FALSE
    BY <1>5
  <2> QED BY <1>4, <2>1, <2>2, <2>3 DEF OnPath, FreeTree
<1>7. ToGo' /\ Emptied'
  <2>1. \A i \in 1..Len(stack') - 1 : FALSE
    BY <1>5
  <2> QED BY <1>3, <2>1 DEF ToGo, Emptied
<1> QED BY <1>4, <1>6, <1>7

LEMMA FreeQueryInfoKey ==
    ASSUME RegIInv, QueryInfoKey, FreeTree, OnPath, ToGo
    PROVE  FreeTree' /\ OnPath' /\ ToGo' /\ Emptied'
<1>1. keys' = keys /\ view' = view /\ pc = "count"
  BY DEF QueryInfoKey, view
<1>2. stack \in Seq(Frames) /\ stack # <<>> /\ Len(stack) \in Nat /\ Len(stack) > 0
  BY LenProperties, EmptySeq DEF RegIInv, CallOK, HandlesInv, QueryInfoKey
<1>3. ~top.gone
  BY <1>2 DEF OnPath, top
<1> DEFINE f == [top EXCEPT !.cnt = Cardinality(SubKeys(view, top.path))]
<1>4. stack' = [stack EXCEPT ![Len(stack)] = f] /\ pc' = "next"
  BY <1>3 DEF QueryInfoKey, WithTop
<1>5. f \in Frames /\ f.path = top.path /\ f.gone = top.gone /\ f.cnt = Cardinality(SubKeys(view, top.path))
  <2>1. top \in Frames /\ top.path \in Paths
    BY <1>2, TopIsFrame DEF RegIInv
  <2>2. Cardinality(SubKeys(view, top.path)) \in Nat
    BY SubKeysFinite
  <2> QED BY <2>1, <2>2 DEF Frames
<1> HIDE DEF f
<1>6. /\ Len(stack') = Len(stack) /\ stack'[Len(stack)] = f
      /\ \A i \in 1..Len(stack) - 1 : stack'[i] = stack[i]
  BY <1>2, <1>4, <1>5, ChangeTop
<1>7. \A i \in 1..Len(stack) : stack'[i].path = stack[i].path /\ stack'[i].gone = stack[i].gone
  <2>1. \A i \in 1..Len(stack) : i = Len(stack) \/ i \in 1..Len(stack) - 1
    BY <1>2
  <2> QED BY <1>5, <1>6, <2>1 DEF top
<1>8. FreeTree'
  BY <1>1 DEF FreeTree
<1>9. OnPath'
  <2>1. \A i \in 1..Len(stack) - 1 : i \in 1..Len(stack) /\ i + 1 \in 1..Len(stack)
    BY <1>2
  <2> QED BY <1>1, <1>6, <1>7, <2>1 DEF OnPath
<1>10. ToGo'
  <2>1. top' = f
    BY <1>6 DEF top
  <2>2. top'.cnt = Cardinality(Below(keys'[view'], top'.path))
    BY <1>1, <1>5, <2>1, SubKeysBelow
  <2>3. \A i \in 1..Len(stack') - 1 : stack'[i].cnt + 1 = Cardinality(Below(keys'[view'], stack'[i].path))
    BY <1>1, <1>6 DEF ToGo
  <2> QED BY <2>2, <2>3 DEF ToGo
<1>11. Emptied'
  BY <1>4 DEF Emptied
<1> QED BY <1>8, <1>9, <1>10, <1>11

LEMMA FreeEnumKey ==
    ASSUME RegIInv, EnumKey, FreeTree, OnPath, ToGo
    PROVE  FreeTree' /\ OnPath' /\ ToGo' /\ Emptied'
<1>1. keys' = keys /\ view' = view /\ pc = "next"
  BY DEF EnumKey, view
<1>2. stack \in Seq(Frames) /\ stack # <<>> /\ Len(stack) \in Nat /\ Len(stack) > 0
  BY LenProperties, EmptySeq DEF RegIInv, CallOK, HandlesInv, EnumKey
<1>3. ~top.gone /\ top.path \in keys[view] /\ Len(top.path) = Len(stack) - 1
  BY <1>2 DEF OnPath, top
<1>4. top.cnt = Cardinality(Below(keys[view], top.path))
  BY <1>1 DEF ToGo
<1>5. FreeTree'
  BY <1>1 DEF FreeTree
<1>6. CASE top.cnt = 0
  <2>1. ok' = TRUE /\ pc' = "return" /\ stack' = stack
    BY <1>6 DEF EnumKey
  <2>2. Below(keys[view], top.path) = {}
    <3>1. IsFiniteSet(Below(keys[view], top.path))
      BY SubKeysBelow, SubKeysFinite
    <3> QED BY <1>4, <1>6, <3>1, FS_EmptySet
  <2>3. OnPath' /\ ToGo'
    BY <1>1, <2>1 DEF OnPath, ToGo
  <2>4. Emptied'
    <3>1. top' = top
      BY <2>1 DEF top
    <3> QED BY <1>1, <2>1, <2>2, <3>1 DEF Emptied
  <2> QED BY <1>5, <2>3, <2>4
<1>7. CASE top.cnt # 0
  <2>1. ~(top.cnt > Cardinality(SubKeys(view, top.path))) /\ top.cnt <= Cardinality(SubKeys(view, top.path))
    BY <1>4, SubKeysBelow, SubKeysFinite
  <2> DEFINE m == Nth(SubKeys(view, top.path), top.cnt)
             f == [top EXCEPT !.cnt = @ - 1]
             p == Append(top.path, Names[m])
             t == [stack EXCEPT ![Len(stack)] = f]
  <2>2. stack' = t \o <<Frame(p)>> /\ pc' = "enter"
    BY <1>3, <1>7, <2>1 DEF EnumKey, WithTop
  <2>3. top \in Frames /\ top.path \in Paths /\ top.cnt \in Nat
    BY <1>2, TopIsFrame DEF RegIInv
  <2>4. f \in Frames /\ f.path = top.path /\ f.gone = top.gone /\ f.cnt + 1 = top.cnt
    BY <1>7, <2>3 DEF Frames
  <2>5. m \in DOMAIN Names /\ p \in keys[view] /\ p \in Paths
    <3>1. m \in SubKeys(view, top.path) /\ p \in keys[view] /\ p \in Paths
      BY <1>7, <2>1, <2>3, ToldKey, ViewIsView DEF RegIInv
    <3> QED BY <3>1 DEF SubKeys
  <2>6. Len(p) = Len(stack)
    <3>1. top.path \in Seq(NameSet) /\ Names[m] \in NameSet
      BY <2>3, <2>5, RegAssumption DEF NameSet
    <3>2. Len(p) = Len(top.path) + 1
      BY <3>1, AppendProperties
    <3> QED BY <1>2, <1>3, <3>2
  <2> HIDE DEF m, f
  <2>7. /\ t \in Seq(Frames) /\ Len(t) = Len(stack) /\ t[Len(stack)] = f
        /\ \A i \in 1..Len(stack) - 1 : t[i] = stack[i]
    BY <1>2, <2>4, ChangeTop
  <2> DEFINE g == Frame(p)
  <2>8. g \in Frames /\ g.path = p /\ ~g.gone
    BY <2>5, FrameIsFrame DEF Frame
  <2> HIDE DEF t, p, g
  <2>9. /\ Len(stack') = Len(stack) + 1 /\ stack'[Len(stack) + 1] = g
        /\ \A i \in 1..Len(stack) : stack'[i] = t[i]
    <3>1. stack' = t \o <<g>>
      BY <2>2 DEF g
    <3>2. /\ Len(t \o <<g>>) = Len(t) + 1 /\ (t \o <<g>>)[Len(t) + 1] = g
          /\ \A i \in 1..Len(t) : (t \o <<g>>)[i] = t[i]
      <4>1. t \in Seq(Frames) /\ g \in Frames
        BY <2>7, <2>8
      <4> QED BY <4>1, Push
    <3>3. Len(t) = Len(stack)
      BY <2>7
    <3> QED BY <3>1, <3>2, <3>3
  <2>10. \A i \in 1..Len(stack) : i = Len(stack) \/ i \in 1..Len(stack) - 1
    BY <1>2
  <2>11. \A i \in 1..Len(stack) : stack'[i].path = stack[i].path /\ stack'[i].gone = stack[i].gone
    BY <2>4, <2>7, <2>9, <2>10 DEF top
  <2>12. OnPath'
    <3>1. ASSUME NEW i \in 1..Len(stack')
          PROVE  ~stack'[i].gone /\ stack'[i].path \in keys[view] /\ Len(stack'[i].path) = i - 1
      <4>1. CASE i \in 1..Len(stack)
        BY <2>11, <4>1 DEF OnPath
      <4>2. CASE i = Len(stack) + 1
        <5>1. stack'[i] = g /\ i - 1 = Len(stack)
          BY <1>2, <2>9, <4>2
        <5> QED BY <2>5, <2>6, <2>8, <5>1
      <4>3. i \in 1..Len(stack) \/ i = Len(stack) + 1
        BY <1>2, <2>9
      <4> QED BY <4>1, <4>2, <4>3
    <3>2. ASSUME NEW i \in 1..Len(stack') - 1
          PROVE  \E n \in DOMAIN Names : stack'[i + 1].path = Append(stack'[i].path, Names[n])
      <4>1. CASE i \in 1..Len(stack) - 1
        <5>1. i \in 1..Len(stack) /\ i + 1 \in 1..Len(stack)
          BY <1>2, <4>1
        <5> QED BY <2>11, <4>1, <5>1 DEF OnPath
      <4>2. CASE i = Len(stack)
        <5>1. stack'[i].path = top.path /\ stack'[i + 1].path = p
          BY <1>2, <2>8, <2>9, <2>11, <4>2 DEF top
        <5> QED BY <2>5, <5>1 DEF p
      <4>3. i \in 1..Len(stack) - 1 \/ i = Len(stack)
        BY <1>2, <2>9
      <4> QED BY <4>1, <4>2, <4>3
    <3> QED BY <1>1, <3>1, <3>2 DEF OnPath
  <2>13. ToGo'
    <3>1. ASSUME NEW i \in 1..Len(stack') - 1
          PROVE  stack'[i].cnt + 1 = Cardinality(Below(keys[view], stack'[i].path))
      <4>1. CASE i \in 1..Len(stack) - 1
        <5>1. stack'[i] = stack[i]
          BY <1>2, <2>7, <2>9, <4>1
        <5> QED BY <4>1, <5>1 DEF ToGo
      <4>2. CASE i = Len(stack)
        <5>1. stack'[i] = f
          BY <1>2, <2>7, <2>9, <4>2
        <5> QED BY <1>4, <2>4, <5>1
      <4>3. i \in 1..Len(stack) - 1 \/ i = Len(stack)
        BY <1>2, <2>9
      <4> QED BY <4>1, <4>2, <4>3
    <3> QED BY <1>1, <2>2, <3>1 DEF ToGo
  <2>14. Emptied'
    BY <2>2 DEF Emptied
  <2> QED BY <1>5, <2>12, <2>13, <2>14
<1> QED BY <1>6, <1>7

LEMMA FreeOpenSubKey ==
    ASSUME RegIInv, OpenSubKey, FreeTree, OnPath, ToGo
    PROVE  FreeTree' /\ OnPath' /\ ToGo' /\ Emptied'
<1>1. keys' = keys /\ view' = view /\ pc = "enter"
  BY DEF OpenSubKey, view
<1>2. stack \in Seq(Frames) /\ stack # <<>> /\ Len(stack) \in Nat /\ Len(stack) > 1
  BY LenProperties DEF RegIInv, CallOK, HandlesInv, OpenSubKey
<1>3. top.path \in keys[view]
  BY <1>2 DEF OnPath, top
<1>4. ~parent[Len(parent)].gone
  <2>1. Len(parent) = Len(stack) - 1 /\ parent[Len(stack) - 1] = stack[Len(stack) - 1]
    BY <1>2, ParentFrames DEF RegIInv
  <2>2. ~stack[Len(stack) - 1].gone
    BY <1>2 DEF OnPath
  <2> QED BY <2>1, <2>2
<1>5. Openable(view, top.path)
  BY <1>3 DEF Openable, HasKey, FreeTree
<1> DEFINE f == Frame(top.path)
<1>6. stack' = [stack EXCEPT ![Len(stack)] = f] /\ pc' = "count"
  BY <1>4, <1>5 DEF OpenSubKey, WithTop
<1>7. f \in Frames /\ f.path = top.path /\ ~f.gone
  BY <1>2, TopIsFrame, FrameIsFrame DEF RegIInv, Frame
<1> HIDE DEF f
<1>8. /\ Len(stack') = Len(stack) /\ stack'[Len(stack)] = f
      /\ \A i \in 1..Len(stack) - 1 : stack'[i] = stack[i]
  BY <1>2, <1>6, <1>7, ChangeTop
<1>9. \A i \in 1..Len(stack) : stack'[i].path = stack[i].path /\ ~stack'[i].gone
  <2>1. \A i \in 1..Len(stack) : i = Len(stack) \/ i \in 1..Len(stack) - 1
    BY <1>2
  <2> QED BY <1>7, <1>8, <2>1 DEF top, OnPath
<1>10. FreeTree'
  BY <1>1 DEF FreeTree
<1>11. OnPath'
  <2>1. \A i \in 1..Len(stack) - 1 : i \in 1..Len(stack) /\ i + 1 \in 1..Len(stack)
    BY <1>2
  <2> QED BY <1>1, <1>8, <1>9, <2>1 DEF OnPath
<1>12. ToGo' /\ Emptied'
  BY <1>1, <1>6, <1>8 DEF ToGo, Emptied
<1> QED BY <1>10, <1>11, <1>12

LEMMA FreeReturn ==
    ASSUME RegIInv, Return, FreeTree, OnPath, ToGo, Emptied
    PROVE  FreeTree' /\ OnPath' /\ ToGo' /\ Emptied' /\ pc' # "idle"
<1>1. keys' = keys /\ view' = view /\ ok' = ok /\ pc = "return"
  BY DEF Return, view
<1>2. ok /\ Below(keys[view], top.path) = {}
  BY <1>1, SubKeysBelow DEF Emptied
<1>3. FreeTree'
  BY <1>1 DEF FreeTree
<1>4. CASE Len(stack) > 1
  <2>1. stack' = stack /\ pc' = "remove"
    BY <1>2, <1>4 DEF Return
  <2>2. OnPath' /\ ToGo' /\ Emptied'
    <3>1. top' = top
      BY <2>1 DEF top
    <3> QED BY <1>1, <1>2, <2>1, <3>1 DEF OnPath, ToGo, Emptied
  <2> QED BY <1>3, <2>1, <2>2
<1>5. CASE ~(Len(stack) > 1)
  <2>1. stack' = <<>> /\ pc' = "finish"
    BY <1>2, <1>5 DEF Return
  <2>2. top.path = <<>>
    <3>1. /\ Len(stack) \in Nat /\ Len(stack) > 0
          /\ top.path \in Seq(NameSet)
      BY RegAssumption, TopIsFrame DEF RegIInv, HandlesInv, Return
    <3>2. Len(stack) = 1
      <4>1. \A n \in Nat : n > 0 /\ ~(n > 1) => n = 1
        OBVIOUS
      <4> QED BY <1>5, <3>1, <4>1
    <3>3. Len(top.path) = 0
      BY <3>2 DEF OnPath, top
    <3> QED BY <3>1, <3>3, EmptySeq
  <2>3. Len(stack') = 0
    BY <2>1
  <2>4. OnPath' /\ ToGo'
    BY <2>1, <2>3 DEF OnPath, ToGo
  <2>5. Emptied'
    BY <1>1, <1>2, <2>1, <2>2 DEF Emptied
  <2> QED BY <1>3, <2>1, <2>4, <2>5
<1> QED BY <1>4, <1>5

(* Deleting the key on top takes one from the keys of its parent, and none *)
(* from the keys of the others.                                            *)
LEMMA FreeRemove ==
    ASSUME RegIInv, Remove, FreeTree, OnPath, ToGo, Emptied
    PROVE  FreeTree' /\ OnPath' /\ ToGo' /\ Emptied'
<1> DEFINE n == Len(stack)
           K == keys[view]
           p == top.path
           q == stack[n - 1].path
<1>1. view' = view /\ pc = "remove" /\ stack' = parent
  BY DEF Remove, view
<1>2. stack \in Seq(Frames) /\ stack # <<>> /\ n \in Nat /\ n > 1
  BY LenProperties DEF RegIInv, CallOK, HandlesInv, Remove
<1>3. /\ Len(stack') = n - 1 /\ Len(parent) = n - 1
      /\ \A i \in 1..n - 1 : stack'[i] = stack[i]
  BY <1>1, <1>2, ParentFrames DEF RegIInv
<1>4. p \in K /\ Len(p) = n - 1 /\ ~stack[n - 1].gone /\ SubKeys(view, p) = {}
  <2>1. n \in 1..n /\ n - 1 \in 1..n
    BY <1>2
  <2>2. p \in K /\ Len(p) = n - 1 /\ ~stack[n - 1].gone
    BY <2>1 DEF OnPath, top
  <2>3. SubKeys(view, p) = {}
    BY <1>1, SubKeysBelow DEF Emptied
  <2> QED BY <2>2, <2>3
<1>5. keys'[view] = K \ {p} /\ pc' = "next"
  <2>1. parent[Len(parent)] = stack[n - 1]
    BY <1>1, <1>2, <1>3
  <2>2. Deletable(view, p)
    BY <1>4 DEF Deletable, HasKey
  <2>3. Delete(view, p) /\ pc' = "next"
    BY <1>4, <2>1, <2>2 DEF Remove
  <2>4. view \in Views /\ DOMAIN keys = Views
    BY ViewIsView DEF RegIInv, KeysOK
  <2> QED BY <2>3, <2>4 DEF Delete
<1>6. \A i \in 1..n - 1 : stack[i].path \in K /\ Len(stack[i].path) = i - 1 /\ stack[i].path # p
  <2>1. ASSUME NEW i \in 1..n - 1
        PROVE  stack[i].path \in K /\ Len(stack[i].path) = i - 1
    <3>1. i \in 1..n
      BY <1>2
    <3> QED BY <3>1 DEF OnPath
  <2>2. ASSUME NEW i \in 1..n - 1 PROVE i - 1 # n - 1
    BY <1>2
  <2> QED BY <1>4, <2>1, <2>2
<1>7. FreeTree'
  <2>1. p # <<>>
    BY <1>2, <1>4
  <2> QED BY <1>1, <1>5, <2>1 DEF FreeTree
<1>8. OnPath'
  <2>1. ASSUME NEW i \in 1..n - 1
        PROVE  ~stack'[i].gone /\ stack'[i].path \in keys'[view] /\ Len(stack'[i].path) = i - 1
    <3>1. i \in 1..n
      BY <1>2
    <3> QED BY <1>3, <1>5, <1>6, <3>1 DEF OnPath
  <2>2. ASSUME NEW i \in 1..n - 2
        PROVE  \E k \in DOMAIN Names : stack'[i + 1].path = Append(stack'[i].path, Names[k])
    <3>1. i \in 1..n - 1 /\ i + 1 \in 1..n - 1
      BY <1>2
    <3> QED BY <1>3, <3>1 DEF OnPath
  <2>3. Len(stack') - 1 = n - 2
    BY <1>2, <1>3
  <2> QED BY <1>1, <1>3, <2>1, <2>2, <2>3 DEF OnPath
<1>9. PICK k \in DOMAIN Names : p = Append(q, Names[k])
  <2>1. n - 1 \in 1..n - 1 /\ n - 1 + 1 = n
    BY <1>2
  <2> QED BY <2>1 DEF OnPath, top
<1>10. \A i \in 1..n - 1 : stack[i].path \in Seq(NameSet)
  <2>1. K \subseteq Seq(NameSet)
    BY RegAssumption, ViewIsView DEF RegIInv, KeysOK
  <2> QED BY <1>6, <2>1
<1>11. \A j \in DOMAIN Names : Names[j] \in NameSet
  BY DEF NameSet
(* Only k names the deleted key.                                           *)
<1>12. \A j \in DOMAIN Names : Append(q, Names[j]) = p => j = k
  <2> SUFFICES ASSUME NEW j \in DOMAIN Names, Append(q, Names[j]) = Append(q, Names[k])
               PROVE  j = k
    BY <1>9
  <2>1. q \in Seq(NameSet)
    BY <1>2, <1>10
  <2>2. Names[j] = Names[k]
    <3> HIDE DEF q
    <3> DEFINE a == Append(q, Names[j])
               b == Append(q, Names[k])
    <3>1. a[Len(q) + 1] = Names[j] /\ b[Len(q) + 1] = Names[k]
      BY <1>11, <2>1, AppendProperties
    <3> QED BY <3>1
  <2> QED BY <2>2, RegAssumption
<1>13. Below(K \ {p}, q) = Below(K, q) \ {k} /\ k \in Below(K, q)
  BY <1>4, <1>9, <1>12 DEF Below
<1>14. Cardinality(Below(K \ {p}, q)) = Cardinality(Below(K, q)) - 1
  <2> DEFINE B == Below(K, q)
  <2>1. IsFiniteSet(B)
    BY SubKeysBelow, SubKeysFinite
  <2>2. k \in B /\ Below(K \ {p}, q) = B \ {k}
    BY <1>13
  <2> HIDE DEF B
  <2>3. Cardinality(B \ {k}) = Cardinality(B) - 1
    BY <2>1, <2>2, FS_RemoveElement
  <2> QED BY <2>2, <2>3 DEF B
<1>15. ASSUME NEW i \in 1..n - 2
       PROVE  Below(K \ {p}, stack[i].path) = Below(K, stack[i].path)
  <2>1. i \in 1..n - 1 /\ i # n - 1
    BY <1>2
  <2>2. ASSUME NEW j \in DOMAIN Names PROVE Append(stack[i].path, Names[j]) # p
    <3>1. Len(Append(stack[i].path, Names[j])) = i - 1 + 1
      BY <1>6, <1>10, <1>11, <2>1, AppendProperties
    <3> QED BY <1>2, <1>4, <2>1, <3>1
  <2> QED BY <2>2 DEF Below
<1>16. ToGo'
  <2>1. ASSUME NEW i \in 1..n - 2
        PROVE  stack'[i].cnt + 1 = Cardinality(Below(keys'[view], stack'[i].path))
    <3>1. i \in 1..n - 1
      BY <1>2
    <3> QED BY <1>3, <1>5, <1>15, <3>1 DEF ToGo
  <2>2. top'.cnt = Cardinality(Below(keys'[view], top'.path))
    <3>1. n - 1 \in 1..n - 1
      BY <1>2
    <3>2. top' = stack[n - 1]
      BY <1>3, <3>1 DEF top
    <3>3. stack[n - 1].cnt + 1 = Cardinality(Below(K, q)) /\ stack[n - 1].cnt \in Nat
      <4>1. stack[n - 1] \in Frames
        BY <1>2, ElementOfSeq
      <4> QED BY <3>1, <4>1 DEF ToGo, Frames
    <3> QED BY <1>5, <1>14, <3>2, <3>3
  <2>3. Len(stack') - 1 = n - 2
    BY <1>2, <1>3
  <2> QED BY <1>1, <2>1, <2>2, <2>3 DEF ToGo
<1>17. Emptied'
  BY <1>5 DEF Emptied
<1> QED BY <1>7, <1>8, <1>16, <1>17

(* Whatever happens, it happens under the same view as long as the call    *)
(* goes on.                                                                *)
LEMMA FreeStep == RegIInv /\ Free /\ [Next]_vars => Free'
<1> SUFFICES ASSUME RegIInv, Free, [Next]_vars, fit', changes' = 0, Deleting'
             PROVE  FreeTree' /\ OnPath' /\ ToGo' /\ Emptied'
  BY DEF Free
<1>1. CASE OpenKey \/ QueryInfoKey \/ EnumKey \/ OpenSubKey \/ Return \/ Remove \/ Finish
  <2>1. fit /\ changes = 0 /\ Deleting
    BY <1>1 DEF OpenKey, QueryInfoKey, EnumKey, OpenSubKey, Return, Remove, Finish, Deleting
  <2>2. FreeTree /\ OnPath /\ ToGo /\ Emptied
    BY <2>1 DEF Free
  <2>3. ~Finish
    BY DEF Finish, Deleting
  <2> QED BY <1>1, <2>2, <2>3, FreeOpenKey, FreeQueryInfoKey, FreeEnumKey, FreeOpenSubKey, FreeReturn, FreeRemove
<1>2. CASE \E s \in BOOLEAN, p \in BOOLEAN : DeleteKey(s, p)
  <2>1. PICK s \in BOOLEAN, p \in BOOLEAN : DeleteKey(s, p)
    BY <1>2
  <2>2. pc' = "open" /\ view' = View(p) /\ keys' = keys /\ stack' = stack
    BY <2>1 DEF DeleteKey, view
  <2>3. FreeTree'
    BY <2>1, <2>2 DEF DeleteKey, FreeTree, HasKey
  <2>4. stack' = <<>> /\ Len(stack') = 0
    BY <2>1, <2>2 DEF DeleteKey, RegIInv, HandlesInv
  <2>5. OnPath' /\ ToGo' /\ Emptied'
    BY <2>2, <2>4 DEF OnPath, ToGo, Emptied
  <2> QED BY <2>3, <2>5
<1>3. CASE \/ Open \/ DeleteValue \/ GetMultiSZValue \/ GetSZValue
           \/ \E w \in Written : SetValue(w)
           \/ \E reader \in {"multi", "string"} : GetValueBufferSize(reader)
  BY <1>3 DEF Open, DeleteValue, GetMultiSZValue, GetSZValue, SetValue, GetValueBufferSize, Deleting
<1>4. CASE \/ \E v \in Views, p \in Paths : OtherCreates(v, p) \/ OtherDeletes(v, p)
           \/ \E w \in Written : OtherWrites(w)
  <2>1. changes' = changes + 1 /\ changes \in Nat
    BY <1>4 DEF OtherCreates, OtherDeletes, OtherWrites, Another, RegIInv, CallOK
  <2> QED BY <2>1
<1>5. CASE UNCHANGED vars
  <2>1. FreeTree /\ OnPath /\ ToGo /\ Emptied
    BY <1>5 DEF vars, Free, Deleting
  <2>2. UNCHANGED <<keys, pc, stack, ok, view, top>>
    BY <1>5 DEF vars, view, top
  <2> QED BY <2>1, <2>2 DEF FreeTree, OnPath, ToGo, Emptied
<1> QED BY <1>1, <1>2, <1>3, <1>4, <1>5 DEF Next

LEMMA FreeInit == Init => Free
BY DEF Init, Free, Deleting

(* DeleteKey deletes the key with all keys below it, and says so, if none  *)
(* of them is locked and nobody acts meanwhile.                            *)
THEOREM DeletesAllAlways == Spec => DeletesAll
<1> DEFINE A == DeleteEnds /\ fit /\ changes = 0
                  => ok' = sub /\ keys'[view] = IF sub THEN {} ELSE {<<>>}
<1>1. RegIInv /\ Free /\ [Next]_vars => [A]_vars
  <2> SUFFICES ASSUME RegIInv, Free, Next, DeleteEnds, fit, changes = 0
               PROVE  ok' = sub /\ keys'[view] = IF sub THEN {} ELSE {<<>>}
    OBVIOUS
  <2>1. FreeTree /\ OnPath /\ ToGo /\ Emptied /\ pc \in {"open", "return", "finish"} /\ pc' = "idle"
    BY DEF Free, DeleteEnds, Deleting
  <2>2. ~OpenKey
    BY <2>1, FreeOpenKey, RegAssumption DEF OpenKey, Openable, HasKey, FreeTree
  <2>3. ~Return
    BY <2>1, FreeReturn
  <2>4. Finish
    <3>1. ~(\E v \in Views, p \in Paths : OtherCreates(v, p) \/ OtherDeletes(v, p))
      BY <2>1 DEF OtherCreates, OtherDeletes, Another
    <3>2. ~(\E w \in Written : OtherWrites(w))
      BY <2>1 DEF OtherWrites, Another
    <3> QED BY <2>1, <2>2, <2>3, <3>1, <3>2
        DEF Next, Open, DeleteValue, DeleteKey, QueryInfoKey, EnumKey, OpenSubKey, Remove,
            SetValue, GetValueBufferSize, GetMultiSZValue, GetSZValue
  <2>5. keys[view] \in SUBSET Paths /\ Closed(keys[view]) /\ DOMAIN keys = Views /\ view \in Views
    BY ViewIsView DEF RegIInv, KeysOK
  <2>6. SubKeys(view, <<>>) = {}
    BY <2>1, <2>4, SubKeysBelow DEF Emptied, Finish
  <2>7. keys[view] = {<<>>}
    <3>1. \A i \in DOMAIN Names : Append(<<>>, Names[i]) \notin keys[view]
      BY <2>6 DEF SubKeys
    <3> QED BY <2>1, <2>5, <3>1, OnlyRoot DEF FreeTree
  <2>8. Deletable(DeleteView, <<>>)
    BY <2>6, <2>7, ViewIsView DEF Deletable, HasKey
  <2>9. ok' = sub
    BY <2>4, <2>8 DEF Finish, RegIInv, CallOK
  <2>10. CASE sub
    <3>1. Delete(view, <<>>)
      BY <2>4, <2>9, <2>10, ViewIsView DEF Finish
    <3> QED BY <2>5, <2>7, <2>9, <2>10, <3>1 DEF Delete
  <2>11. CASE ~sub
    BY <2>4, <2>7, <2>9, <2>11 DEF Finish
  <2> QED BY <2>9, <2>10, <2>11 DEF RegIInv, CallOK
<1> QED BY <1>1, RegInit, RegStep, FreeInit, FreeStep, PTL DEF Spec, DeletesAll
-----------------------------------------------------------------------------
(* The characters of a list of strings.                                    *)
TermStep(list, f) ==
    [i \in 0..Len(list) |-> IF i = 0 THEN <<>> ELSE f[i - 1] \o list[i] \o <<NUL>>]

(* What Terminated's recursion computes exists.                            *)
LEMMA TermExists ==
    ASSUME NEW list, Len(list) \in Nat
    PROVE  \E f : f = TermStep(list, f)
<1> DEFINE N == Len(list)
           E(f, i) == IF i = 0 THEN <<>> ELSE f[i - 1] \o list[i] \o <<NUL>>
           Upto(n, f) == f = [i \in 0..n |-> E(f, i)]
           Bad == {n \in 0..N : ~\E f : Upto(n, f)}
<1>1. ASSUME Bad # {} PROVE FALSE
  <2>1. Bad \in SUBSET Nat
    <3>1. \A n \in 0..N : n \in Nat
      OBVIOUS
    <3> QED BY <3>1
  <2>2. PICK n \in Bad : \A k \in Bad : n <= k
    <3> HIDE DEF Bad
    <3> QED BY <1>1, <2>1, SmallestPlace
  <2>3. n \in 0..N /\ ~\E f : Upto(n, f)
    BY <2>2
  <2>4. CASE n = 0
    <3> DEFINE g == [i \in 0..0 |-> <<>>]
    <3>1. g = [i \in 0..0 |-> E(g, i)]
      OBVIOUS
    <3>2. Upto(0, g)
      BY <3>1
    <3> QED BY <2>3, <2>4, <3>2
  <2>5. CASE n # 0
    <3>1. n - 1 \in 0..N /\ n \in Nat /\ n > 0 /\ ~(n <= n - 1)
      BY <2>3, <2>5
    <3>2. n - 1 \notin Bad
      BY <2>2, <3>1
    <3>3. PICK f : Upto(n - 1, f)
      BY <3>1, <3>2
    <3> DEFINE g == [i \in 0..n |-> E(f, i)]
    <3>4. \A i \in 0..n : E(g, i) = E(f, i)
      <4> SUFFICES ASSUME NEW i \in 0..n, i # 0 PROVE g[i - 1] = f[i - 1]
        OBVIOUS
      <4>1. i - 1 \in 0..n /\ i - 1 \in 0..n - 1
        BY <3>1
      <4>2. f[i - 1] = E(f, i - 1)
        BY <3>3, <4>1
      <4>3. g[i - 1] = E(f, i - 1)
        BY <4>1
      <4> QED BY <4>2, <4>3
    <3>5. g = [i \in 0..n |-> E(g, i)]
      BY <3>4
    <3> QED BY <2>3, <3>5
  <2> QED BY <2>4, <2>5
<1>2. N \in 0..N
  OBVIOUS
<1>3. PICK f : Upto(N, f)
  BY <1>1, <1>2
<1> QED BY <1>3 DEF TermStep

LEMMA TermIs ==
    ASSUME NEW list, Len(list) \in Nat
    PROVE  \E f : f = TermStep(list, f) /\ Terminated(list) = f[Len(list)]
<1> DEFINE f == CHOOSE f : f = TermStep(list, f)
<1>1. Terminated(list) = f[Len(list)]
  BY DEF Terminated, TermStep
<1>2. f = TermStep(list, f)
  BY TermExists
<1> QED BY <1>1, <1>2
(* What a string s adds to the characters p: itself and a terminator.      *)
Adds(p, s, r) ==
    /\ r \in Seq(Nat)
    /\ Len(r) = Len(p) + Len(s) + 1
    /\ \A i \in 1..Len(p) : r[i] = p[i]
    /\ \A i \in 1..Len(s) : r[Len(p) + i] = s[i]
    /\ r[Len(r)] = NUL

LEMMA TermAdds ==
    ASSUME NEW list \in Seq(Strings), NEW f, f = TermStep(list, f),
           NEW k \in 1..Len(list), f[k - 1] \in Seq(Nat)
    PROVE  Adds(f[k - 1], list[k], f[k])
<1> DEFINE p == f[k - 1]
           s == list[k]
<1>1. Len(list) \in Nat
  BY LenProperties
<1>2. s \in Seq(Nat \ {NUL}) /\ s \in Seq(Nat)
  <2>1. s \in Seq(Nat \ {NUL})
    BY ElementOfSeq DEF Strings
  <2> QED BY <2>1, SeqMonotonic
<1>3. f[k] = p \o s \o <<NUL>>
  <2>1. k \in 0..Len(list) /\ k # 0
    BY <1>1
  <2>2. f[k] = TermStep(list, f)[k]
    OBVIOUS
  <2> QED BY <2>1, <2>2 DEF TermStep
<1>4. p \in Seq(Nat)
  OBVIOUS
<1> HIDE DEF p, s
<1> DEFINE q == p \o s
<1>5. /\ q \in Seq(Nat) /\ Len(q) = Len(p) + Len(s)
      /\ \A i \in 1..Len(p) + Len(s) : q[i] = IF i <= Len(p) THEN p[i] ELSE s[i - Len(p)]
  BY <1>2, <1>4, ConcatProperties
<1> DEFINE r == f[k]
<1>6. r = q \o <<NUL>>
  BY <1>3
<1> HIDE DEF q, r
<1>7. NUL \in Nat
  BY DEF NUL
<1>8. /\ r \in Seq(Nat) /\ Len(r) = Len(q) + 1 /\ r[Len(q) + 1] = NUL
      /\ \A i \in 1..Len(q) : r[i] = q[i]
  <2>1. q \in Seq(Nat)
    BY <1>5
  <2> DEFINE u == q \o <<NUL>>
  <2>2. /\ u \in Seq(Nat) /\ Len(u) = Len(q) + 1 /\ u[Len(q) + 1] = NUL
        /\ \A i \in 1..Len(q) : u[i] = q[i]
    BY <1>7, <2>1, Push
  <2>3. r = u
    BY <1>6
  <2> HIDE DEF u
  <2> QED BY <2>2, <2>3
<1>9. Len(p) \in Nat /\ Len(s) \in Nat
  BY <1>2, <1>4, LenProperties
<1>10. \A i \in 1..Len(p) : r[i] = p[i]
  <2> TAKE i \in 1..Len(p)
  <2>1. i \in 1..Len(p) + Len(s) /\ i \in 1..Len(q) /\ i <= Len(p)
    BY <1>5, <1>9
  <2> QED BY <1>5, <1>8, <2>1
<1>11. \A i \in 1..Len(s) : r[Len(p) + i] = s[i]
  <2> TAKE i \in 1..Len(s)
  <2> DEFINE j == Len(p) + i
  <2>1. j \in 1..Len(p) + Len(s) /\ j \in 1..Len(q) /\ ~(j <= Len(p)) /\ j - Len(p) = i
    BY <1>5, <1>9
  <2> HIDE DEF j
  <2>2. r[j] = s[i]
    BY <1>5, <1>8, <2>1
  <2> QED BY <2>2 DEF j
<1>12. Len(r) = Len(p) + Len(s) + 1 /\ r[Len(r)] = NUL
  BY <1>5, <1>8
<1>13. Adds(p, s, r)
  BY <1>8, <1>10, <1>11, <1>12 DEF Adds
<1> QED BY <1>13 DEF p, s, r

LEMMA TermPrefix ==
    ASSUME NEW list \in Seq(Strings), NEW f, f = TermStep(list, f)
    PROVE  /\ f[0] = <<>>
           /\ \A k \in 0..Len(list) :
                  /\ f[k] \in Seq(Nat) /\ Len(f[k]) <= Len(f[Len(list)])
                  /\ \A i \in 1..Len(f[k]) : f[Len(list)][i] = f[k][i]
<1> DEFINE N == Len(list)
           Bad == {k \in 0..N : f[k] \notin Seq(Nat)}
           Ext(k) == Len(f[k]) <= Len(f[N]) /\ \A i \in 1..Len(f[k]) : f[N][i] = f[k][i]
           Far == {n \in 0..N : ~Ext(N - n)}
<1>1. N \in Nat
  BY LenProperties
<1>2. f[0] = <<>>
  <2>1. f[0] = TermStep(list, f)[0]
    OBVIOUS
  <2> QED BY <1>1, <2>1 DEF TermStep
<1> HIDE DEF N
<1>3. ASSUME Bad # {} PROVE FALSE
  <2>1. Bad \in SUBSET Nat
    <3>1. \A k \in 0..N : k \in Nat
      OBVIOUS
    <3> QED BY <3>1
  <2>2. PICK k \in Bad : \A n \in Bad : k <= n
    <3> HIDE DEF Bad
    <3> QED BY <1>3, <2>1, SmallestPlace
  <2>3. k \in 0..N /\ f[k] \notin Seq(Nat)
    BY <2>2
  <2>4. k # 0
    BY <1>2, <2>3, EmptySeq
  <2>5. k \in 1..N /\ k - 1 \in 0..N /\ ~(k <= k - 1)
    BY <1>1, <2>3, <2>4
  <2>6. f[k - 1] \in Seq(Nat)
    BY <2>2, <2>5
  <2>7. k \in 1..Len(list)
    BY <2>5 DEF N
  <2>8. Adds(f[k - 1], list[k], f[k])
    BY <2>6, <2>7, TermAdds
  <2> QED BY <2>3, <2>8 DEF Adds
<1>4. \A k \in 0..N : f[k] \in Seq(Nat) /\ Len(f[k]) \in Nat
  BY <1>3, LenProperties
<1>adds. ASSUME NEW k \in 1..N PROVE Adds(f[k - 1], list[k], f[k])
  <2>1. k \in 1..Len(list) /\ k - 1 \in 0..N
    BY <1>1 DEF N
  <2>2. f[k - 1] \in Seq(Nat)
    BY <1>4, <2>1
  <2> QED BY <2>1, <2>2, TermAdds
<1> HIDE DEF Ext
<1>5. ASSUME Far # {} PROVE FALSE
  <2>1. Far \in SUBSET Nat
    <3>1. \A k \in 0..N : k \in Nat
      OBVIOUS
    <3> QED BY <3>1
  <2>2. PICK n \in Far : \A m \in Far : n <= m
    <3> HIDE DEF Far
    <3> QED BY <1>5, <2>1, SmallestPlace
  <2>3. n \in 0..N /\ ~Ext(N - n)
    BY <2>2
  <2>4. n # 0
    <3>1. N - 0 = N /\ N \in 0..N
      BY <1>1
    <3>2. Ext(N)
      BY <1>4, <3>1 DEF Ext
    <3> QED BY <2>3, <3>1, <3>2
  <2> DEFINE k == N - n + 1
  <2>5. k \in 1..N /\ k \in 0..N /\ k - 1 \in 0..N /\ k - 1 = N - n
    BY <1>1, <2>3, <2>4
  <2>6. n - 1 \in 0..N /\ ~(n <= n - 1) /\ N - (n - 1) = k
    BY <1>1, <2>3, <2>4
  <2>7. Ext(k)
    BY <2>2, <2>6
  <2> HIDE DEF k
  <2>8. /\ Len(f[k]) = Len(f[k - 1]) + Len(list[k]) + 1
        /\ \A i \in 1..Len(f[k - 1]) : f[k][i] = f[k - 1][i]
    BY <1>adds, <2>5 DEF Adds
  <2>9. Len(list[k]) \in Nat
    <3>1. list[k] \in Seq(Nat \ {NUL})
      BY <2>5, ElementOfSeq DEF Strings, N
    <3> QED BY <3>1, LenProperties
  <2>10. N \in 0..N
    BY <1>1
  <2>11. Ext(k - 1)
    <3> DEFINE p == f[k - 1]
               r == f[k]
               t == f[N]
    <3>1. /\ Len(p) \in Nat /\ Len(r) \in Nat /\ Len(t) \in Nat /\ Len(list[k]) \in Nat
          /\ Len(r) = Len(p) + Len(list[k]) + 1 /\ Len(r) <= Len(t)
          /\ \A i \in 1..Len(r) : t[i] = r[i]
          /\ \A i \in 1..Len(p) : r[i] = p[i]
      BY <1>4, <2>5, <2>7, <2>8, <2>9, <2>10 DEF Ext
    <3> HIDE DEF p, r, t
    <3>2. Len(p) <= Len(t) /\ \A i \in 1..Len(p) : i \in 1..Len(r)
      BY <3>1
    <3>3. Len(p) <= Len(t) /\ \A i \in 1..Len(p) : t[i] = p[i]
      BY <3>1, <3>2
    <3> QED BY <3>3 DEF Ext, p, t
  <2> QED BY <2>3, <2>5, <2>11
<1>6. \A k \in 0..N : Ext(k)
  <2> TAKE k \in 0..N
  <2>1. N - k \in 0..N /\ N - (N - k) = k
    BY <1>1
  <2> QED BY <1>5, <2>1
<1> QED BY <1>2, <1>4, <1>6 DEF Ext, N

-----------------------------------------------------------------------------
(* The walk through the characters.                                        *)
WalkStep(chars, from) ==
    [i \in 1..Len(chars) + 2 |->
        IF i > Len(chars) THEN Garbage
        ELSE IF chars[i] = NUL THEN <<>>
        ELSE IF Ends(chars, i) = {} THEN Garbage
        ELSE <<SubSeq(chars, i, End(chars, i) - 1)>> \o from[End(chars, i) + 1]]

LEMMA EndsHere ==
    ASSUME NEW chars, Len(chars) \in Nat, NEW i \in Nat, i >= 1, Ends(chars, i) # {}
    PROVE  End(chars, i) \in i..Len(chars)
<1> DEFINE S == Ends(chars, i)
<1>1. S \in SUBSET Nat
  <2>1. \A j \in i..Len(chars) : j \in Nat
    OBVIOUS
  <2> QED BY <2>1 DEF Ends
<1>2. \E j \in S : \A k \in S : j <= k
  <2> HIDE DEF S
  <2> QED BY <1>1, SmallestPlace DEF S
<1>3. End(chars, i) \in S
  BY <1>2 DEF End
<1> QED BY <1>3 DEF Ends

(* The walk ends, for it goes forward.                                     *)
LEMMA WalkExists ==
    ASSUME NEW chars, Len(chars) \in Nat
    PROVE  \E from : from = WalkStep(chars, from)
<1> DEFINE L == Len(chars) + 2
           E(f, i) == IF i > Len(chars) THEN Garbage
                      ELSE IF chars[i] = NUL THEN <<>>
                      ELSE IF Ends(chars, i) = {} THEN Garbage
                      ELSE <<SubSeq(chars, i, End(chars, i) - 1)>> \o f[End(chars, i) + 1]
           Last(n, f) == f = [i \in L - n..L |-> E(f, i)]
           Bad == {n \in 0..L - 1 : ~\E f : Last(n, f)}
<1>1. L \in Nat /\ L >= 2 /\ Len(chars) = L - 2
  OBVIOUS
<1>2. ASSUME Bad # {} PROVE FALSE
  <2>1. Bad \in SUBSET Nat
    <3>1. \A n \in 0..L - 1 : n \in Nat
      OBVIOUS
    <3> QED BY <3>1
  <2>2. PICK n \in Bad : \A k \in Bad : n <= k
    <3> HIDE DEF Bad
    <3> QED BY <1>2, <2>1, SmallestPlace
  <2>3. n \in 0..L - 1 /\ ~\E f : Last(n, f)
    BY <2>2
  <2>4. CASE n = 0
    <3> DEFINE g == [i \in L - 0..L |-> Garbage]
    <3>1. \A i \in L - 0..L : i > Len(chars)
      BY <1>1
    <3>2. g = [i \in L - 0..L |-> E(g, i)]
      BY <3>1
    <3> QED BY <2>3, <2>4, <3>2
  <2>5. CASE n # 0
    <3>1. n - 1 \in 0..L - 1 /\ n \in Nat /\ n > 0 /\ ~(n <= n - 1) /\ L - n >= 1 /\ L - n \in Nat
      BY <1>1, <2>3, <2>5
    <3>2. n - 1 \notin Bad
      BY <2>2, <3>1
    <3>3. PICK f : Last(n - 1, f)
      BY <3>1, <3>2
    <3> DEFINE g == [i \in L - n..L |-> E(f, i)]
    <3>4. \A i \in L - n..L : E(g, i) = E(f, i)
      <4> SUFFICES ASSUME NEW i \in L - n..L PROVE E(g, i) = E(f, i)
        OBVIOUS
      <4> DEFINE e == End(chars, i)
      <4>1. ASSUME Ends(chars, i) # {} PROVE g[e + 1] = f[e + 1]
        <5>1. i \in Nat /\ i >= 1
          BY <1>1, <3>1
        <5>2. e \in i..Len(chars)
          BY <4>1, <5>1, EndsHere
        <5> HIDE DEF e
        <5>3. e + 1 \in L - n..L /\ e + 1 \in L - (n - 1)..L
          BY <1>1, <3>1, <5>1, <5>2
        <5>4. f[e + 1] = E(f, e + 1)
          BY <3>3, <5>3
        <5>5. g[e + 1] = E(f, e + 1)
          BY <5>3
        <5> QED BY <5>4, <5>5
      <4> HIDE DEF g, e
      <4>2. CASE Ends(chars, i) = {}
        BY <4>2
      <4>3. CASE Ends(chars, i) # {}
        BY <4>1, <4>3 DEF e
      <4> QED BY <4>2, <4>3
    <3>5. g = [i \in L - n..L |-> E(g, i)]
      BY <3>4
    <3> QED BY <2>3, <3>5
  <2> QED BY <2>4, <2>5
<1>3. L - 1 \in 0..L - 1 /\ L - (L - 1) = 1
  BY <1>1
<1>4. PICK f : Last(L - 1, f)
  BY <1>2, <1>3
<1>5. f = [i \in 1..L |-> E(f, i)]
  BY <1>3, <1>4
<1> QED BY <1>5 DEF WalkStep

LEMMA WalkIs ==
    ASSUME NEW chars, Len(chars) \in Nat
    PROVE  \E from : from = WalkStep(chars, from) /\ Walk(chars) = from[1]
<1> DEFINE f == CHOOSE from : from = WalkStep(chars, from)
<1>1. Walk(chars) = f[1]
  BY DEF Walk, WalkStep
<1>2. f = WalkStep(chars, f)
  BY WalkExists
<1> QED BY <1>1, <1>2

(* A string in the characters is found as it is.                           *)
LEMMA OneString ==
    ASSUME NEW chars \in Seq(Nat), NEW s \in Strings, NEW p \in Nat,
           p + Len(s) + 1 <= Len(chars),
           \A i \in 1..Len(s) : chars[p + i] = s[i],
           chars[p + Len(s) + 1] = NUL
    PROVE  /\ Ends(chars, p + 1) # {}
           /\ End(chars, p + 1) = p + Len(s) + 1
           /\ SubSeq(chars, p + 1, p + Len(s)) = s
<1> DEFINE e == p + Len(s) + 1
           S == Ends(chars, p + 1)
<1>1. /\ Len(s) \in Nat /\ Len(chars) \in Nat /\ s \in Seq(Nat \ {NUL})
      /\ \A i \in 1..Len(s) : s[i] \in Nat /\ s[i] # NUL
  <2>1. s \in Seq(Nat \ {NUL})
    BY DEF Strings
  <2>2. Len(s) \in Nat /\ Len(chars) \in Nat
    BY <2>1, LenProperties
  <2>3. \A i \in 1..Len(s) : s[i] \in Nat \ {NUL}
    BY <2>1, ElementOfSeq
  <2> QED BY <2>1, <2>2, <2>3
<1>2. e \in S
  <2>1. e \in p + 1..Len(chars)
    BY <1>1
  <2> QED BY <2>1 DEF Ends
<1>3. ASSUME NEW k \in S PROVE k \in Nat /\ e <= k
  <2>1. k \in p + 1..Len(chars) /\ chars[k] = NUL
    BY DEF Ends
  <2>2. CASE k < e
    <3> DEFINE i == k - p
    <3>1. i \in 1..Len(s) /\ p + i = k
      BY <1>1, <2>1, <2>2
    <3> HIDE DEF i
    <3>2. chars[p + i] = s[i] /\ s[i] # NUL
      BY <1>1, <3>1
    <3> QED BY <2>1, <3>1, <3>2
  <2> QED BY <1>1, <2>1, <2>2
<1>4. e \in Nat
  BY <1>1
<1>5. End(chars, p + 1) = e
  <2> DEFINE j == End(chars, p + 1)
  <2> HIDE DEF e, S
  <2>1. \E i \in S : \A k \in S : i <= k
    BY <1>2, <1>3
  <2>2. j \in S /\ \A k \in S : j <= k
    <3> HIDE DEF j
    <3>1. j = CHOOSE i \in S : \A k \in S : i <= k
      BY DEF j, End, S
    <3> QED BY <2>1, <3>1
  <2> HIDE DEF j
  <2>3. j <= e /\ e <= j /\ j \in Nat
    BY <1>2, <1>3, <2>2
  <2>4. j = e
    BY <1>4, <2>3
  <2> QED BY <2>4 DEF j
<1>6. SubSeq(chars, p + 1, p + Len(s)) = s
  <2> DEFINE t == SubSeq(chars, p + 1, p + Len(s))
             m == p + 1
             n == p + Len(s)
  <2>1. m \in Int /\ n \in Int /\ n - m + 1 = Len(s) /\ (m <= n \/ Len(s) = 0)
    BY <1>1
  <2>2. \A i \in m..n : i \in 1..Len(chars)
    BY <1>1
  <2>3. \A i \in m..n : chars[i] \in Nat
    BY <2>2, ElementOfSeq
  <2> HIDE DEF m, n
  <2>4. /\ SubSeq(chars, m, n) \in Seq(Nat)
        /\ Len(SubSeq(chars, m, n)) = IF m <= n THEN n - m + 1 ELSE 0
        /\ \A i \in 1..n - m + 1 : SubSeq(chars, m, n)[i] = chars[m + i - 1]
    BY <2>1, <2>3, SubSeqProperties
  <2>5. t \in Seq(Nat) /\ Len(t) = Len(s)
    <3>1. Len(SubSeq(chars, m, n)) = Len(s)
      BY <1>1, <2>1, <2>4 DEF m, n
    <3> QED BY <2>4, <3>1 DEF m, n
  <2>6. ASSUME NEW i \in 1..Len(s) PROVE t[i] = s[i]
    <3>1. m + i - 1 = p + i
      BY <1>1 DEF m
    <3>2. SubSeq(chars, m, n)[i] = chars[m + i - 1]
      BY <2>1, <2>4
    <3> QED BY <3>1, <3>2 DEF m, n
  <2>7. s \in Seq(Nat)
    BY <1>1, SeqMonotonic
  <2> HIDE DEF t
  <2>8. t = s
    BY <2>5, <2>6, <2>7, SeqEqual
  <2> QED BY <2>8 DEF t
<1> QED BY <1>2, <1>5, <1>6

(* Where the strings up to the first empty one end.                        *)
LEMMA UpToEmptyIs ==
    ASSUME NEW list \in Seq(Strings)
    PROVE  \E m \in 0..Len(list) : /\ \A i \in 1..m : list[i] # <<>>
                                   /\ m < Len(list) => list[m + 1] = <<>>
                                   /\ UpToEmpty(list) = SubSeq(list, 1, m)
<1> DEFINE N == Len(list)
           P(n) == /\ \A i \in 1..n : list[i] # <<>>
                   /\ n < N => list[n + 1] = <<>>
           S == {i \in 1..N : list[i] = <<>>}
<1>1. N \in Nat
  BY LenProperties
<1>2. \E n \in 0..N : P(n)
  <2>1. CASE S = {}
    <3>1. N \in 0..N /\ ~(N < N)
      BY <1>1
    <3>2. P(N)
      BY <2>1, <3>1
    <3> QED BY <3>1, <3>2
  <2>2. CASE S # {}
    <3>1. S \in SUBSET Nat
      <4>1. \A i \in 1..N : i \in Nat
        OBVIOUS
      <4> QED BY <4>1
    <3>2. PICK m \in S : \A k \in S : m <= k
      <4> HIDE DEF S
      <4> QED BY <2>2, <3>1, SmallestPlace
    <3>3. m \in 1..N /\ list[m] = <<>>
      BY <3>2
    <3>4. m - 1 \in 0..N /\ m - 1 + 1 = m /\ \A i \in 1..m - 1 : i \in 1..N /\ ~(m <= i)
      BY <1>1, <3>3
    <3>5. \A i \in 1..m - 1 : list[i] # <<>>
      BY <3>2, <3>4
    <3>6. P(m - 1)
      BY <3>3, <3>4, <3>5
    <3> QED BY <3>4, <3>6
  <2> QED BY <2>1, <2>2
<1> DEFINE m == CHOOSE n \in 0..N : P(n)
<1>3. m \in 0..N /\ P(m)
  <2> HIDE DEF P
  <2> QED BY <1>2
<1>4. UpToEmpty(list) = SubSeq(list, 1, m)
  BY DEF UpToEmpty
<1> HIDE DEF m
<1> QED BY <1>3, <1>4

(* String s, with its terminator, is what is in T from p to n.             *)
Holds(T, p, s, n) ==
    /\ p \in Nat /\ s \in Strings /\ Len(s) \in Nat
    /\ n = p + Len(s) + 1 /\ n <= Len(T)
    /\ \A i \in 1..Len(s) : T[p + i] = s[i]
    /\ T[n] = NUL

LEMMA Placed ==
    ASSUME NEW list \in Seq(Strings), NEW f, f = TermStep(list, f), NEW k \in 1..Len(list)
    PROVE  Holds(f[Len(list)], Len(f[k - 1]), list[k], Len(f[k]))
<1> DEFINE T == f[Len(list)]
           p == f[k - 1]
           s == list[k]
           r == f[k]
<1>1. Len(list) \in Nat
  BY LenProperties
<1>2. k \in 0..Len(list) /\ k - 1 \in 0..Len(list)
  BY <1>1
<1>3. /\ p \in Seq(Nat) /\ r \in Seq(Nat) /\ Len(r) <= Len(T)
      /\ \A i \in 1..Len(r) : T[i] = r[i]
  BY <1>2, TermPrefix
<1>4. Adds(p, s, r)
  BY <1>3, TermAdds
<1>5. s \in Strings /\ s \in Seq(Nat \ {NUL})
  BY ElementOfSeq DEF Strings
<1> HIDE DEF T, p, s, r
<1>6. Len(p) \in Nat /\ Len(r) \in Nat /\ Len(s) \in Nat
  BY <1>3, <1>5, LenProperties
<1>7. Len(r) = Len(p) + Len(s) + 1
  BY <1>4 DEF Adds
<1>8. ASSUME NEW i \in 1..Len(s) PROVE T[Len(p) + i] = s[i]
  <2> DEFINE j == Len(p) + i
  <2>1. j \in 1..Len(r)
    BY <1>6, <1>7
  <2>2. r[j] = s[i]
    BY <1>4 DEF Adds
  <2> QED BY <1>3, <2>1, <2>2
<1>9. T[Len(r)] = NUL
  <2>1. Len(r) \in 1..Len(r)
    BY <1>6, <1>7
  <2>2. r[Len(r)] = NUL
    BY <1>4 DEF Adds
  <2> QED BY <1>3, <2>1, <2>2
<1>10. Holds(T, Len(p), s, Len(r))
  BY <1>3, <1>5, <1>6, <1>7, <1>8, <1>9 DEF Holds
<1> QED BY <1>10 DEF T, p, s, r

(* A list is read as its strings up to the first empty one.                *)
LEMMA ListReadBack ==
    ASSUME NEW list \in Seq(Strings)
    PROVE  Walk(Terminated(list) \o <<NUL>>) = UpToEmpty(list)
<1> DEFINE N == Len(list)
<1>1. N \in Nat
  BY LenProperties
<1>2. PICK f : f = TermStep(list, f) /\ Terminated(list) = f[N]
  BY <1>1, TermIs
<1> DEFINE T == f[N]
           C == T \o <<NUL>>
           o(k) == Len(f[k])
<1>3. /\ T \in Seq(Nat) /\ Len(T) \in Nat /\ o(0) = 0
      /\ \A k \in 0..N : o(k) \in Nat /\ o(k) <= Len(T)
  <2>1. N \in 0..N
    BY <1>1
  <2>2. f[0] = <<>> /\ \A k \in 0..N : f[k] \in Seq(Nat) /\ Len(f[k]) <= Len(f[N])
    BY <1>2, TermPrefix
  <2>3. \A k \in 0..N : Len(f[k]) \in Nat
    BY <2>2, LenProperties
  <2> QED BY <2>1, <2>2, <2>3, EmptySeq
<1>4. ASSUME NEW k \in 1..N
      PROVE  Holds(T, o(k - 1), list[k], o(k))
  BY <1>2, Placed
<1> HIDE DEF T, o, N
<1>5. /\ C \in Seq(Nat) /\ Len(C) = Len(T) + 1 /\ C[Len(T) + 1] = NUL
      /\ \A i \in 1..Len(T) : C[i] = T[i]
  <2>1. NUL \in Nat
    BY DEF NUL
  <2> QED BY <1>3, <2>1, Push
<1> HIDE DEF C
<1>6. PICK w : w = WalkStep(C, w) /\ Walk(C) = w[1]
  <2>1. Len(C) \in Nat
    BY <1>3, <1>5
  <2> QED BY <2>1, WalkIs
<1>7. \A i \in 1..Len(C) + 2 :
         w[i] = IF i > Len(C) THEN Garbage
                ELSE IF C[i] = NUL THEN <<>>
                ELSE IF Ends(C, i) = {} THEN Garbage
                ELSE <<SubSeq(C, i, End(C, i) - 1)>> \o w[End(C, i) + 1]
  BY <1>6 DEF WalkStep
<1>8. PICK m \in 0..N :
          /\ \A i \in 1..m : list[i] # <<>>
          /\ m < N => list[m + 1] = <<>>
          /\ UpToEmpty(list) = SubSeq(list, 1, m)
  BY UpToEmptyIs DEF N
(* Behind the last string that is read there is an empty one, or the end.  *)
<1>9. w[o(m) + 1] = <<>>
  <2> DEFINE i == o(m) + 1
  <2>1. i \in 1..Len(C) + 2 /\ ~(i > Len(C))
    BY <1>3, <1>5
  <2>2. C[i] = NUL
    <3>1. CASE m = N
      <4>1. o(m) = Len(T)
        BY <3>1 DEF T, o
      <4> QED BY <1>5, <4>1
    <3>2. CASE m < N
      <4> DEFINE k == m + 1
      <4>1. k \in 1..N /\ k - 1 = m /\ list[k] = <<>>
        BY <1>1, <1>8, <3>2
      <4>2. Len(list[k]) = 0
        BY <4>1, EmptySeq
      <4> HIDE DEF k
      <4>3. o(k) = o(m) + 0 + 1 /\ o(k) <= Len(T) /\ T[o(k)] = NUL /\ o(m) \in Nat
        BY <1>4, <4>1, <4>2 DEF Holds
      <4>4. o(k) = i /\ i \in 1..Len(T)
        BY <1>3, <4>3
      <4> QED BY <1>5, <4>3, <4>4
    <3> QED BY <1>1, <1>8, <3>1, <3>2
  <2> QED BY <1>7, <2>1, <2>2
(* Every string before it is read and followed by those behind it.         *)
<1>10. ASSUME NEW k \in 1..m
       PROVE  w[o(k - 1) + 1] = <<list[k]>> \o w[o(k) + 1]
  <2> DEFINE p == o(k - 1)
             s == list[k]
  <2>1. k \in 1..N
    BY <1>1, <1>8
  <2>1a. s # <<>>
    BY <1>8
  <2>2. /\ s \in Strings /\ Len(s) \in Nat /\ p \in Nat
        /\ o(k) = p + Len(s) + 1 /\ o(k) <= Len(T)
        /\ \A i \in 1..Len(s) : T[p + i] = s[i]
        /\ T[p + Len(s) + 1] = NUL
    <3>1. Holds(T, p, s, o(k))
      BY <1>4, <2>1
    <3> HIDE DEF p, s
    <3> QED BY <3>1 DEF Holds
  <2> HIDE DEF p, s
  <2>3. Len(s) > 0
    BY <2>1a, <2>2, EmptySeq DEF Strings
  <2>4. p + Len(s) + 1 \in 1..Len(T) /\ \A i \in 1..Len(s) : p + i \in 1..Len(T)
    BY <1>3, <2>2
  <2>5. \A i \in 1..Len(s) : C[p + i] = s[i]
    BY <1>5, <2>2, <2>4
  <2>6. C[p + Len(s) + 1] = NUL /\ p + Len(s) + 1 <= Len(C)
    BY <1>3, <1>5, <2>2, <2>4
  <2>7. /\ Ends(C, p + 1) # {}
        /\ End(C, p + 1) = p + Len(s) + 1
        /\ SubSeq(C, p + 1, p + Len(s)) = s
    BY <1>5, <2>2, <2>5, <2>6, OneString
  <2>8. C[p + 1] # NUL
    <3>1. 1 \in 1..Len(s)
      BY <2>2, <2>3
    <3>2. s[1] \in Nat \ {NUL}
      BY <2>2, <3>1, ElementOfSeq DEF Strings
    <3> QED BY <2>5, <3>1, <3>2
  <2>9. p + 1 \in 1..Len(C) + 2 /\ ~(p + 1 > Len(C))
    BY <1>3, <1>5, <2>2, <2>4
  <2>10. End(C, p + 1) - 1 = p + Len(s) /\ End(C, p + 1) = o(k)
    BY <2>2, <2>7
  <2>11. w[p + 1] = <<SubSeq(C, p + 1, End(C, p + 1) - 1)>> \o w[End(C, p + 1) + 1]
    BY <1>7, <2>7, <2>8, <2>9
  <2> QED BY <2>7, <2>10, <2>11 DEF p, s
<1> DEFINE Bad == {n \in 0..m : w[o(m - n) + 1] # SubSeq(list, m - n + 1, m)}
<1>11. ASSUME Bad # {} PROVE FALSE
  <2>1. Bad \in SUBSET Nat
    <3>1. \A n \in 0..m : n \in Nat
      OBVIOUS
    <3> QED BY <3>1
  <2>2. PICK n \in Bad : \A k \in Bad : n <= k
    <3> HIDE DEF Bad
    <3> QED BY <1>11, <2>1, SmallestPlace
  <2>3. n \in 0..m /\ w[o(m - n) + 1] # SubSeq(list, m - n + 1, m)
    BY <2>2
  <2>4. m \in Nat
    BY <1>1
  <2>5. n # 0
    <3>1. m - 0 = m /\ m < m + 1 /\ m \in Int /\ m + 1 \in Int
      BY <2>4
    <3>2. SubSeq(list, m + 1, m) = <<>>
      BY <3>1, SubSeqEmpty
    <3> QED BY <1>9, <2>3, <3>1, <3>2
  <2> DEFINE k == m - n + 1
  <2>6. k \in 1..m /\ k - 1 = m - n /\ n - 1 \in 0..m /\ ~(n <= n - 1) /\ m - (n - 1) = k
    BY <2>3, <2>4, <2>5
  <2>7. w[o(k) + 1] = SubSeq(list, k + 1, m)
    BY <2>2, <2>6
  <2> HIDE DEF k
  <2>8. w[o(k - 1) + 1] = <<list[k]>> \o SubSeq(list, k + 1, m)
    BY <1>10, <2>6, <2>7
  <2>9. SubSeq(list, k, m) = <<list[k]>> \o SubSeq(list, k + 1, m)
    <3>1. k \in 1..Len(list) /\ m \in k..Len(list)
      BY <1>1, <2>4, <2>6 DEF N
    <3> QED BY <3>1, SubSeqRecursiveFirst
  <2> QED BY <2>3, <2>6, <2>8, <2>9 DEF k
<1>12. w[1] = SubSeq(list, 1, m)
  <2>1. m \in 0..m /\ m - m = 0 /\ 0 + 1 = 1 /\ m - m + 1 = 1
    BY <1>1
  <2>2. w[o(m - m) + 1] = SubSeq(list, m - m + 1, m)
    BY <1>11, <2>1
  <2> QED BY <1>3, <2>1, <2>2
<1>13. C = Terminated(list) \o <<NUL>>
  BY <1>2 DEF T, C
<1> QED BY <1>6, <1>8, <1>12, <1>13

LEMMA TermType ==
    ASSUME NEW list \in Seq(Strings)
    PROVE  Terminated(list) \in Seq(Nat)
<1>1. Len(list) \in Nat /\ Len(list) \in 0..Len(list)
  BY LenProperties
<1>2. PICK f : f = TermStep(list, f) /\ Terminated(list) = f[Len(list)]
  BY <1>1, TermIs
<1> QED BY <1>1, <1>2, TermPrefix

(* A terminated string is read as it is.                                   *)
LEMMA StringReadBack ==
    ASSUME NEW list \in Seq(Strings), Len(list) = 1
    PROVE  LET chars == Terminated(list) IN
           Ends(chars, 1) # {} /\ <<SubSeq(chars, 1, End(chars, 1) - 1)>> = list
<1> DEFINE s == list[1]
<1>1. 1 \in 1..Len(list)
  OBVIOUS
<1>2. s \in Strings
  BY <1>1, ElementOfSeq
<1>3. PICK f : f = TermStep(list, f) /\ Terminated(list) = f[1]
  <2>1. \E f : f = TermStep(list, f) /\ Terminated(list) = f[Len(list)]
    <3>1. Len(list) \in Nat
      OBVIOUS
    <3> QED BY <3>1, TermIs
  <2> QED BY <2>1
<1> DEFINE T == f[1]
<1>4. T \in Seq(Nat) /\ Len(f[0]) = 0
  <2>1. Terminated(list) \in Seq(Nat)
    BY TermType
  <2>2. f[0] = <<>>
    BY <1>3, TermPrefix
  <2> QED BY <1>3, <2>1, <2>2, EmptySeq
<1>5. Holds(f[Len(list)], Len(f[1 - 1]), list[1], Len(f[1]))
  BY <1>1, <1>3, Placed
<1>6. Holds(T, 0, s, Len(T))
  BY <1>4, <1>5
<1> HIDE DEF T
<1>7. list = <<s>>
  <2>1. <<s>> \in Seq(Strings) /\ Len(<<s>>) = 1 /\ <<s>>[1] = s
    BY <1>2
  <2>2. \A i \in 1..Len(list) : list[i] = <<s>>[i]
    BY <2>1
  <2> HIDE DEF s
  <2> QED BY <2>1, <2>2, SeqEqual
<1> HIDE DEF s
<1>8. /\ Len(s) \in Nat /\ 0 + Len(s) + 1 = Len(T) /\ 0 + Len(s) + 1 <= Len(T)
      /\ \A i \in 1..Len(s) : T[0 + i] = s[i]
      /\ T[0 + Len(s) + 1] = NUL
  BY <1>6 DEF Holds
<1>9. /\ Ends(T, 0 + 1) # {}
      /\ End(T, 0 + 1) = 0 + Len(s) + 1
      /\ SubSeq(T, 0 + 1, 0 + Len(s)) = s
  BY <1>2, <1>4, <1>8, OneString
<1>10. Ends(T, 1) # {} /\ End(T, 1) - 1 = Len(s) /\ SubSeq(T, 1, Len(s)) = s
  BY <1>8, <1>9
<1>11. Ends(T, 1) # {} /\ <<SubSeq(T, 1, End(T, 1) - 1)>> = list
  BY <1>7, <1>10
<1>12. T = Terminated(list)
  BY <1>3 DEF T
<1> QED BY <1>11, <1>12

(* A string without a terminator has none in it either.                    *)
LEMMA BareString ==
    ASSUME NEW list \in Seq(Strings), Len(list) = 1
    PROVE  Ends(list[1], 1) = {} /\ <<list[1]>> = list
<1> DEFINE s == list[1]
<1>1. 1 \in 1..Len(list)
  OBVIOUS
<1>2. s \in Seq(Nat \ {NUL})
  BY <1>1, ElementOfSeq DEF Strings
<1> HIDE DEF s
<1>3. \A j \in 1..Len(s) : s[j] \in Nat \ {NUL}
  BY <1>2, ElementOfSeq
<1>4. Ends(s, 1) = {}
  BY <1>3 DEF Ends
<1>5. <<s>> \in Seq(Strings) /\ Len(<<s>>) = 1 /\ <<s>>[1] = s
  BY <1>2 DEF Strings
<1>6. \A i \in 1..Len(list) : list[i] = <<s>>[i]
  BY <1>5 DEF s
<1>7. list = <<s>>
  BY <1>5, <1>6, SeqEqual
<1> QED BY <1>4, <1>7 DEF s

-----------------------------------------------------------------------------
(* What was written, and the size a reader was told.                       *)

LEMMA CharsType ==
    ASSUME NEW w \in Written
    PROVE  Len(Chars(w)) \in Nat /\ w.list \in Seq(Strings) \cup {<<>>}
<1>1. CASE w = Nothing
  <2>1. Chars(w) = <<>> /\ w.list = <<>>
    BY <1>1 DEF Chars, Nothing
  <2> QED BY <2>1, EmptySeq
<1>2. CASE w \in [type : {"multi"}, list : Lists]
  <2>1. w.type = "multi" /\ w.list \in Seq(Strings)
    BY <1>2, RegAssumption
  <2>2. NUL \in Nat /\ Terminated(w.list) \in Seq(Nat)
    BY <2>1, TermType DEF NUL
  <2>3. Terminated(w.list) \o <<NUL>> \in Seq(Nat)
    BY <2>2, Push
  <2>4. Chars(w) = Terminated(w.list) \o <<NUL>>
    BY <2>1 DEF Chars
  <2> QED BY <2>1, <2>3, <2>4, LenProperties
<1>3. CASE w \in [type : {"terminated", "unterminated"}, list : Lists] /\ Len(w.list) = 1
  <2>1. w.type \in {"terminated", "unterminated"} /\ w.list \in Seq(Strings) /\ 1 \in 1..Len(w.list)
    BY <1>3, RegAssumption
  <2>2. Terminated(w.list) \in Seq(Nat) /\ w.list[1] \in Seq(Nat \ {NUL})
    BY <2>1, TermType, ElementOfSeq DEF Strings
  <2>3. Chars(w) = Terminated(w.list) \/ Chars(w) = w.list[1]
    BY <2>1 DEF Chars
  <2> QED BY <2>1, <2>2, <2>3, LenProperties
<1> QED BY <1>1, <1>2, <1>3 DEF Written

(* As long as nobody acts, the size is that of the value.                  *)
ReadInv ==
    /\ written \in Written /\ size \in Nat
    /\ pc \in {"multi", "string"} /\ changes = 0 => written # Nothing /\ size = Len(Chars(written))

LEMMA ReadInit == Init => ReadInv
BY DEF Init, ReadInv, Written

LEMMA ReadStep == RegIInv /\ ReadInv /\ [Next]_vars => ReadInv'
<1> SUFFICES ASSUME RegIInv, ReadInv, [Next]_vars PROVE ReadInv'
  OBVIOUS
<1>1. Nothing \in Written
  BY DEF Written
<1>2. CASE Open \/ DeleteValue \/ GetMultiSZValue \/ GetSZValue \/ \E w \in Written : SetValue(w)
  BY <1>1, <1>2 DEF Open, DeleteValue, GetMultiSZValue, GetSZValue, SetValue, ReadInv, readVars, Written
<1>3. CASE \E s \in BOOLEAN, p \in BOOLEAN : DeleteKey(s, p)
  BY <1>3 DEF DeleteKey, ReadInv
<1>4. CASE OpenKey \/ QueryInfoKey \/ EnumKey \/ OpenSubKey \/ Return
  BY <1>4 DEF OpenKey, QueryInfoKey, EnumKey, Fails, OpenSubKey, Return, ReadInv, readVars
<1>5. CASE Remove \/ Finish
  BY <1>1, <1>5 DEF Remove, Finish, Delete, ReadInv, readVars
<1>6. ASSUME NEW reader \in {"multi", "string"}, GetValueBufferSize(reader) PROVE ReadInv'
  <2>1. size' = Len(Chars(written)) /\ written' = written /\ pc = "idle"
    BY <1>6 DEF GetValueBufferSize
  <2>2. size' \in Nat /\ written \in Written
    BY <2>1, CharsType DEF ReadInv
  <2>3. ASSUME pc' \in {"multi", "string"} PROVE written # Nothing
    <3>1. size' # 0
      BY <1>6, <2>1, <2>3 DEF GetValueBufferSize
    <3>2. Chars(Nothing) = <<>> /\ Len(<<>>) = 0
      BY EmptySeq DEF Chars, Nothing
    <3> QED BY <2>1, <3>1, <3>2
  <2> QED BY <2>1, <2>2, <2>3 DEF ReadInv
<1>7. CASE \/ \E v \in Views, p \in Paths : OtherCreates(v, p) \/ OtherDeletes(v, p)
           \/ \E w \in Written : OtherWrites(w)
  <2>1. changes' = changes + 1 /\ changes \in Nat /\ size' = size
    BY <1>7 DEF OtherCreates, OtherDeletes, OtherWrites, Another, readVars, RegIInv, CallOK
  <2>2. written' \in Written
    BY <1>1, <1>7 DEF OtherCreates, OtherDeletes, OtherWrites, Delete, ReadInv
  <2> QED BY <2>1, <2>2 DEF ReadInv
<1>8. CASE UNCHANGED vars
  BY <1>8 DEF vars, ReadInv
<1> QED BY <1>2, <1>3, <1>4, <1>5, <1>6, <1>7, <1>8 DEF Next

(* What is read is what the value is when it is read: a list up to its     *)
(* first empty string, a string as it is, without a terminator too where   *)
(* the buffer has room left.  Nothing is read only if others acted.        *)
THEOREM ReadsBackAlways == Spec => ReadsBack
<1> DEFINE List == written.type = "multi" => got' = UpToEmpty(written.list)
           Text == written.type = "terminated" => got' = written.list
           Bare == written.type = "unterminated" /\ size # Len(Chars(written)) => got' = written.list
           Vain == ~Succeeds /\ changes # 0 /\ (pc = "string" => got' = <<<<>>>>)
           A == ReadEnds => Vain \/ (pc = "multi" /\ List) \/ (pc = "string" /\ Text /\ Bare)
<1>1. RegIInv /\ ReadInv /\ [Next]_vars => [A]_vars
  <2> SUFFICES ASSUME RegIInv, ReadInv, Next, ReadEnds
               PROVE  Vain \/ (pc = "multi" /\ List) \/ (pc = "string" /\ Text /\ Bare)
    OBVIOUS
  <2>1. size \in Nat /\ written \in Written /\ Len(Chars(written)) \in Nat
    BY CharsType DEF ReadInv
  <2>2. (pc = "multi" /\ GetMultiSZValue) \/ (pc = "string" /\ GetSZValue)
    BY DEF ReadEnds, Next, Open, DeleteValue, DeleteKey, OpenKey, QueryInfoKey, EnumKey, OpenSubKey, Return,
           Remove, Finish, SetValue, GetValueBufferSize, GetMultiSZValue, GetSZValue, Another,
           OtherCreates, OtherDeletes, OtherWrites
  <2>3. ASSUME ~Succeeds PROVE Vain
    <3>1. changes # 0
      BY <2>1, <2>2, <2>3 DEF ReadInv, Succeeds
    <3>2. pc = "string" => got' = <<<<>>>>
      BY <2>2, <2>3 DEF GetSZValue, GetMultiSZValue
    <3> QED BY <2>3, <3>1, <3>2
  <2>4. ASSUME Succeeds, GetMultiSZValue PROVE List
    <3> SUFFICES ASSUME written.type = "multi" PROVE got' = UpToEmpty(written.list)
      OBVIOUS
    <3>1. written.list \in Seq(Strings)
      BY <2>1, RegAssumption DEF Written, Nothing
    <3>2. Chars(written) = Terminated(written.list) \o <<NUL>>
      BY DEF Chars
    <3>3. got' = Walk(Chars(written))
      BY <2>4 DEF GetMultiSZValue
    <3> QED BY <3>1, <3>2, <3>3, ListReadBack
  <2>5. ASSUME Succeeds, GetSZValue PROVE Text
    <3> SUFFICES ASSUME written.type = "terminated" PROVE got' = written.list
      OBVIOUS
    <3>1. written.list \in Seq(Strings) /\ Len(written.list) = 1
      BY <2>1, RegAssumption DEF Written, Nothing
    <3> DEFINE chars == Chars(written)
    <3>2. chars = Terminated(written.list)
      BY DEF Chars
    <3>3. Ends(chars, 1) # {} /\ <<SubSeq(chars, 1, End(chars, 1) - 1)>> = written.list
      BY <3>1, <3>2, StringReadBack
    <3>4. got' = <<SubSeq(chars, 1, End(chars, 1) - 1)>>
      BY <2>5, <3>3 DEF GetSZValue
    <3> QED BY <3>3, <3>4
  <2>6. ASSUME Succeeds, GetSZValue PROVE Bare
    <3> SUFFICES ASSUME written.type = "unterminated", size # Len(Chars(written))
                 PROVE  got' = written.list
      OBVIOUS
    <3>1. written.list \in Seq(Strings) /\ Len(written.list) = 1
      BY <2>1, RegAssumption DEF Written, Nothing
    <3> DEFINE chars == Chars(written)
    <3>2. chars = written.list[1]
      BY DEF Chars
    <3>3. Ends(chars, 1) = {} /\ <<chars>> = written.list
      BY <3>1, <3>2, BareString
    <3>4. Len(chars) < size
      BY <2>1, <2>6 DEF Succeeds
    <3> HIDE DEF chars
    <3>5. got' = <<chars>>
      BY <2>6, <3>3, <3>4 DEF GetSZValue, chars
    <3> QED BY <3>3, <3>5
  <2> QED BY <2>2, <2>3, <2>4, <2>5, <2>6
<1>2. RegIInv /\ ReadInv /\ [Next]_vars => (RegIInv /\ ReadInv)'
  BY RegStep, ReadStep
<1> QED BY <1>1, <1>2, RegInit, ReadInit, RegStep, PTL DEF Spec, ReadsBack

(* The members keep their types, and both views stay trees of keys.        *)
THEOREM RegTypeCorrect == Spec => []TypeOK
<1>1. RegIInv /\ ReadInv => TypeOK
  BY DEF RegIInv, ReadInv, TypeOK
<1>2. RegIInv /\ ReadInv /\ [Next]_vars => (RegIInv /\ ReadInv)'
  BY RegStep, ReadStep
<1> QED BY <1>1, <1>2, RegInit, ReadInit, PTL DEF Spec

-----------------------------------------------------------------------------
(* DeleteKey tells the truth when it says TRUE: nothing of the key is left *)
(* at that moment, whatever others did meanwhile.                          *)
TrueMeansGone == [][DeleteEnds /\ ok' => sub /\ keys'[view] = {}]_vars

(* When DeleteKey returns TRUE, no key is left, whatever others did.       *)
THEOREM TrueMeansGoneAlways == Spec => TrueMeansGone
<1>1. RegIInv /\ [Next]_vars => [DeleteEnds /\ ok' => sub /\ keys'[view] = {}]_vars
  <2> SUFFICES ASSUME RegIInv, Next, DeleteEnds, ok' PROVE sub /\ keys'[view] = {}
    OBVIOUS
  <2>1. Finish
    BY DEF DeleteEnds, Next, Open, DeleteValue, DeleteKey, OpenKey, QueryInfoKey, EnumKey, OpenSubKey,
           Return, Remove, SetValue, GetValueBufferSize, GetMultiSZValue, GetSZValue, Another,
           OtherCreates, OtherDeletes, OtherWrites
  <2>2. sub /\ Deletable(view, <<>>) /\ Delete(view, <<>>)
    BY <2>1, ViewIsView DEF Finish
  <2>3. keys[view] \in SUBSET Paths /\ Closed(keys[view]) /\ DOMAIN keys = Views /\ view \in Views
    BY ViewIsView DEF RegIInv, KeysOK
  <2>4. keys[view] \subseteq {<<>>}
    <3>1. \A i \in DOMAIN Names : Append(<<>>, Names[i]) \notin keys[view]
      BY <2>2 DEF Deletable, SubKeys
    <3> QED BY <2>3, <3>1, OnlyRoot
  <2>5. keys'[view] = keys[view] \ {<<>>}
    BY <2>2, <2>3 DEF Delete
  <2> QED BY <2>2, <2>4, <2>5
<1> QED BY <1>1, RegInit, RegStep, PTL DEF Spec, TrueMeansGone

(* A key that may not be opened, and with it every key above, survives     *)
(* whatever the class does; a caller who has the key itself open may only  *)
(* empty it.                                                               *)
LockedKept ==
    [][changes' # changes + 1 => \A v \in Views : keys[v] \cap Locked \subseteq keys'[v]]_vars

MayBeOpen(i) == stack[i].path \in Locked => i = 1 /\ ~sub

(* The frame on top was opened, unless RegDeleteSubKeys is about to.       *)
OpenedInv ==
    /\ stack # <<>> => stack[1].path = <<>>
    /\ \A i \in 1..Len(stack) : MayBeOpen(i) \/ (pc = "enter" /\ i = Len(stack))
    /\ pc = "finish" /\ sub => <<>> \notin Locked

LEMMA OpenedKept ==
    ASSUME OpenedInv, stack' \in Seq(Frames), Len(stack) \in Nat, Len(stack') <= Len(stack), sub' = sub,
           \A i \in 1..Len(stack') :
               /\ stack'[i].path = stack[i].path
               /\ MayBeOpen(i) \/ (pc' = "enter" /\ i = Len(stack')),
           pc' = "finish" /\ sub => <<>> \notin Locked
    PROVE  OpenedInv'
<1>1. ASSUME stack' # <<>> PROVE stack'[1].path = <<>>
  <2>1. Len(stack') \in Nat /\ Len(stack') > 0
    BY <1>1, EmptySeq
  <2>2. 1 \in 1..Len(stack') /\ Len(stack) > 0
    BY <2>1
  <2>3. stack # <<>>
    BY <2>2, EmptySeq
  <2> QED BY <2>2, <2>3 DEF OpenedInv
<1> QED BY <1>1 DEF OpenedInv, MayBeOpen

LEMMA OpenedOpenKey == RegIInv /\ OpenedInv /\ OpenKey => OpenedInv'
<1> SUFFICES ASSUME RegIInv, OpenedInv, OpenKey PROVE OpenedInv'
  OBVIOUS
<1>1. CASE ~sub \/ Openable(view, <<>>)
  <2>1. stack' = <<Frame(<<>>)>> /\ sub' = sub /\ pc' = "count"
    BY <1>1 DEF OpenKey
  <2>2. Len(stack') = 1 /\ stack'[1].path = <<>>
    BY <2>1 DEF Frame
  <2>3. \A i \in 1..Len(stack') : i = 1
    BY <2>2
  <2> QED BY <1>1, <2>1, <2>2, <2>3 DEF OpenedInv, MayBeOpen, Openable
<1>2. CASE ~(~sub \/ Openable(view, <<>>))
  <2>1. stack' = stack /\ pc' = "idle" /\ sub' = sub /\ stack = <<>> /\ Len(stack) = 0
    BY <1>2 DEF OpenKey, RegIInv, HandlesInv
  <2> QED BY <2>1 DEF OpenedInv
<1> QED BY <1>1, <1>2

(* Counting down changes no path.                                          *)
LEMMA CountedDown ==
    ASSUME CallOK, stack # <<>>, NEW c \in Nat, NEW t, t = WithTop([top EXCEPT !.cnt = c])
    PROVE  /\ t \in Seq(Frames) /\ Len(t) = Len(stack)
           /\ \A i \in 1..Len(stack) : t[i].path = stack[i].path
<1>1. /\ Len(stack) \in Nat /\ Len(stack) > 0 /\ stack \in Seq(Frames) /\ top \in Frames
  BY TopIsFrame DEF CallOK
<1> DEFINE f == [top EXCEPT !.cnt = c]
<1>2. f \in Frames /\ f.path = top.path
  BY <1>1 DEF Frames
<1> HIDE DEF f
<1> DEFINE u == [stack EXCEPT ![Len(stack)] = f]
<1>3. /\ u \in Seq(Frames) /\ Len(u) = Len(stack) /\ u[Len(stack)] = f
      /\ \A i \in 1..Len(stack) - 1 : u[i] = stack[i]
  BY <1>1, <1>2, ChangeTop
<1>4. t = u
  BY DEF WithTop, f
<1> HIDE DEF u
<1>5. \A i \in 1..Len(stack) : i = Len(stack) \/ i \in 1..Len(stack) - 1
  BY <1>1
<1>6. \A i \in 1..Len(stack) : t[i].path = stack[i].path
  BY <1>2, <1>3, <1>4, <1>5 DEF top
<1> QED BY <1>3, <1>4, <1>6

LEMMA OpenedQuery == RegIInv /\ OpenedInv /\ QueryInfoKey => OpenedInv'
<1> SUFFICES ASSUME RegIInv, OpenedInv, QueryInfoKey PROVE OpenedInv'
  OBVIOUS
<1>1. sub' = sub /\ pc = "count" /\ pc' \in {"return", "next"} /\ stack # <<>> /\ CallOK
  BY DEF QueryInfoKey, Fails, RegIInv, HandlesInv
<1>2. Len(stack) \in Nat /\ stack' \in Seq(Frames)
  BY <1>1, LenProperties, QueryInfoKeyStep DEF CallOK, RegIInv
<1>3. CASE top.gone
  <2>1. stack' = stack
    BY <1>3 DEF QueryInfoKey, Fails
  <2> QED BY <1>1, <1>2, <2>1 DEF OpenedInv, MayBeOpen
<1>4. CASE ~top.gone
  <2> DEFINE c == Cardinality(SubKeys(view, top.path))
  <2>1. stack' = WithTop([top EXCEPT !.cnt = c]) /\ c \in Nat
    BY <1>4, SubKeysFinite DEF QueryInfoKey
  <2> HIDE DEF c
  <2>2. /\ Len(stack') = Len(stack)
        /\ \A i \in 1..Len(stack) : stack'[i].path = stack[i].path
    BY <1>1, <2>1, CountedDown
  <2>3. \A i \in 1..Len(stack) : MayBeOpen(i)
    BY <1>1 DEF OpenedInv
  <2> QED BY <1>1, <1>2, <2>2, <2>3, OpenedKept
<1> QED BY <1>3, <1>4

LEMMA OpenedEnum == RegIInv /\ OpenedInv /\ EnumKey => OpenedInv'
<1> SUFFICES ASSUME RegIInv, OpenedInv, EnumKey PROVE OpenedInv'
  OBVIOUS
<1>1. sub' = sub /\ pc = "next" /\ pc' \in {"return", "enter"} /\ stack # <<>> /\ CallOK
  BY DEF EnumKey, Fails, RegIInv, HandlesInv
<1>2. Len(stack) \in Nat /\ Len(stack) > 0 /\ top.cnt \in Nat /\ stack[1].path = <<>>
  BY <1>1, TopIsFrame DEF OpenedInv
<1>3. \A i \in 1..Len(stack) : MayBeOpen(i)
  BY <1>1 DEF OpenedInv
<1>4. CASE stack' = stack
  BY <1>1, <1>3, <1>4 DEF OpenedInv, MayBeOpen
<1>5. CASE stack' # stack
  <2> DEFINE c == top.cnt - 1
             g == Frame(Append(top.path, Names[Nth(SubKeys(view, top.path), top.cnt)]))
             t == WithTop([top EXCEPT !.cnt = c])
  <2>1. stack' = t \o <<g>> /\ pc' = "enter" /\ top.cnt # 0
    BY <1>5 DEF EnumKey, Fails
  <2>2. c \in Nat
    BY <1>2, <2>1
  <2> HIDE DEF c, g
  <2>3. /\ t \in Seq(Frames) /\ Len(t) = Len(stack)
        /\ \A i \in 1..Len(stack) : t[i].path = stack[i].path
    BY <1>1, <2>2, CountedDown
  <2> HIDE DEF t
  <2>4. Len(<<g>>) = 1
    OBVIOUS
  <2>5. Len(stack') = Len(stack) + 1 /\ \A i \in 1..Len(stack) : stack'[i] = t[i]
    BY <2>1, <2>3, Push
  <2>6. 1 \in 1..Len(stack) /\ \A i \in 1..Len(stack') : i \in 1..Len(stack) \/ i = Len(stack')
    BY <1>2, <2>5
  <2>7. stack'[1].path = <<>>
    BY <1>2, <2>3, <2>5, <2>6
  <2>8. \A i \in 1..Len(stack) : MayBeOpen(i)'
    BY <1>1, <1>3, <2>3, <2>5 DEF MayBeOpen
  <2> QED BY <2>1, <2>6, <2>7, <2>8 DEF OpenedInv
<1> QED BY <1>4, <1>5

LEMMA OpenedOpenSubKey == RegIInv /\ OpenedInv /\ OpenSubKey => OpenedInv'
<1> SUFFICES ASSUME RegIInv, OpenedInv, OpenSubKey PROVE OpenedInv'
  OBVIOUS
<1>1. /\ sub' = sub /\ pc = "enter" /\ pc' \in {"return", "count"}
      /\ stack # <<>> /\ Len(stack) > 1 /\ Len(stack) \in Nat /\ stack \in Seq(Frames)
  BY LenProperties DEF OpenSubKey, RegIInv, CallOK, HandlesInv
<1>2. \A i \in 1..Len(stack) - 1 : i \in 1..Len(stack) /\ MayBeOpen(i)
  <2>1. \A i \in 1..Len(stack) - 1 : i \in 1..Len(stack) /\ i # Len(stack)
    BY <1>1
  <2> QED BY <2>1 DEF OpenedInv
<1>3. CASE Openable(view, top.path) /\ ~parent[Len(parent)].gone
  <2> DEFINE f == Frame(top.path)
  <2>1. stack' = [stack EXCEPT ![Len(stack)] = f]
    BY <1>3 DEF OpenSubKey, WithTop
  <2>2. f \in Frames /\ f.path = top.path
    BY <1>1, TopIsFrame, FrameIsFrame DEF RegIInv, Frame
  <2> HIDE DEF f
  <2>3. /\ stack' \in Seq(Frames) /\ Len(stack') = Len(stack) /\ stack'[Len(stack)] = f
        /\ \A i \in 1..Len(stack) - 1 : stack'[i] = stack[i]
    BY <1>1, <2>1, <2>2, ChangeTop
  <2>4. stack[Len(stack)].path = f.path /\ MayBeOpen(Len(stack))
    BY <1>3, <2>2 DEF top, MayBeOpen, Openable
  <2>5. \A i \in 1..Len(stack) : i = Len(stack) \/ i \in 1..Len(stack) - 1
    BY <1>1
  <2>6. \A i \in 1..Len(stack) : stack'[i].path = stack[i].path /\ MayBeOpen(i)
    BY <1>2, <2>3, <2>4, <2>5
  <2> QED BY <1>1, <2>3, <2>6, OpenedKept
<1>4. CASE ~(Openable(view, top.path) /\ ~parent[Len(parent)].gone)
  <2>1. stack' = parent
    BY <1>4 DEF OpenSubKey
  <2>2. /\ stack' \in Seq(Frames) /\ Len(stack') = Len(stack) - 1
        /\ \A i \in 1..Len(stack) - 1 : stack'[i] = stack[i]
    BY <1>1, <2>1, ParentFrames DEF RegIInv
  <2> QED BY <1>1, <1>2, <2>2, OpenedKept
<1> QED BY <1>3, <1>4

LEMMA OpenedReturn == RegIInv /\ OpenedInv /\ Return => OpenedInv'
<1> SUFFICES ASSUME RegIInv, OpenedInv, Return PROVE OpenedInv'
  OBVIOUS
<1>1. /\ sub' = sub /\ pc = "return"
      /\ stack # <<>> /\ Len(stack) > 0 /\ Len(stack) \in Nat /\ stack \in Seq(Frames)
  BY LenProperties, EmptySeq DEF Return, RegIInv, CallOK, HandlesInv
<1>2. 1 \in 1..Len(stack) /\ \A i \in 1..Len(stack) : MayBeOpen(i)
  BY <1>1 DEF OpenedInv
<1>3. CASE Len(stack) > 1
  <2>1. pc' # "finish" /\ (stack' = stack \/ stack' = parent)
    BY <1>3 DEF Return
  <2>2. CASE stack' = stack
    BY <1>1, <1>2, <2>1, <2>2 DEF OpenedInv, MayBeOpen
  <2>3. CASE stack' = parent
    <3>1. /\ stack' \in Seq(Frames) /\ Len(stack') = Len(stack) - 1
          /\ \A i \in 1..Len(stack) - 1 : stack'[i] = stack[i]
      BY <1>3, <2>3, ParentFrames DEF RegIInv
    <3>2. \A i \in 1..Len(stack) - 1 : i \in 1..Len(stack)
      BY <1>1
    <3> QED BY <1>1, <1>2, <2>1, <3>1, <3>2, OpenedKept
  <2> QED BY <2>1, <2>2, <2>3
<1>4. CASE ~(Len(stack) > 1)
  <2>1. stack' = <<>> /\ Len(stack') = 0
    BY <1>4 DEF Return
  <2>2. sub => <<>> \notin Locked
    BY <1>1, <1>2 DEF OpenedInv, MayBeOpen
  <2> QED BY <1>1, <2>1, <2>2 DEF OpenedInv
<1> QED BY <1>3, <1>4

LEMMA OpenedRemove == RegIInv /\ OpenedInv /\ Remove => OpenedInv'
<1> SUFFICES ASSUME RegIInv, OpenedInv, Remove PROVE OpenedInv'
  OBVIOUS
<1>1. /\ sub' = sub /\ pc = "remove" /\ pc' # "finish" /\ stack' = parent
      /\ Len(stack) > 1 /\ Len(stack) \in Nat /\ stack \in Seq(Frames)
  BY LenProperties DEF Remove, RegIInv, CallOK, HandlesInv
<1>2. /\ stack' \in Seq(Frames) /\ Len(stack') = Len(stack) - 1
      /\ \A i \in 1..Len(stack) - 1 : stack'[i] = stack[i]
  BY <1>1, ParentFrames DEF RegIInv
<1>3. \A i \in 1..Len(stack) - 1 : i \in 1..Len(stack) /\ MayBeOpen(i)
  <2>1. \A i \in 1..Len(stack) - 1 : i \in 1..Len(stack)
    BY <1>1
  <2> QED BY <1>1, <2>1 DEF OpenedInv
<1> QED BY <1>1, <1>2, <1>3, OpenedKept

LEMMA OpenedOtherDeletes ==
    ASSUME RegIInv, OpenedInv, NEW v \in Views, NEW p \in Paths, OtherDeletes(v, p)
    PROVE  OpenedInv'
<1>1. stack' \in Seq(Frames) /\ Len(stack') = Len(stack) /\ Len(stack) \in Nat /\ stack \in Seq(Frames)
  BY OtherDeletesFrames, LenProperties DEF RegIInv, CallOK
<1>2. sub' = sub /\ pc' = pc
  BY DEF OtherDeletes, Another
<1>3. ASSUME NEW i \in 1..Len(stack) PROVE stack'[i].path = stack[i].path
  <2>1. stack'[i] = IF v = view /\ stack[i].path = p THEN [stack[i] EXCEPT !.gone = TRUE] ELSE stack[i]
    BY DEF OtherDeletes
  <2>2. stack[i] \in Frames
    BY <1>1, ElementOfSeq
  <2> QED BY <2>1, <2>2 DEF Frames
<1> QED BY <1>1, <1>2, <1>3, OpenedKept DEF OpenedInv

LEMMA OpenedStep == RegIInv /\ OpenedInv /\ [Next]_vars => OpenedInv'
<1> SUFFICES ASSUME RegIInv, OpenedInv, [Next]_vars PROVE OpenedInv'
  OBVIOUS
<1>1. CASE \/ Open \/ DeleteValue \/ Finish \/ GetMultiSZValue \/ GetSZValue
           \/ \E w \in Written : SetValue(w)
           \/ \E w \in Written : OtherWrites(w)
           \/ \E v \in Views, p \in Paths : OtherCreates(v, p)
           \/ UNCHANGED vars
  <2>1. UNCHANGED <<stack, sub>> /\ (pc' = pc \/ (pc' = "idle" /\ pc # "enter"))
    BY <1>1 DEF Open, DeleteValue, Finish, GetMultiSZValue, GetSZValue, SetValue, OtherWrites, OtherCreates,
                Another, deleteVars, vars
  <2> QED BY <2>1 DEF OpenedInv, MayBeOpen
<1>2. CASE \/ \E reader \in {"multi", "string"} : GetValueBufferSize(reader)
           \/ \E s \in BOOLEAN, p \in BOOLEAN : DeleteKey(s, p)
  <2>1. stack' = stack /\ pc = "idle" /\ pc' # "finish"
    BY <1>2 DEF GetValueBufferSize, DeleteKey, deleteVars
  <2>2. stack' = <<>> /\ Len(stack') = 0
    BY <2>1 DEF RegIInv, HandlesInv
  <2> QED BY <2>1, <2>2 DEF OpenedInv
<1> QED BY <1>1, <1>2, OpenedOpenKey, OpenedQuery, OpenedEnum, OpenedOpenSubKey, OpenedReturn,
           OpenedRemove, OpenedOtherDeletes DEF Next

(* DeleteKey does not remove a key it may not open.                        *)
THEOREM LockedKeptAlways == Spec => LockedKept
<1> DEFINE A == changes' # changes + 1 => \A v \in Views : keys[v] \cap Locked \subseteq keys'[v]
<1>1. RegIInv /\ OpenedInv /\ [Next]_vars => [A]_vars
  <2> SUFFICES ASSUME RegIInv, OpenedInv, Next, changes' # changes + 1, NEW v \in Views,
                      NEW p \in keys[v], p \in Locked
               PROVE  p \in keys'[v]
    OBVIOUS
  <2>1. DOMAIN keys = Views
    BY DEF RegIInv, KeysOK
  <2>2. CASE UNCHANGED keys
    BY <2>2
  <2>3. CASE Open
    BY <2>1, <2>3 DEF Open
  <2>4. CASE Remove /\ ~UNCHANGED keys
    <3>1. keys' = [keys EXCEPT ![view] = @ \ {top.path}]
      BY <2>4 DEF Remove, Delete
    <3>2. stack # <<>> /\ Len(stack) > 1 /\ pc = "remove" /\ Len(stack) \in Nat /\ top.path \in Paths
      BY <2>4, TopIsFrame DEF RegIInv, HandlesInv, Remove
    <3>3. Len(stack) \in 1..Len(stack)
      BY <3>2
    <3>4. MayBeOpen(Len(stack))
      BY <3>2, <3>3 DEF OpenedInv
    <3> QED BY <2>1, <3>1, <3>2, <3>4 DEF MayBeOpen, top
  <2>5. CASE Finish /\ ~UNCHANGED keys
    <3>1. sub /\ pc = "finish" /\ Delete(DeleteView, <<>>)
      BY <2>5 DEF Finish
    <3>2. <<>> \notin Locked
      BY <3>1 DEF OpenedInv
    <3> QED BY <2>1, <3>1, <3>2 DEF Delete
  <2> QED BY <2>2, <2>3, <2>4, <2>5
      DEF Next, DeleteValue, DeleteKey, OpenKey, QueryInfoKey, EnumKey, OpenSubKey, Return,
          SetValue, GetValueBufferSize, GetMultiSZValue, GetSZValue, OtherCreates, OtherDeletes, OtherWrites, Another
<1>2. Init => OpenedInv
  <2>1. Init => stack = <<>> /\ Len(stack) = 0 /\ pc = "idle"
    BY DEF Init
  <2> QED BY <2>1 DEF OpenedInv
<1>3. RegIInv /\ OpenedInv /\ [Next]_vars => (RegIInv /\ OpenedInv)'
  BY RegStep, OpenedStep
<1> QED BY <1>1, <1>2, <1>3, RegInit, PTL DEF Spec, LockedKept
=============================================================================
