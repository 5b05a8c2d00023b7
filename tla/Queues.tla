------------------------------- MODULE Queues --------------------------------
(***************************************************************************)
(* Facts about the queues of frames and commands, for the proofs: what is  *)
(* in a queue, which of a kind is its last, how many it holds and where    *)
(* reading it leads, after something is put in or taken out.               *)
(***************************************************************************)
EXTENDS Integers, Sequences, FiniteSetTheorems, TLAPS

\* Some element of q is one of P.
Has(q, P) == \E i \in 1..Len(q) : q[i] \in P

\* One element is appended.
LEMMA HasAppended ==
    ASSUME NEW S, NEW q \in Seq(S), NEW e \in S, NEW P
    PROVE  Has(Append(q, e), P) <=> Has(q, P) \/ e \in P
<1>1. /\ Len(Append(q, e)) = Len(q) + 1 /\ Len(q) \in Nat
      /\ Append(q, e)[Len(q) + 1] = e
      /\ \A i \in 1..Len(q) : Append(q, e)[i] = q[i]
  OBVIOUS
<1>2. ASSUME Has(Append(q, e), P) PROVE Has(q, P) \/ e \in P
  <2>1. PICK i \in 1..Len(Append(q, e)) : Append(q, e)[i] \in P
    BY <1>2 DEF Has
  <2>2. i \in 1..Len(q) \/ i = Len(q) + 1
    BY <1>1, <2>1
  <2> QED
    BY <1>1, <2>1, <2>2 DEF Has
<1>3. ASSUME Has(q, P) PROVE Has(Append(q, e), P)
  <2>1. PICK i \in 1..Len(q) : q[i] \in P
    BY <1>3 DEF Has
  <2>2. i \in 1..Len(Append(q, e)) /\ Append(q, e)[i] = q[i]
    BY <1>1, <2>1
  <2> QED
    BY <2>1, <2>2 DEF Has
<1>4. ASSUME e \in P PROVE Has(Append(q, e), P)
  <2>1. Len(q) + 1 \in 1..Len(Append(q, e)) /\ Append(q, e)[Len(q) + 1] = e
    BY <1>1
  <2> QED
    BY <1>4, <2>1 DEF Has
<1> QED
  BY <1>2, <1>3, <1>4

\* A queue is appended.
LEMMA HasConcatenated ==
    ASSUME NEW S, NEW q \in Seq(S), NEW r \in Seq(S), NEW P, Has(q, P) \/ Has(r, P)
    PROVE  Has(q \o r, P)
<1>1. /\ Len(q \o r) = Len(q) + Len(r) /\ Len(q) \in Nat /\ Len(r) \in Nat
      /\ \A i \in 1..Len(q) : (q \o r)[i] = q[i]
      /\ \A i \in 1..Len(r) : (q \o r)[Len(q) + i] = r[i]
  OBVIOUS
<1>2. CASE Has(q, P)
  <2>1. PICK i \in 1..Len(q) : q[i] \in P
    BY <1>2 DEF Has
  <2>2. i \in 1..Len(q \o r) /\ (q \o r)[i] = q[i]
    BY <1>1
  <2> QED
    BY <2>1, <2>2 DEF Has
<1>3. CASE Has(r, P)
  <2>1. PICK i \in 1..Len(r) : r[i] \in P
    BY <1>3 DEF Has
  <2>2. Len(q) + i \in 1..Len(q \o r) /\ (q \o r)[Len(q) + i] = r[i]
    BY <1>1
  <2> QED
    BY <2>1, <2>2 DEF Has
<1> QED
  BY <1>2, <1>3

\* The first element is taken.
LEMMA HasTaken ==
    ASSUME NEW S, NEW q \in Seq(S), q # <<>>, NEW P
    PROVE  Has(q, P) <=> Head(q) \in P \/ Has(Tail(q), P)
<1>1. /\ Len(q) \in Nat /\ 1 \in 1..Len(q) /\ Head(q) = q[1]
      /\ Len(Tail(q)) = Len(q) - 1
      /\ \A i \in 1..Len(Tail(q)) : i + 1 \in 1..Len(q) /\ Tail(q)[i] = q[i + 1]
  OBVIOUS
<1>2. ASSUME Has(q, P), Head(q) \notin P PROVE Has(Tail(q), P)
  <2>1. PICK i \in 1..Len(q) : q[i] \in P
    BY <1>2 DEF Has
  <2>2. i - 1 \in 1..Len(Tail(q)) /\ (i - 1) + 1 = i
    BY <1>1, <1>2, <2>1
  <2>3. Tail(q)[i - 1] = q[i]
    BY <1>1, <2>2
  <2> QED
    BY <2>1, <2>2, <2>3 DEF Has
<1>3. ASSUME Has(Tail(q), P) PROVE Has(q, P)
  BY <1>1, <1>3 DEF Has
<1>4. ASSUME Head(q) \in P PROVE Has(q, P)
  BY <1>1, <1>4 DEF Has
<1> QED
  BY <1>2, <1>3, <1>4

LEMMA HasNothing == \A P : ~Has(<<>>, P)
BY DEF Has

-----------------------------------------------------------------------------
(* The last of a kind: what a reader of the whole queue is left with.      *)

\* The last element of q that is in A, if there is one, is in G.
LastIs(q, A, G) ==
    \A i \in 1..Len(q) :
        q[i] \in A /\ (\A k \in 1..Len(q) : k > i => q[k] \notin A) => q[i] \in G

\* One element is appended: it is the last of its kind.
LEMMA LastAppended ==
    ASSUME NEW S, NEW q \in Seq(S), NEW e \in S, NEW A, NEW G
    PROVE  /\ e \in A /\ e \in G => LastIs(Append(q, e), A, G)
           /\ e \notin A /\ LastIs(q, A, G) => LastIs(Append(q, e), A, G)
<1>1. /\ Len(Append(q, e)) = Len(q) + 1 /\ Len(q) \in Nat
      /\ Append(q, e)[Len(q) + 1] = e
      /\ \A i \in 1..Len(q) : Append(q, e)[i] = q[i] /\ i \in 1..(Len(q) + 1)
      /\ \A i \in 1..(Len(q) + 1) : i \in 1..Len(q) \/ i = Len(q) + 1
      /\ \A i \in 1..Len(q) : Len(q) + 1 > i
      /\ Len(q) + 1 \in 1..(Len(q) + 1)
  OBVIOUS
<1>2. ASSUME e \in A, e \in G PROVE LastIs(Append(q, e), A, G)
  <2> SUFFICES ASSUME NEW i \in 1..(Len(q) + 1), Append(q, e)[i] \notin G,
                      \A k \in 1..(Len(q) + 1) : k > i => Append(q, e)[k] \notin A
               PROVE  FALSE
    BY <1>1 DEF LastIs
  <2>1. i \in 1..Len(q)
    BY <1>1, <1>2
  <2> QED
    BY <1>1, <1>2, <2>1
<1>3. ASSUME e \notin A, LastIs(q, A, G) PROVE LastIs(Append(q, e), A, G)
  <2> SUFFICES ASSUME NEW i \in 1..(Len(q) + 1), Append(q, e)[i] \in A,
                      \A k \in 1..(Len(q) + 1) : k > i => Append(q, e)[k] \notin A
               PROVE  Append(q, e)[i] \in G
    BY <1>1 DEF LastIs
  <2>1. i \in 1..Len(q) /\ q[i] \in A
    BY <1>1, <1>3
  <2>2. \A k \in 1..Len(q) : k > i => q[k] \notin A
    BY <1>1
  <2> QED
    BY <1>1, <1>3, <2>1, <2>2 DEF LastIs
<1> QED
  BY <1>2, <1>3

\* The first element is taken: it was the last of its kind if none is left.
LEMMA LastTaken ==
    ASSUME NEW S, NEW q \in Seq(S), q # <<>>, NEW A, NEW G, LastIs(q, A, G)
    PROVE  /\ LastIs(Tail(q), A, G)
           /\ Head(q) \in A /\ ~Has(Tail(q), A) => Head(q) \in G
<1>1. /\ Len(q) \in Nat /\ 1 \in 1..Len(q) /\ Head(q) = q[1]
      /\ Len(Tail(q)) = Len(q) - 1
      /\ \A i \in 1..Len(Tail(q)) : i + 1 \in 1..Len(q) /\ Tail(q)[i] = q[i + 1]
  OBVIOUS
<1>2. \A k \in 1..Len(q) : k > 1 => k - 1 \in 1..Len(Tail(q)) /\ Tail(q)[k - 1] = q[k]
  <2> SUFFICES ASSUME NEW k \in 1..Len(q), k > 1
               PROVE  k - 1 \in 1..Len(Tail(q)) /\ Tail(q)[k - 1] = q[k]
    OBVIOUS
  <2>1. k - 1 \in 1..Len(Tail(q)) /\ (k - 1) + 1 = k
    BY <1>1
  <2> QED
    BY <1>1, <2>1
<1>3. LastIs(Tail(q), A, G)
  <2> SUFFICES ASSUME NEW i \in 1..Len(Tail(q)), Tail(q)[i] \in A,
                      \A k \in 1..Len(Tail(q)) : k > i => Tail(q)[k] \notin A
               PROVE  Tail(q)[i] \in G
    BY DEF LastIs
  <2>1. i + 1 \in 1..Len(q) /\ Tail(q)[i] = q[i + 1]
    BY <1>1
  <2>2. ASSUME NEW k \in 1..Len(q), k > i + 1 PROVE q[k] \notin A
    <3>1. k > 1 /\ k - 1 > i
      BY <2>2
    <3> QED
      BY <1>2, <3>1
  <2> QED
    BY <2>1, <2>2 DEF LastIs
<1>4. ASSUME Head(q) \in A, ~Has(Tail(q), A) PROVE Head(q) \in G
  <2>1. \A k \in 1..Len(q) : k > 1 => q[k] \notin A
    BY <1>2, <1>4 DEF Has
  <2> QED
    BY <1>1, <1>4, <2>1 DEF LastIs
<1> QED
  BY <1>3, <1>4

-----------------------------------------------------------------------------
(* How many.                                                               *)

Places(q, P) == {i \in 1..Len(q) : q[i] \in P}

Count(q, P) == Cardinality(Places(q, P))

LEMMA CountTyped ==
    ASSUME NEW S, NEW q \in Seq(S), NEW P
    PROVE  IsFiniteSet(Places(q, P)) /\ Count(q, P) \in Nat
<1>1. Len(q) \in Nat /\ Places(q, P) \in SUBSET (1..Len(q))
  BY DEF Places
<1>2. IsFiniteSet(1..Len(q))
  BY <1>1, FS_Interval
<1> QED
  BY <1>1, <1>2, FS_Subset, FS_CardinalityType DEF Count

LEMMA CountAppended ==
    ASSUME NEW S, NEW q \in Seq(S), NEW e \in S, NEW P
    PROVE  Count(Append(q, e), P) = Count(q, P) + (IF e \in P THEN 1 ELSE 0)
<1>1. /\ Len(Append(q, e)) = Len(q) + 1 /\ Len(q) \in Nat
      /\ Append(q, e)[Len(q) + 1] = e
      /\ \A i \in 1..Len(q) : Append(q, e)[i] = q[i]
      /\ Len(q) + 1 \notin 1..Len(q) /\ 1..(Len(q) + 1) = 1..Len(q) \cup {Len(q) + 1}
  OBVIOUS
<1>2. Places(Append(q, e), P)
        = IF e \in P THEN Places(q, P) \cup {Len(q) + 1} ELSE Places(q, P)
  BY <1>1 DEF Places
<1>3. Len(q) + 1 \notin Places(q, P)
  BY <1>1 DEF Places
<1>4. IsFiniteSet(Places(q, P)) /\ Count(q, P) \in Nat
  BY CountTyped
<1>5. Cardinality(Places(q, P) \cup {Len(q) + 1}) = Cardinality(Places(q, P)) + 1
  BY <1>3, <1>4, FS_AddElement
<1> QED
  BY <1>2, <1>4, <1>5 DEF Count

\* The first element is taken.
LEMMA CountTaken ==
    ASSUME NEW S, NEW q \in Seq(S), q # <<>>, NEW P
    PROVE  Count(q, P) = Count(Tail(q), P) + (IF Head(q) \in P THEN 1 ELSE 0)
<1>1. /\ Len(q) \in Nat /\ 1 \in 1..Len(q) /\ Head(q) = q[1]
      /\ Len(Tail(q)) = Len(q) - 1 /\ Tail(q) \in Seq(S)
      /\ \A i \in 1..Len(Tail(q)) : i + 1 \in 1..Len(q) /\ Tail(q)[i] = q[i + 1]
  OBVIOUS
<1>2. \A k \in 1..Len(q) : k # 1 => k - 1 \in 1..Len(Tail(q)) /\ Tail(q)[k - 1] = q[k]
  <2> SUFFICES ASSUME NEW k \in 1..Len(q), k # 1
               PROVE  k - 1 \in 1..Len(Tail(q)) /\ Tail(q)[k - 1] = q[k]
    OBVIOUS
  <2>1. k - 1 \in 1..Len(Tail(q)) /\ (k - 1) + 1 = k
    BY <1>1
  <2> QED
    BY <1>1, <2>1
<1> DEFINE A == Places(Tail(q), P)
           B == Places(q, P) \ {1}
           f == [i \in A |-> i + 1]
<1>3. f \in [A -> B]
  BY <1>1 DEF Places
<1>4. IsInjective(f)
  BY <1>1 DEF Places, IsInjective
<1>5. \A k \in B : \E i \in A : f[i] = k
  <2> SUFFICES ASSUME NEW k \in B PROVE \E i \in A : f[i] = k
    OBVIOUS
  <2>1. k - 1 \in A /\ (k - 1) + 1 = k
    BY <1>2 DEF Places
  <2> QED
    BY <2>1
<1>6. ExistsBijection(A, B)
  <2>1. f \in Bijection(A, B)
    BY <1>3, <1>4, <1>5 DEF Bijection, Injection, Surjection
  <2> QED
    BY <2>1 DEF ExistsBijection
<1>7. IsFiniteSet(A) /\ IsFiniteSet(Places(q, P))
  BY <1>1, CountTyped
<1>8. Cardinality(B) = Cardinality(A)
  BY <1>6, <1>7, FS_Bijection
<1>9. Cardinality(B) = IF 1 \in Places(q, P) THEN Count(q, P) - 1 ELSE Count(q, P)
  BY <1>7, FS_RemoveElement DEF Count
<1>10. 1 \in Places(q, P) <=> Head(q) \in P
  BY <1>1 DEF Places
<1>11. Count(q, P) \in Nat /\ Count(Tail(q), P) = Cardinality(A)
  BY CountTyped DEF Count
<1> QED
  BY <1>8, <1>9, <1>10, <1>11

\* One element is put in front.
LEMMA CountPut ==
    ASSUME NEW S, NEW q \in Seq(S), NEW e \in S, NEW P
    PROVE  Count(<<e>> \o q, P) = Count(q, P) + (IF e \in P THEN 1 ELSE 0)
<1>1. /\ <<e>> \o q \in Seq(S) /\ <<e>> \o q # <<>>
      /\ Head(<<e>> \o q) = e /\ Tail(<<e>> \o q) = q
  OBVIOUS
<1> QED
  BY <1>1, CountTaken

\* One element takes the place of another.
LEMMA CountReplaced ==
    ASSUME NEW S, NEW q \in Seq(S), NEW i \in 1..Len(q), NEW e, NEW P, e \notin P
    PROVE  Count([q EXCEPT ![i] = e], P)
             = IF q[i] \in P THEN Count(q, P) - 1 ELSE Count(q, P)
<1> DEFINE r == [q EXCEPT ![i] = e]
<1>1. /\ Len(r) = Len(q) /\ r[i] = e
      /\ \A k \in 1..Len(q) : k # i => r[k] = q[k]
  OBVIOUS
<1> HIDE DEF r
<1>2. Places(r, P) = Places(q, P) \ {i}
  BY <1>1 DEF Places
<1>3. i \in Places(q, P) <=> q[i] \in P
  BY DEF Places
<1>4. IsFiniteSet(Places(q, P))
  BY CountTyped
<1>5. Count(r, P) = IF q[i] \in P THEN Count(q, P) - 1 ELSE Count(q, P)
  BY <1>2, <1>3, <1>4, FS_RemoveElement DEF Count
<1> QED
  BY <1>5 DEF r

LEMMA CountNothing ==
    ASSUME NEW q, NEW P, ~Has(q, P)
    PROVE  Count(q, P) = 0
<1>1. Places(q, P) = {}
  BY DEF Places, Has
<1> QED
  BY <1>1, FS_EmptySet DEF Count

-----------------------------------------------------------------------------
(* Where a queue leads: <<v, e, w>> \in R says that e may turn v into w.    *)

\* Taking all of q, one after another, may turn a into z.
Leads(q, R, a, z) ==
    \E v : /\ v[1] = a /\ v[Len(q) + 1] = z
           /\ \A i \in 1..Len(q) : <<v[i], q[i], v[i + 1]>> \in R

LEMMA LeadsNothing ==
    ASSUME NEW R, NEW a, NEW z
    PROVE  Leads(<<>>, R, a, z) <=> z = a
<1>1. Len(<<>>) + 1 = 1 /\ 1..Len(<<>>) = {}
  OBVIOUS
<1>2. ASSUME Leads(<<>>, R, a, z) PROVE z = a
  BY <1>1, <1>2 DEF Leads
<1>3. ASSUME z = a PROVE Leads(<<>>, R, a, z)
  <2> DEFINE v == [i \in {1} |-> a]
  <2>1. v[1] = a
    OBVIOUS
  <2> HIDE DEF v
  <2> QED
    BY <1>1, <1>3, <2>1 DEF Leads
<1> QED
  BY <1>2, <1>3

\* What is appended is taken last.
LEMMA LeadsAppended ==
    ASSUME NEW S, NEW q \in Seq(S), NEW e \in S, NEW R, NEW a, NEW z,
           Leads(Append(q, e), R, a, z)
    PROVE  \E y : Leads(q, R, a, y) /\ <<y, e, z>> \in R
<1>1. /\ Len(Append(q, e)) = Len(q) + 1 /\ Len(q) \in Nat
      /\ Append(q, e)[Len(q) + 1] = e
      /\ \A i \in 1..Len(q) : Append(q, e)[i] = q[i] /\ i \in 1..(Len(q) + 1)
      /\ Len(q) + 1 \in 1..(Len(q) + 1)
  OBVIOUS
<1>2. PICK v : /\ v[1] = a /\ v[(Len(q) + 1) + 1] = z
               /\ \A i \in 1..(Len(q) + 1) : <<v[i], Append(q, e)[i], v[i + 1]>> \in R
  BY <1>1 DEF Leads
<1>3. <<v[Len(q) + 1], e, z>> \in R
  BY <1>1, <1>2
<1>4. \A i \in 1..Len(q) : <<v[i], q[i], v[i + 1]>> \in R
  BY <1>1, <1>2
<1>5. Leads(q, R, a, v[Len(q) + 1])
  BY <1>2, <1>4 DEF Leads
<1> QED
  BY <1>3, <1>5

\* The first is taken first.
LEMMA LeadsTaken ==
    ASSUME NEW S, NEW q \in Seq(S), q # <<>>, NEW R, NEW a, NEW b, NEW z,
           <<a, Head(q), b>> \in R, Leads(Tail(q), R, b, z)
    PROVE  Leads(q, R, a, z)
<1>1. /\ Len(q) \in Nat /\ Len(q) >= 1 /\ Head(q) = q[1] /\ Len(Tail(q)) = Len(q) - 1
      /\ \A i \in 1..Len(Tail(q)) : i + 1 \in 1..Len(q) /\ Tail(q)[i] = q[i + 1]
  OBVIOUS
<1>2. PICK v : /\ v[1] = b /\ v[Len(Tail(q)) + 1] = z
               /\ \A i \in 1..Len(Tail(q)) : <<v[i], Tail(q)[i], v[i + 1]>> \in R
  BY DEF Leads
<1> DEFINE n == Len(q)
           w == [i \in 1..(n + 1) |-> IF i = 1 THEN a ELSE v[i - 1]]
<1>3. /\ w[1] = a /\ \A i \in 1..(n + 1) : i # 1 => w[i] = v[i - 1]
  BY <1>1
<1>4. w[n + 1] = z
  <2>1. n + 1 \in 1..(n + 1) /\ n + 1 # 1 /\ (n + 1) - 1 = Len(Tail(q)) + 1
    BY <1>1
  <2>2. w[n + 1] = v[(n + 1) - 1]
    BY <1>3, <2>1
  <2> QED
    BY <1>2, <2>1, <2>2
<1>5. ASSUME NEW i \in 1..n PROVE <<w[i], q[i], w[i + 1]>> \in R
  <2>1. CASE i = 1
    <3>1. 2 \in 1..(n + 1) /\ 2 # 1 /\ 2 - 1 = 1
      BY <1>1
    <3>2. w[2] = b
      BY <1>2, <1>3, <3>1
    <3> QED
      BY <1>1, <1>3, <2>1, <3>2
  <2>2. CASE i # 1
    <3>1. /\ i - 1 \in 1..Len(Tail(q)) /\ (i - 1) + 1 = i
          /\ i \in 1..(n + 1) /\ i + 1 \in 1..(n + 1) /\ i + 1 # 1 /\ (i + 1) - 1 = i
      BY <1>1, <2>2
    <3>2. w[i] = v[i - 1] /\ w[i + 1] = v[i]
      BY <1>3, <2>2, <3>1
    <3>3. Tail(q)[i - 1] = q[i] /\ <<v[i - 1], Tail(q)[i - 1], v[(i - 1) + 1]>> \in R
      BY <1>1, <1>2, <3>1
    <3> QED
      BY <3>1, <3>2, <3>3
  <2> QED
    BY <2>1, <2>2
<1> HIDE DEF w
<1> QED
  BY <1>3, <1>4, <1>5 DEF Leads
=============================================================================
