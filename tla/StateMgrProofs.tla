-------------------------- MODULE StateMgrProofs --------------------------
(***************************************************************************)
(* Proofs about StateMgr for every tree of states, any history, any        *)
(* targets of messages and any number of them.                             *)
(***************************************************************************)
EXTENDS StateMgr, FiniteSetTheorems, WellFoundedInduction, TLAPS

-----------------------------------------------------------------------------
(* Lists.                                                                   *)

(* A set of natural numbers has a least one.                                 *)
LEMMA LeastNumber ==
    ASSUME NEW S \in SUBSET Nat, S # {}
    PROVE  \E x \in S : \A y \in S : x <= y
<1>1. PICK x \in S : \A y \in S : <<y, x>> \notin OpToRel(<, Nat)
  BY NatLessThanWellFounded, WFMin
<1>2. ASSUME NEW y \in S, ~(x <= y)
      PROVE  FALSE
  <2>1. y < x /\ x \in Nat /\ y \in Nat
    BY <1>2
  <2>2. <<y, x>> \in Nat \X Nat /\ <<y, x>>[1] < <<y, x>>[2]
    BY <2>1
  <2>3. <<y, x>> \in OpToRel(<, Nat)
    BY <2>2, Zenon DEF OpToRel
  <2> QED
    BY <1>1, <2>3
<1> QED
  BY <1>2, Zenon

(* What Only keeps of the first n members of q: the equation that defines   *)
(* it has a solution, so it has what the equation says.                     *)
Keeps(q, S, f, N) ==
    f = [n \in 0 .. N |->
            IF n = 0 THEN <<>>
            ELSE IF q[n] \in S THEN Append(f[n - 1], q[n]) ELSE f[n - 1]]

LEMMA KeepsExists ==
    ASSUME NEW q, NEW S, NEW N \in Nat
    PROVE  \E f : Keeps(q, S, f, N)
<1> DEFINE T == {n \in Nat : ~\E f : Keeps(q, S, f, n)}
<1> SUFFICES ASSUME T # {} PROVE FALSE
  OBVIOUS
<1>1. PICK n \in T : \A m \in T : n <= m
  <2>1. T \in SUBSET Nat
    OBVIOUS
  <2> HIDE DEF T
  <2> QED BY <2>1, LeastNumber
<1>2. CASE n = 0
  <2>1. Keeps(q, S, [m \in 0 .. 0 |-> <<>>], 0)
    BY DEF Keeps
  <2> QED BY <1>2, <2>1
<1>3. CASE n # 0
  <2>1. n \in Nat /\ n - 1 \in Nat /\ n - 1 \notin T
    BY <1>1, <1>3
  <2>2. PICK f : Keeps(q, S, f, n - 1)
    BY <2>1
  <2> DEFINE g == [m \in 0 .. n |->
                      IF m = n THEN IF q[n] \in S THEN Append(f[n - 1], q[n]) ELSE f[n - 1]
                               ELSE f[m]]
  <2>3. \A m \in 0 .. n - 1 : /\ g[m] = f[m]
                              /\ f[m] = IF m = 0 THEN <<>>
                                        ELSE IF q[m] \in S THEN Append(f[m - 1], q[m]) ELSE f[m - 1]
    <3>1. \A m \in 0 .. n - 1 : f[m] = IF m = 0 THEN <<>>
                                       ELSE IF q[m] \in S THEN Append(f[m - 1], q[m]) ELSE f[m - 1]
      BY <2>2, Zenon DEF Keeps
    <3>2. \A m \in 0 .. n - 1 : m \in 0 .. n /\ m # n
      BY <2>1
    <3>3. \A m \in 0 .. n - 1 : g[m] = f[m]
      BY <3>2
    <3> HIDE DEF g
    <3> QED BY <3>1, <3>3, Zenon
  <2>4. g[n] = IF q[n] \in S THEN Append(g[n - 1], q[n]) ELSE g[n - 1]
    BY <2>1, <2>3
  <2>5. \A m \in 0 .. n : g[m] = IF m = 0 THEN <<>>
                                 ELSE IF q[m] \in S THEN Append(g[m - 1], q[m]) ELSE g[m - 1]
    <3> SUFFICES ASSUME NEW m \in 0 .. n
                 PROVE  g[m] = IF m = 0 THEN <<>>
                               ELSE IF q[m] \in S THEN Append(g[m - 1], q[m]) ELSE g[m - 1]
      OBVIOUS
    <3>0. DOMAIN g = 0 .. n
      OBVIOUS
    <3> HIDE DEF g
    <3>1. CASE m = n
      BY <3>1, <2>4, <1>3
    <3>2. CASE m # n /\ m # 0
      <4>1. m \in 0 .. n - 1 /\ m - 1 \in 0 .. n - 1
        BY <3>2, <2>1
      <4> QED BY <4>1, <2>3, <3>2, Zenon
    <3>3. CASE m = 0
      BY <3>3, <2>3, <2>1, <1>3
    <3> QED BY <3>1, <3>2, <3>3
  <2>6. Keeps(q, S, g, n)
    <3>1. DOMAIN g = 0 .. n /\ g = [m \in 0 .. n |-> g[m]]
      OBVIOUS
    <3> HIDE DEF g
    <3> QED BY <2>5, <3>1 DEF Keeps
  <2> HIDE DEF g
  <2> QED BY <2>6
<1> QED BY <1>2, <1>3

(* Only keeps the members in S, each as often as it is there.               *)
LEMMA OnlyKeeps ==
    ASSUME NEW X, NEW q \in Seq(X), NEW S
    PROVE  /\ Only(q, S) \in Seq(X)
           /\ Range(Only(q, S)) = Range(q) \cap S
           /\ IsInjective(q) => IsInjective(Only(q, S))
<1>1. PICK h : Keeps(q, S, h, Len(q))
  <2>1. Len(q) \in Nat
    OBVIOUS
  <2> QED BY <2>1, KeepsExists
<1> DEFINE f == CHOOSE f : Keeps(q, S, f, Len(q))
<1>2. Keeps(q, S, f, Len(q))
  BY <1>1
<1>3. Only(q, S) = f[Len(q)]
  BY Zenon DEF Only, Keeps
<1> HIDE DEF f
<1> DEFINE P(n) == /\ f[n] \in Seq(X)
                   /\ \A k \in 1 .. Len(f[n]) : \E i \in 1 .. n : f[n][k] = q[i] /\ q[i] \in S
                   /\ \A i \in 1 .. n : q[i] \in S => \E k \in 1 .. Len(f[n]) : f[n][k] = q[i]
                   /\ IsInjective(q) =>
                        \A j, k \in 1 .. Len(f[n]) : f[n][j] = f[n][k] => j = k
           T == {n \in 0 .. Len(q) : ~P(n)}
<1>4. T = {}
  <2> SUFFICES ASSUME T # {} PROVE FALSE
    OBVIOUS
  <2>1. PICK n \in T : \A m \in T : n <= m
    <3>1. T \in SUBSET Nat
      OBVIOUS
    <3> HIDE DEF T
    <3> QED BY <3>1, LeastNumber
  <2>2. n \in 0 .. Len(q) /\ ~P(n)
    BY <2>1
  <2>3. f[0] = <<>>
    BY <1>2 DEF Keeps
  <2>4. n # 0
    <3>1. P(0)
      BY <2>3
    <3> HIDE DEF P
    <3> QED BY <3>1, <2>2
  <2>5. n - 1 \in 0 .. Len(q) /\ n \in 1 .. Len(q) /\ P(n - 1)
    <3> HIDE DEF P
    <3> QED BY <2>1, <2>2, <2>4
  <2>6. f[n] = IF q[n] \in S THEN Append(f[n - 1], q[n]) ELSE f[n - 1]
    BY <1>2, <2>5, <2>4 DEF Keeps
  <2> DEFINE r == f[n - 1]
  <2>7. CASE q[n] \notin S
    <3>1. f[n] = r /\ \A i \in 1 .. n : q[i] \in S => i \in 1 .. n - 1
      BY <2>6, <2>7, <2>5
    <3>2. P(n)
      BY <3>1, <2>5
    <3> QED BY <2>2, <3>2
  <2>8. CASE q[n] \in S
    <3>1. f[n] = Append(r, q[n]) /\ r \in Seq(X) /\ q[n] \in X
      BY <2>6, <2>8, <2>5
    <3>2. /\ f[n] \in Seq(X) /\ Len(f[n]) = Len(r) + 1 /\ Len(r) \in Nat
          /\ \A k \in 1 .. Len(r) : f[n][k] = r[k]
          /\ f[n][Len(r) + 1] = q[n]
      BY <3>1
    <3>3. \A k \in 1 .. Len(r) : \E i \in 1 .. n - 1 : r[k] = q[i] /\ q[i] \in S
      BY <2>5
    <3>4. \A i \in 1 .. n - 1 : q[i] \in S => \E k \in 1 .. Len(r) : r[k] = q[i]
      BY <2>5
    <3>5. IsInjective(q) => \A j, k \in 1 .. Len(r) : r[j] = r[k] => j = k
      BY <2>5
    <3> HIDE DEF r
    <3>6. \A k \in 1 .. Len(f[n]) : \E i \in 1 .. n : f[n][k] = q[i] /\ q[i] \in S
      BY <3>2, <3>3, <2>8, <2>5
    <3>7. \A i \in 1 .. n : q[i] \in S => \E k \in 1 .. Len(f[n]) : f[n][k] = q[i]
      <4> SUFFICES ASSUME NEW i \in 1 .. n, q[i] \in S
                   PROVE  \E k \in 1 .. Len(f[n]) : f[n][k] = q[i]
        OBVIOUS
      <4>1. Len(r) + 1 \in 1 .. Len(f[n]) /\ \A k \in 1 .. Len(r) : k \in 1 .. Len(f[n])
        BY <3>2
      <4>2. CASE i = n
        BY <4>1, <4>2, <3>2, Zenon
      <4>3. CASE i # n
        <5>1. i \in 1 .. n - 1
          BY <4>3, <2>5
        <5>2. PICK k \in 1 .. Len(r) : r[k] = q[i]
          BY <5>1, <3>4
        <5> QED BY <5>2, <4>1, <3>2, Zenon
      <4> QED BY <4>2, <4>3
    <3>8. ASSUME IsInjective(q)
          PROVE  \A j, k \in 1 .. Len(f[n]) : f[n][j] = f[n][k] => j = k
      <4>1. \A k \in 1 .. Len(r) : r[k] # q[n]
        <5> SUFFICES ASSUME NEW k \in 1 .. Len(r), r[k] = q[n] PROVE FALSE
          OBVIOUS
        <5>1. PICK i \in 1 .. n - 1 : r[k] = q[i]
          BY <3>3
        <5>2. i \in DOMAIN q /\ n \in DOMAIN q /\ i # n
          BY <2>5
        <5> QED BY <5>1, <5>2, <3>8 DEF IsInjective
      <4> DEFINE o == f[n]
      <4>2. Len(r) \in Nat /\ Len(o) = Len(r) + 1 /\ o[Len(r) + 1] = q[n]
        BY <3>2
      <4>3. \A k \in 1 .. Len(r) : o[k] = r[k] /\ r[k] # q[n]
        BY <3>2, <4>1
      <4>4. \A j, k \in 1 .. Len(r) : r[j] = r[k] => j = k
        BY <3>5, <3>8
      <4> HIDE DEF o
      <4> SUFFICES ASSUME NEW j \in 1 .. Len(o), NEW k \in 1 .. Len(o), o[j] = o[k]
                   PROVE  j = k
        BY DEF o
      <4>5. /\ j \in 1 .. Len(r) \/ j = Len(r) + 1
            /\ k \in 1 .. Len(r) \/ k = Len(r) + 1
        BY <4>2
      <4>6. CASE j \in 1 .. Len(r) /\ k \in 1 .. Len(r)
        BY <4>3, <4>4, <4>6
      <4>7. CASE ~(j \in 1 .. Len(r) /\ k \in 1 .. Len(r))
        BY <4>2, <4>3, <4>5, <4>7
      <4> QED BY <4>6, <4>7
    <3>9. P(n)
      BY <3>2, <3>6, <3>7, <3>8
    <3> HIDE DEF P
    <3> QED BY <2>2, <3>9
  <2> QED BY <2>7, <2>8
<1>5. P(Len(q))
  <2> HIDE DEF P
  <2>1. Len(q) \in 0 .. Len(q)
    OBVIOUS
  <2> QED BY <2>1, <1>4
<1>6. DOMAIN f[Len(q)] = 1 .. Len(f[Len(q)]) /\ DOMAIN q = 1 .. Len(q)
  BY <1>5
<1> DEFINE o == f[Len(q)]
<1>7. /\ o \in Seq(X)
      /\ \A k \in DOMAIN o : \E i \in DOMAIN q : o[k] = q[i] /\ q[i] \in S
      /\ \A i \in DOMAIN q : q[i] \in S => \E k \in DOMAIN o : o[k] = q[i]
      /\ IsInjective(q) => \A j, k \in DOMAIN o : o[j] = o[k] => j = k
  BY <1>5, <1>6, Zenon
<1> HIDE DEF o
<1>8. Range(o) = Range(q) \cap S
  BY <1>7 DEF Range
<1>9. IsInjective(q) => IsInjective(o)
  BY <1>7, Zenon DEF IsInjective
<1> QED BY <1>3, <1>7, <1>8, <1>9 DEF o

(* A set of states as a list.                                               *)
LEMMA ListOfSet ==
    ASSUME NEW S \in SUBSET States
    PROVE  /\ ListOf[S] \in Seq(S) /\ ListOf[S] \in Seq(States)
           /\ Range(ListOf[S]) = S
           /\ IsInjective(ListOf[S])
<1>1. ListOf[S] = Only(Order, S) /\ Order \in Seq(States) /\ IsInjective(Order)
  BY TreeAssumption DEF ListOf
<1>2. /\ Only(Order, S) \in Seq(States) /\ Range(Only(Order, S)) = Range(Order) \cap S
      /\ IsInjective(Only(Order, S))
  BY <1>1, OnlyKeeps
<1>3. Range(Order) \cap S = S
  BY DEF States
<1>4. \A r \in Seq(States) : Range(r) = S => r \in Seq(S)
  <2> SUFFICES ASSUME NEW r \in Seq(States), Range(r) = S PROVE r \in Seq(S)
    OBVIOUS
  <2>1. Len(r) \in Nat /\ \A i \in 1 .. Len(r) : r[i] \in S
    BY DEF Range
  <2> QED BY <2>1
<1> QED BY <1>1, <1>2, <1>3, <1>4

(* Reversing, taking the head off and appending lists.                       *)
LEMMA ReverseKeeps ==
    ASSUME NEW S, NEW q \in Seq(S)
    PROVE  /\ Reverse(q) \in Seq(S) /\ Range(Reverse(q)) = Range(q)
           /\ IsInjective(q) => IsInjective(Reverse(q))
<1>1. /\ Reverse(q) \in Seq(S) /\ Len(Reverse(q)) = Len(q) /\ Len(q) \in Nat
      /\ \A i \in 1 .. Len(q) : Len(q) - i + 1 \in 1 .. Len(q)
                                /\ Reverse(q)[i] = q[Len(q) - i + 1]
                                /\ Len(q) - (Len(q) - i + 1) + 1 = i
  BY DEF Reverse
<1> DEFINE r == Reverse(q)
<1> HIDE DEF r
<1>2. DOMAIN r = 1 .. Len(q) /\ DOMAIN q = 1 .. Len(q)
  BY <1>1 DEF r
<1>3. Range(r) \subseteq Range(q)
  BY <1>1, <1>2 DEF Range, r
<1>4. ASSUME NEW i \in 1 .. Len(q)
      PROVE  q[i] \in Range(r)
  <2>1. Len(q) - i + 1 \in 1 .. Len(q) /\ r[Len(q) - i + 1] = q[i]
    BY <1>1 DEF r
  <2> QED BY <2>1, <1>2 DEF Range
<1>5. Range(q) \subseteq Range(r)
  BY <1>2, <1>4 DEF Range
<1>6. ASSUME IsInjective(q)
      PROVE  IsInjective(r)
  <2> SUFFICES ASSUME NEW i \in 1 .. Len(q), NEW j \in 1 .. Len(q), r[i] = r[j]
               PROVE  i = j
    BY <1>2, Zenon DEF IsInjective
  <2>1. q[Len(q) - i + 1] = q[Len(q) - j + 1]
    BY <1>1 DEF r
  <2>2. Len(q) - i + 1 = Len(q) - j + 1
    BY <2>1, <1>1, <1>2, <1>6, Zenon DEF IsInjective
  <2> QED BY <2>2, <1>1
<1> QED BY <1>1, <1>3, <1>5, <1>6 DEF r

LEMMA TailKeeps ==
    ASSUME NEW S, NEW q \in Seq(S), q # <<>>
    PROVE  /\ Tail(q) \in Seq(S) /\ Head(q) \in S /\ Head(q) \in Range(q)
           /\ Range(q) = {Head(q)} \cup Range(Tail(q))
           /\ IsInjective(q) => Head(q) \notin Range(Tail(q)) /\ IsInjective(Tail(q))
<1>1. /\ Tail(q) \in Seq(S) /\ Len(q) \in Nat \ {0} /\ Len(Tail(q)) = Len(q) - 1
      /\ Head(q) = q[1] /\ q[1] \in S
      /\ \A i \in 1 .. Len(q) - 1 : Tail(q)[i] = q[i + 1]
  OBVIOUS
<1> DEFINE r == Tail(q)
<1> HIDE DEF r
<1>2. DOMAIN r = 1 .. Len(q) - 1 /\ DOMAIN q = 1 .. Len(q)
  BY <1>1 DEF r
<1>3. ASSUME NEW i \in 1 .. Len(q)
      PROVE  q[i] \in {q[1]} \cup Range(r)
  <2>1. CASE i # 1
    <3>1. i - 1 \in 1 .. Len(q) - 1 /\ r[i - 1] = q[i]
      BY <1>1, <2>1 DEF r
    <3> QED BY <3>1, <1>2 DEF Range
  <2> QED BY <2>1
<1>4. ASSUME NEW i \in 1 .. Len(q) - 1
      PROVE  r[i] \in Range(q)
  <2>1. i + 1 \in 1 .. Len(q) /\ r[i] = q[i + 1]
    BY <1>1 DEF r
  <2> QED BY <2>1, <1>2 DEF Range
<1>5. q[1] \in Range(q)
  BY <1>1, <1>2 DEF Range
<1>6. Range(q) = {q[1]} \cup Range(r)
  BY <1>2, <1>3, <1>4, <1>5 DEF Range
<1>7. ASSUME IsInjective(q)
      PROVE  q[1] \notin Range(r) /\ IsInjective(r)
  <2>1. \A i \in 1 .. Len(q) - 1 : r[i] = q[i + 1] /\ i + 1 \in 1 .. Len(q) /\ i + 1 # 1
    BY <1>1 DEF r
  <2>2. 1 \in 1 .. Len(q)
    BY <1>1
  <2>3. \A i \in 1 .. Len(q) - 1 : r[i] # q[1]
    BY <2>1, <2>2, <1>2, <1>7, Zenon DEF IsInjective
  <2>4. ASSUME NEW i \in 1 .. Len(q) - 1, NEW j \in 1 .. Len(q) - 1, r[i] = r[j]
        PROVE  i = j
    <3>1. i + 1 = j + 1
      BY <2>1, <2>4, <1>2, <1>7, Zenon DEF IsInjective
    <3> QED BY <3>1
  <2> QED BY <2>3, <2>4, <1>2 DEF Range, IsInjective
<1> QED BY <1>1, <1>5, <1>6, <1>7 DEF r

LEMMA ConcatKeeps ==
    ASSUME NEW S, NEW p \in Seq(S), NEW q \in Seq(S)
    PROVE  /\ p \o q \in Seq(S) /\ Range(p \o q) = Range(p) \cup Range(q)
           /\ IsInjective(p) /\ IsInjective(q) /\ Range(p) \cap Range(q) = {} => IsInjective(p \o q)
<1>1. /\ p \o q \in Seq(S) /\ Len(p) \in Nat /\ Len(q) \in Nat /\ Len(p \o q) = Len(p) + Len(q)
      /\ \A i \in 1 .. Len(p) : (p \o q)[i] = p[i]
      /\ \A i \in 1 .. Len(q) : (p \o q)[Len(p) + i] = q[i]
  OBVIOUS
<1> DEFINE r == p \o q
<1> HIDE DEF r
<1>2. /\ DOMAIN r = 1 .. Len(p) + Len(q) /\ DOMAIN p = 1 .. Len(p) /\ DOMAIN q = 1 .. Len(q)
  BY <1>1 DEF r
<1>3. \A i \in 1 .. Len(p) + Len(q) :
         \/ i \in 1 .. Len(p) /\ r[i] = p[i]
         \/ i - Len(p) \in 1 .. Len(q) /\ r[i] = q[i - Len(p)] /\ i \notin 1 .. Len(p)
  <2> SUFFICES ASSUME NEW i \in 1 .. Len(p) + Len(q), i \notin 1 .. Len(p)
               PROVE  i - Len(p) \in 1 .. Len(q) /\ r[i] = q[i - Len(p)]
    BY <1>1 DEF r
  <2>1. i - Len(p) \in 1 .. Len(q) /\ Len(p) + (i - Len(p)) = i
    BY <1>1
  <2>2. r[Len(p) + (i - Len(p))] = q[i - Len(p)]
    BY <1>1, <2>1 DEF r
  <2> QED BY <2>1, <2>2
<1>4. Range(r) \subseteq Range(p) \cup Range(q)
  BY <1>2, <1>3 DEF Range
<1>5. Range(p) \cup Range(q) \subseteq Range(r)
  <2>1. ASSUME NEW i \in 1 .. Len(p) PROVE p[i] \in Range(r)
    <3>1. i \in 1 .. Len(p) + Len(q) /\ r[i] = p[i]
      BY <1>1 DEF r
    <3> QED BY <3>1, <1>2 DEF Range
  <2>2. ASSUME NEW i \in 1 .. Len(q) PROVE q[i] \in Range(r)
    <3>1. Len(p) + i \in 1 .. Len(p) + Len(q) /\ r[Len(p) + i] = q[i]
      BY <1>1 DEF r
    <3> QED BY <3>1, <1>2 DEF Range
  <2> QED BY <2>1, <2>2, <1>2 DEF Range
<1>6. ASSUME IsInjective(p), IsInjective(q), Range(p) \cap Range(q) = {}
      PROVE  IsInjective(r)
  <2> SUFFICES ASSUME NEW i \in 1 .. Len(p) + Len(q), NEW j \in 1 .. Len(p) + Len(q), r[i] = r[j]
               PROVE  i = j
    BY <1>2, Zenon DEF IsInjective
  <2>1. ASSUME NEW m \in 1 .. Len(p), NEW n \in 1 .. Len(q), p[m] = q[n] PROVE FALSE
    <3>1. p[m] \in Range(p) /\ q[n] \in Range(q)
      BY <1>2 DEF Range
    <3> QED BY <3>1, <2>1, <1>6
  <2>2. CASE i \in 1 .. Len(p) /\ j \in 1 .. Len(p)
    <3>1. p[i] = p[j]
      BY <2>2, <1>3
    <3> QED BY <3>1, <2>2, <1>2, <1>6 DEF IsInjective
  <2>3. CASE i \notin 1 .. Len(p) /\ j \notin 1 .. Len(p)
    <3>1. /\ i - Len(p) \in 1 .. Len(q) /\ j - Len(p) \in 1 .. Len(q)
          /\ q[i - Len(p)] = q[j - Len(p)]
      BY <2>3, <1>3
    <3>2. i - Len(p) = j - Len(p)
      BY <3>1, <1>2, <1>6, Zenon DEF IsInjective
    <3> QED BY <3>2, <1>1
  <2>4. CASE i \in 1 .. Len(p) /\ j \notin 1 .. Len(p)
    BY <2>4, <2>1, <1>3
  <2>5. CASE i \notin 1 .. Len(p) /\ j \in 1 .. Len(p)
    BY <2>5, <2>1, <1>3
  <2> QED BY <2>2, <2>3, <2>4, <2>5
<1> QED BY <1>1, <1>4, <1>5, <1>6 DEF r

-----------------------------------------------------------------------------
(* The tree.                                                                *)

(* What TreeAssumption says of one state.                                    *)
LEMMA TreeTypes ==
    /\ NoState \notin States /\ "FinalState" \notin States
    /\ \A s \in States : Parent[s] \in States \/ Parent[s] = NoState
    /\ \A s \in States : Type[s] \in {"eSub", "eSuper", "eConc"}
    /\ \A s \in States : Type[s] = "eSub" <=> \A x \in States : Parent[x] # s
    /\ History \subseteq States
BY TreeAssumption

(* A state is registered after its parent.                                  *)
Index(s) == CHOOSE i \in DOMAIN Order : Order[i] = s

(* Every state is in Order.                                                  *)
LEMMA IndexType ==
    ASSUME NEW s \in States
    PROVE  Index(s) \in DOMAIN Order /\ Order[Index(s)] = s /\ Index(s) \in Nat
<1>1. \E i \in DOMAIN Order : Order[i] = s
  BY DEF States, Range
<1>2. Index(s) \in DOMAIN Order /\ Order[Index(s)] = s
  BY <1>1, Zenon DEF Index
<1>3. DOMAIN Order \subseteq Nat
  BY TreeAssumption
<1> QED BY <1>2, <1>3

(* Parents come first, so that a walk up the tree ends.                      *)
LEMMA ParentFirst ==
    ASSUME NEW s \in States, Parent[s] \in States
    PROVE  Index(Parent[s]) < Index(s)
<1>1. PICK j \in 1 .. Index(s) - 1 : Order[j] = Parent[s]
  <2>1. Parent[Order[Index(s)]] # NoState /\ Index(s) \in DOMAIN Order /\ Order[Index(s)] = s
    BY IndexType, TreeTypes
  <2>2. \E j \in 1 .. Index(s) - 1 : Order[j] = Parent[Order[Index(s)]]
    BY <2>1, TreeAssumption
  <2> QED BY <2>1, <2>2
<1>2. j \in DOMAIN Order
  <2>1. DOMAIN Order = 1 .. Len(Order) /\ Len(Order) \in Nat
    BY TreeAssumption
  <2>2. Index(s) \in DOMAIN Order
    BY IndexType
  <2> QED BY <2>1, <2>2
<1>3. Index(Parent[s]) = j
  <2>1. Index(Parent[s]) \in DOMAIN Order /\ Order[Index(Parent[s])] = Parent[s]
    BY IndexType
  <2> QED BY <2>1, <1>1, <1>2, TreeAssumption DEF IsInjective
<1>4. Index(s) \in Nat
  BY IndexType
<1> QED BY <1>3, <1>4

(* The tree is finite: a set of states has a highest and a lowest one.      *)
LEMMA Topmost ==
    ASSUME NEW T \in SUBSET States, T # {}
    PROVE  \E s \in T : Parent[s] \notin T
<1> DEFINE I == {Index(s) : s \in T}
<1>1. I \in SUBSET Nat /\ I # {}
  BY IndexType
<1>2. PICK i \in I : \A j \in I : i <= j
  <2> HIDE DEF I
  <2> QED BY <1>1, LeastNumber
<1>3. PICK s \in T : i = Index(s)
  BY <1>2
<1>4. ASSUME Parent[s] \in T
      PROVE  FALSE
  <2>1. Index(Parent[s]) < Index(s) /\ Index(s) \in Nat /\ Index(Parent[s]) \in Nat
    BY <1>4, ParentFirst, IndexType
  <2> QED BY <2>1, <1>2, <1>3, <1>4
<1> QED BY <1>4

LEMMA Lowest ==
    ASSUME NEW T \in SUBSET States, T # {}
    PROVE  \E s \in T : \A x \in T : Parent[x] # s
<1> DEFINE I == {Len(Order) - Index(s) : s \in T}
<1>0. \A s \in States : Index(s) \in 1 .. Len(Order) /\ Len(Order) \in Nat
  <2>1. DOMAIN Order = 1 .. Len(Order) /\ Len(Order) \in Nat
    BY TreeAssumption
  <2> QED BY <2>1, IndexType
<1>1. I \in SUBSET Nat /\ I # {}
  BY <1>0
<1>2. PICK i \in I : \A j \in I : i <= j
  <2> HIDE DEF I
  <2> QED BY <1>1, LeastNumber
<1>3. PICK s \in T : i = Len(Order) - Index(s)
  BY <1>2
<1>4. ASSUME NEW x \in T, Parent[x] = s
      PROVE  FALSE
  <2>1. Index(s) < Index(x)
    BY <1>4, ParentFirst
  <2>2. Len(Order) - Index(s) <= Len(Order) - Index(x)
    BY <1>2, <1>3
  <2>3. Index(s) \in 1 .. Len(Order) /\ Index(x) \in 1 .. Len(Order) /\ Len(Order) \in Nat
    BY <1>0
  <2> QED BY <2>1, <2>2, <2>3
<1> QED BY <1>4

(* Upward[s] has s and is closed, and nothing smaller is.                   *)
LEMMA UpwardType ==
    ASSUME NEW s \in States
    PROVE  /\ Upward[s] \subseteq States /\ s \in Upward[s]
           /\ \A x \in Upward[s] : Parent[x] \in Upward[s] \/ Parent[x] = NoState
<1>1. Upward[s] = {x \in States : \A U \in Closed : s \in U => x \in U}
  BY DEF Upward
<1>2. ASSUME NEW x \in Upward[s], Parent[x] # NoState
      PROVE  Parent[x] \in Upward[s]
  <2>1. Parent[x] \in States
    BY <1>1, <1>2, TreeTypes
  <2>2. ASSUME NEW U \in Closed, s \in U
        PROVE  Parent[x] \in U
    <3>1. x \in U
      BY <1>1, <2>2
    <3> QED BY <3>1, <1>2, TreeTypes DEF Closed
  <2> QED BY <1>1, <2>1, <2>2
<1> QED BY <1>1, <1>2

(* The walk up from s stays in a closed set that has s.                      *)
LEMMA UpwardLeast ==
    ASSUME NEW s \in States, NEW U \in SUBSET States, s \in U,
           \A x \in U : Parent[x] \in U \/ Parent[x] = NoState
    PROVE  Upward[s] \subseteq U
<1>1. U \in Closed
  BY DEF Closed
<1> QED BY <1>1 DEF Upward

(* What is above a state above s is above s.                                 *)
LEMMA UpwardTransitive ==
    ASSUME NEW s \in States, NEW x \in Upward[s]
    PROVE  x \in States /\ Upward[x] \subseteq Upward[s]
<1>1. x \in States /\ Upward[s] \in SUBSET States
  BY UpwardType
<1> QED BY <1>1, UpwardType, UpwardLeast

(* One step of getParent.                                                    *)
LEMMA UpwardChild ==
    ASSUME NEW s \in States, Parent[s] \in States
    PROVE  Upward[s] = {s} \cup Upward[Parent[s]]
<1> DEFINE p == Parent[s]
           U == {s} \cup Upward[p]
<1>1. Upward[s] \subseteq U
  <2>1. U \in SUBSET States
    BY UpwardType
  <2>2. \A x \in U : Parent[x] \in U \/ Parent[x] = NoState
    BY UpwardType
  <2>3. s \in U
    OBVIOUS
  <2> HIDE DEF U
  <2> QED BY <2>1, <2>2, <2>3, UpwardLeast
<1>2. s \in Upward[s] /\ p \in Upward[s]
  BY UpwardType, TreeTypes
<1>3. Upward[p] \subseteq Upward[s]
  BY <1>2, UpwardTransitive
<1> QED BY <1>1, <1>2, <1>3

(* A member of myConcStateList has nothing above it.                         *)
LEMMA UpwardTop ==
    ASSUME NEW s \in States, Parent[s] = NoState
    PROVE  Upward[s] = {s}
<1> DEFINE U == {s}
<1>1. Upward[s] \subseteq {s}
  <2>1. U \in SUBSET States /\ s \in U /\ \A x \in U : Parent[x] \in U \/ Parent[x] = NoState
    OBVIOUS
  <2>2. Upward[s] \subseteq U
    <3> HIDE DEF U
    <3> QED BY <2>1, UpwardLeast
  <2> QED BY <2>2
<1> QED BY <1>1, UpwardType

(* No two states are above each other.                                       *)
LEMMA UpwardAntisymmetric ==
    ASSUME NEW s \in States, NEW x \in Upward[s], s \in Upward[x]
    PROVE  x = s
<1> DEFINE U(y) == {z \in States : Index(z) <= Index(y)}
<1>1. \A y \in States : Upward[y] \subseteq U(y)
  <2> SUFFICES ASSUME NEW y \in States
               PROVE  Upward[y] \subseteq U(y)
    OBVIOUS
  <2>1. y \in U(y)
    BY IndexType
  <2>2. \A z \in U(y) : Parent[z] \in U(y) \/ Parent[z] = NoState
    <3> SUFFICES ASSUME NEW z \in U(y), Parent[z] # NoState
                 PROVE  Parent[z] \in U(y)
      OBVIOUS
    <3>1. Parent[z] \in States
      BY TreeTypes
    <3>2. Index(Parent[z]) < Index(z) /\ Index(z) <= Index(y)
      BY <3>1, ParentFirst
    <3>3. Index(Parent[z]) \in Nat /\ Index(z) \in Nat /\ Index(y) \in Nat
      BY <3>1, IndexType
    <3> QED BY <3>1, <3>2, <3>3
  <2>3. U(y) \in SUBSET States
    OBVIOUS
  <2> HIDE DEF U
  <2> QED BY <2>1, <2>2, <2>3, UpwardLeast
<1>2. x \in States
  BY UpwardType
<1>3. Index(x) <= Index(s) /\ Index(s) <= Index(x)
  BY <1>1, <1>2
<1>4. Index(x) \in Nat /\ Index(s) \in Nat /\ Order[Index(x)] = x /\ Order[Index(s)] = s
  BY <1>2, IndexType
<1>5. Index(x) = Index(s)
  BY <1>3, <1>4
<1> QED BY <1>4, <1>5

(* What is above a state is a line.                                         *)
LEMMA UpwardLinear ==
    ASSUME NEW s \in States, NEW x \in Upward[s], NEW y \in Upward[s]
    PROVE  x \in Upward[y] \/ y \in Upward[x]
<1> DEFINE T == {z \in States : \E a, b \in Upward[z] : a \notin Upward[b] /\ b \notin Upward[a]}
<1> SUFFICES ASSUME T # {} PROVE FALSE
  OBVIOUS
<1>1. PICK z \in T : Parent[z] \notin T
  <2>1. T \in SUBSET States
    OBVIOUS
  <2> HIDE DEF T
  <2> QED BY <2>1, Topmost
<1>2. PICK a \in Upward[z], b \in Upward[z] : a \notin Upward[b] /\ b \notin Upward[a]
  BY <1>1
<1>3. z \in States
  BY <1>1
<1>4. a # z /\ b # z
  BY <1>2
<1>5. Parent[z] \in States
  BY <1>2, <1>3, <1>4, UpwardTop, TreeTypes
<1>6. a \in Upward[Parent[z]] /\ b \in Upward[Parent[z]]
  BY <1>2, <1>3, <1>4, <1>5, UpwardChild
<1>7. Parent[z] \in T
  BY <1>2, <1>5, <1>6
<1> QED BY <1>1, <1>7

(* On the way from y up to x one passes a child of x.                       *)
LEMMA ChildBetween ==
    ASSUME NEW y \in States, NEW x \in Upward[y], x # y
    PROVE  \E z \in Upward[y] : Parent[z] = x /\ z \in States
<1> SUFFICES ASSUME \A z \in Upward[y] : Parent[z] # x PROVE FALSE
  BY UpwardType
<1> DEFINE U == Upward[y] \ {x}
<1>1. U \in SUBSET States /\ y \in U
  BY UpwardType
<1>2. \A z \in U : Parent[z] \in U \/ Parent[z] = NoState
  BY UpwardType
<1>3. Upward[y] \subseteq U
  <2> HIDE DEF U
  <2> QED BY <1>1, <1>2, UpwardLeast
<1> QED BY <1>3

(* Only one of them.                                                        *)
LEMMA OneChildBetween ==
    ASSUME NEW y \in States, NEW c \in Upward[y], NEW z \in Upward[y],
           Parent[c] = Parent[z], Parent[c] \in States
    PROVE  c = z
<1>1. c \in States /\ z \in States
  BY UpwardType
<1> SUFFICES ASSUME NEW a \in States, NEW b \in States, a \in Upward[b], Parent[a] = Parent[b],
                    Parent[a] \in States
             PROVE  a = b
  BY <1>1, UpwardLinear
<1>2. Upward[b] = {b} \cup Upward[Parent[a]]
  BY UpwardChild
<1>3. ASSUME a \in Upward[Parent[a]] PROVE FALSE
  <2>1. Parent[a] \in Upward[a] /\ Parent[a] # NoState
    BY UpwardType, TreeTypes
  <2>2. a = Parent[a]
    BY <2>1, <1>3, UpwardAntisymmetric
  <2>3. Index(Parent[a]) < Index(a) /\ Index(a) \in Nat
    BY ParentFirst, IndexType
  <2> QED BY <2>2, <2>3
<1> QED BY <1>2, <1>3

(* A child is not above its parent.                                         *)
LEMMA ChildBelow ==
    ASSUME NEW c \in States, Parent[c] \in States
    PROVE  c # Parent[c] /\ c \notin Upward[Parent[c]] /\ Parent[c] \in Upward[c]
           /\ Upward[c] = {c} \cup Upward[Parent[c]]
<1>1. Parent[c] \in Upward[c]
  BY UpwardType, TreeTypes
<1>2. c # Parent[c]
  BY ParentFirst, IndexType
<1>3. c \notin Upward[Parent[c]]
  BY <1>1, <1>2, UpwardAntisymmetric
<1> QED BY <1>1, <1>2, <1>3, UpwardChild

(* A leaf is above itself only.                                              *)
LEMMA LeafBelow ==
    ASSUME NEW l \in Leaves, NEW y \in States, l \in Upward[y]
    PROVE  y = l
<1> SUFFICES ASSUME y # l PROVE FALSE
  OBVIOUS
<1>1. \E z \in Upward[y] : Parent[z] = l /\ z \in States
  BY ChildBetween
<1> QED BY <1>1, TreeTypes DEF Leaves

(* getRoot: the lowest state that is above both.                            *)
LEMMA RootOf ==
    ASSUME NEW s \in States, NEW x \in States, Common(s, x) # {}
    PROVE  /\ getRoot(s, x) \in Upward[s] /\ getRoot(s, x) \in Upward[x]
           /\ getRoot(s, x) \in States
           /\ \A y \in Common(s, x) : y \in Upward[getRoot(s, x)]
<1>0. Common(s, x) \in SUBSET States
  BY UpwardType DEF Common
<1>1. PICK r \in Common(s, x) : \A z \in Common(s, x) : Parent[z] # r
  BY <1>0, Lowest
<1>2. ASSUME NEW y \in Common(s, x), y \notin Upward[r]
      PROVE  FALSE
  <2>1. r \in Upward[y] /\ y \in States /\ r # y
    BY <1>0, <1>2, UpwardLinear, UpwardType DEF Common
  <2>2. PICK z \in Upward[y] : Parent[z] = r
    BY <2>1, ChildBetween
  <2>3. z \in Common(s, x)
    BY <2>2, UpwardTransitive DEF Common
  <2> QED BY <2>2, <2>3, <1>1
<1>3. \E q \in Common(s, x) : \A y \in Common(s, x) : y \in Upward[q]
  BY <1>2
<1>4. getRoot(s, x) \in Common(s, x) /\ \A y \in Common(s, x) : y \in Upward[getRoot(s, x)]
  BY <1>3, Zenon DEF getRoot
<1> QED BY <1>0, <1>4 DEF Common

-----------------------------------------------------------------------------
(* Configurations: sets of live states.                                     *)

(* The states that are live when the leaves in A are active.                *)
LiveOf(A) == UNION {Upward[l] : l \in A}

(* s has the live substates that its type asks for.                         *)
Proper(s, L) ==
    /\ Type[s] = "eSuper" => \E x \in Children(s) : Children(s) \cap L = {x}
    /\ Type[s] = "eConc" => Children(s) \subseteq L

Whole(L) == Tops \subseteq L /\ \A s \in L : Proper(s, L)

(* Whole but for what is below r, of which nothing is live.                 *)
WholeBut(L, r) ==
    /\ L \in SUBSET States /\ Tops \subseteq L
    /\ r \in L /\ Upward[r] \subseteq L
    /\ \A x \in L : r \in Upward[x] => x = r
    /\ \A s \in L \ {r} : Proper(s, L)

(* The history of a state is one of its substates.                          *)
HistOK ==
    \A s \in States : hist[s] # NoState => hist[s] \in States /\ Parent[hist[s]] = s

(* Live states are states, and the active ones are live.                     *)
LEMMA LiveOfType ==
    ASSUME NEW A \in SUBSET Leaves
    PROVE  LiveOf(A) \in SUBSET States /\ A \subseteq LiveOf(A)
BY UpwardType DEF LiveOf, Leaves

(* What is above a live state is live.                                       *)
LEMMA LiveOfClosed ==
    ASSUME NEW A \in SUBSET Leaves, NEW x \in LiveOf(A)
    PROVE  x \in States /\ Upward[x] \subseteq LiveOf(A)
<1>1. PICK l \in A : x \in Upward[l]
  BY DEF LiveOf
<1>2. x \in States /\ Upward[x] \subseteq Upward[l]
  BY <1>1, UpwardTransitive DEF Leaves
<1> QED BY <1>2 DEF LiveOf

(* Only leaves have no substates.                                            *)
LEMMA ChildrenOf ==
    ASSUME NEW s \in States
    PROVE  /\ Children(s) \in SUBSET States /\ \A x \in States : x \in Children(s) <=> Parent[x] = s
           /\ Type[s] # "eSub" => Children(s) # {}
BY TreeTypes DEF Children

(* An eSuper is entered by one of its substates.                             *)
LEMMA DefaultChild ==
    ASSUME HistOK, NEW s \in States, Type[s] = "eSuper"
    PROVE  Default(s) \in Children(s)
<1>1. CASE hist[s] # NoState
  BY <1>1 DEF HistOK, Default, Children
<1>2. CASE hist[s] = NoState
  <2> DEFINE q == ListOf[Children(s)]
  <2>1. Children(s) \in SUBSET States /\ Children(s) # {}
    BY ChildrenOf
  <2>2. q \in Seq(States) /\ Range(q) = Children(s)
    BY <2>1, ListOfSet
  <2> HIDE DEF q
  <2>3. q # <<>>
    BY <2>1, <2>2 DEF Range
  <2>4. Head(q) \in Range(q)
    <3>1. 1 \in DOMAIN q /\ Head(q) = q[1]
      BY <2>2, <2>3
    <3> QED BY <3>1 DEF Range
  <2> QED BY <1>2, <2>2, <2>4 DEF q, Default, FirstChild
<1> QED BY <1>1, <1>2

(* What is entered with s is whole below s.                                 *)
LEMMA Descent ==
    ASSUME HistOK, NEW s \in States
    PROVE  /\ InitialOf(s) \in SUBSET Leaves /\ InitialOf(s) # {}
           /\ \A l \in InitialOf(s) : s \in Upward[l]
           /\ Upward[s] \subseteq LiveOf(InitialOf(s))
           /\ \A x \in LiveOf(InitialOf(s)) : s \in Upward[x] => Proper(x, LiveOf(InitialOf(s)))
<1> DEFINE N == LiveOf(InitialOf(s))
           Reach == {x \in States : s \in Upward[x] /\ \A y \in Upward[x] \ Upward[s] : Chosen(y)}
           T == {x \in Reach : x \notin N}
<1>1. InitialOf(s) \in SUBSET Leaves /\ \A l \in InitialOf(s) : s \in Upward[l]
  BY DEF InitialOf
<1>2. \A x \in Reach : x \in Leaves => x \in InitialOf(s)
  BY DEF InitialOf
<1>3. ASSUME NEW x \in Reach, NEW c \in Children(x), Chosen(c)
      PROVE  c \in Reach
  <2>1. c \in States /\ Parent[c] = x /\ x \in States
    BY <1>3 DEF Children
  <2>2. Upward[c] = {c} \cup Upward[x]
    BY <2>1, UpwardChild
  <2> QED BY <2>1, <2>2, <1>3
<1>4. T = {}
  <2> SUFFICES ASSUME T # {} PROVE FALSE
    OBVIOUS
  <2>1. PICK x \in T : \A z \in T : Parent[z] # x
    <3>1. T \in SUBSET States
      OBVIOUS
    <3> HIDE DEF T
    <3> QED BY <3>1, Lowest
  <2>2. x \in Reach /\ x \in States /\ x \notin N
    BY <2>1
  <2>3. x \notin Leaves
    <3>1. InitialOf(s) \subseteq N
      BY <1>1, LiveOfType
    <3> HIDE DEF N, Reach
    <3> QED BY <3>1, <2>2, <1>2
  <2>4. Type[x] # "eSub"
    BY <2>2, <2>3 DEF Leaves
  <2>5. PICK c \in Children(x) : Chosen(c)
    <3>1. CASE Type[x] = "eSuper"
      <4>1. Default(x) \in Children(x)
        BY <3>1, <2>2, DefaultChild
      <4> QED BY <4>1 DEF Chosen, Children
    <3>2. CASE Type[x] # "eSuper"
      <4>1. Children(x) # {}
        BY <2>2, <2>4, ChildrenOf
      <4> QED BY <4>1, <3>2 DEF Chosen, Children
    <3> QED BY <3>1, <3>2
  <2>6. c \in Reach /\ c \in States /\ Parent[c] = x
    <3>1. c \in States /\ Parent[c] = x
      BY DEF Children
    <3> HIDE DEF Reach
    <3> QED BY <3>1, <2>2, <2>5, <1>3
  <2>7. c \in N
    <3> HIDE DEF N, Reach
    <3> QED BY <2>1, <2>6
  <2>8. x \in N
    <3>1. Upward[c] \subseteq N /\ x \in Upward[c]
      <4>1. x \in Upward[c]
        BY <2>2, <2>6, UpwardType, TreeTypes
      <4> HIDE DEF Reach
      <4> QED BY <4>1, <1>1, <2>7, LiveOfClosed
    <3> QED BY <3>1
  <2> QED BY <2>2, <2>8
<1>5. s \in Reach
  BY UpwardType
<1>6. s \in N
  <2> HIDE DEF N, Reach
  <2> QED BY <1>4, <1>5
<1>7. InitialOf(s) # {} /\ Upward[s] \subseteq N
  <2>1. Upward[s] \subseteq N
    BY <1>1, <1>6, LiveOfClosed
  <2> QED BY <2>1, <1>6 DEF LiveOf
<1>8. ASSUME NEW x \in N, s \in Upward[x]
      PROVE  x \in Reach
  <2>1. PICK l \in InitialOf(s) : x \in Upward[l]
    BY DEF LiveOf
  <2>2. x \in States /\ Upward[x] \subseteq Upward[l]
    BY <2>1, <1>1, UpwardTransitive DEF Leaves
  <2> QED BY <2>1, <2>2, <1>8 DEF InitialOf
<1>9. ASSUME NEW x \in N, s \in Upward[x]
      PROVE  Proper(x, N)
  <2> HIDE DEF Reach, N
  <2>1. x \in Reach /\ x \in States
    <3>1. x \in States
      BY <1>1, LiveOfType DEF N
    <3> QED BY <3>1, <1>8, <1>9
  <2>2. Reach \subseteq N
    BY <1>4
  <2>3. ASSUME Type[x] = "eSuper"
        PROVE  Children(x) \cap N = {Default(x)}
    <3>1. Default(x) \in Children(x)
      BY <2>1, <2>3, DefaultChild
    <3>2. Default(x) \in N
      <4>1. Chosen(Default(x))
        BY <3>1 DEF Chosen, Children
      <4> QED BY <4>1, <3>1, <2>1, <2>2, <1>3
    <3>3. ASSUME NEW c \in Children(x) \cap N
          PROVE  c = Default(x)
      <4>1. c \in States /\ Parent[c] = x
        BY DEF Children
      <4>2. s \in Upward[c] /\ c \in Upward[c] /\ c \notin Upward[s]
        <5>1. Upward[c] = {c} \cup Upward[x] /\ c \notin Upward[x]
          BY <4>1, <2>1, ChildBelow
        <5>2. Upward[s] \subseteq Upward[x]
          BY <2>1, <1>9, UpwardTransitive
        <5> QED BY <5>1, <5>2, <1>9
      <4>3. c \in Reach
        BY <4>2, <1>8
      <4>4. Chosen(c)
        BY <4>2, <4>3 DEF Reach
      <4> QED BY <4>1, <4>4, <2>3 DEF Chosen
    <3> QED BY <3>1, <3>2, <3>3
  <2>4. ASSUME Type[x] = "eConc", NEW c \in Children(x)
        PROVE  c \in N
    <3>1. Chosen(c)
      BY <2>4 DEF Chosen, Children
    <3> QED BY <3>1, <2>1, <2>2, <1>3
  <2> QED BY <2>3, <2>4 DEF Proper
<1> QED BY <1>1, <1>7, <1>9

(* start(): what is entered with all the machines is whole.                 *)
LEMMA StartWhole ==
    ASSUME HistOK
    PROVE  LET A == UNION {InitialOf(t) : t \in Tops}
           IN  A \in SUBSET Leaves /\ Whole(LiveOf(A))
<1> DEFINE A == UNION {InitialOf(t) : t \in Tops}
<1>1. \A t \in Tops : t \in States /\ Parent[t] = NoState
  BY DEF Tops
<1>2. A \in SUBSET Leaves
  BY <1>1, Descent
<1>3. \A x : x \in LiveOf(A) <=> \E t \in Tops : x \in LiveOf(InitialOf(t))
  BY DEF LiveOf
<1>4. Tops \subseteq LiveOf(A)
  <2> SUFFICES ASSUME NEW t \in Tops PROVE t \in LiveOf(A)
    OBVIOUS
  <2>1. t \in LiveOf(InitialOf(t))
    BY <1>1, Descent, UpwardType
  <2> HIDE DEF A
  <2> QED BY <2>1, <1>3
<1>5. ASSUME NEW t \in Tops, NEW x \in LiveOf(InitialOf(t))
      PROVE  t \in Upward[x] /\ x \in States
  <2>1. PICK l \in InitialOf(t) : x \in Upward[l]
    BY DEF LiveOf
  <2>2. l \in States /\ t \in Upward[l] /\ t \in States
    BY <1>1, Descent DEF Leaves
  <2>3. x \in States /\ (t \in Upward[x] \/ x \in Upward[t])
    BY <2>1, <2>2, UpwardLinear, UpwardType
  <2>4. Upward[t] = {t}
    BY <1>1, UpwardTop
  <2> QED BY <2>3, <2>4, UpwardType
<1>6. ASSUME NEW x \in LiveOf(A)
      PROVE  Proper(x, LiveOf(A))
  <2>1. PICK t \in Tops : x \in LiveOf(InitialOf(t))
    BY <1>3
  <2> HIDE DEF A
  <2>2. t \in Upward[x] /\ x \in States /\ t \in States
    BY <2>1, <1>5, <1>1
  <2>3. Proper(x, LiveOf(InitialOf(t)))
    BY <2>1, <2>2, Descent
  <2>4. LiveOf(InitialOf(t)) \subseteq LiveOf(A)
    BY <1>3
  <2>5. Children(x) \cap LiveOf(A) = Children(x) \cap LiveOf(InitialOf(t))
    <3> SUFFICES ASSUME NEW c \in Children(x), c \in LiveOf(A)
                 PROVE  c \in LiveOf(InitialOf(t))
      BY <2>4
    <3>1. PICK u \in Tops : c \in LiveOf(InitialOf(u))
      BY <1>3
    <3>2. u \in Upward[c] /\ c \in States /\ u \in States
      BY <3>1, <1>5, <1>1
    <3>3. t \in Upward[c]
      <4>1. Parent[c] = x
        BY DEF Children
      <4> QED BY <4>1, <3>2, <2>2, UpwardChild
    <3>4. t \in Upward[u] \/ u \in Upward[t]
      BY <3>2, <3>3, UpwardLinear
    <3>5. t = u
      BY <3>4, <1>1, UpwardTop, <3>2, <2>2
    <3> QED BY <3>1, <3>5
  <2> QED BY <2>3, <2>4, <2>5 DEF Proper
<1> HIDE DEF A
<1>7. Whole(LiveOf(A))
  BY <1>4, <1>6 DEF Whole
<1> QED BY <1>2, <1>7 DEF A

(* What Left takes out of the set A of active states.                       *)
GoneOf(A, from, root) ==
    {x \in A : x = from \/ \E y \in Upward[from] \ Upward[root] : isParent(x, y)}

(* What is left behind is whole but for what is below the root, and has     *)
(* nothing of what onExit is going to be called on.                         *)
LeftBehind(A, from, root, gone) ==
    /\ \A x \in gone : root \in Upward[x]
    /\ LiveOf(A \ gone) \cup Upward[root] \subseteq LiveOf(A)
    /\ WholeBut(LiveOf(A \ gone) \cup Upward[root], root)
    /\ root \notin A \ gone
    /\ \A x \in LiveOf(A \ gone) \cup Upward[root] : x \notin Upward[from] \ Upward[root]

(* executeExit.                                                             *)
LEMMA ExitWhole ==
    ASSUME NEW A \in SUBSET Leaves, Whole(LiveOf(A)), NEW l \in A,
           NEW from \in Upward[l], NEW root \in Upward[from],
           root = from => from = l,
           root # l => Type[root] = "eSuper",
           NEW gone, gone = GoneOf(A, from, root)
    PROVE  LeftBehind(A, from, root, gone)
<1> DEFINE L == LiveOf(A)
           M == {x \in L : root \in Upward[x] => x = root}
<1>0. gone = {x \in A : x = from \/ \E y \in Upward[from] \ Upward[root] : isParent(x, y)}
  BY DEF GoneOf
<1> USE <1>0
<1>1. l \in States /\ from \in States /\ root \in States /\ A \subseteq States
  BY UpwardType DEF Leaves
<1>2. ASSUME NEW x \in gone
      PROVE  x \in A /\ x \in States /\ root \in Upward[x]
  <2>1. x \in A /\ x \in States
    BY <1>1
  <2>2. CASE x = from
    BY <2>1, <2>2
  <2>3. CASE x # from
    <3>1. PICK y \in Upward[from] \ Upward[root] : isParent(x, y)
      BY <2>3
    <3>2. y \in Upward[x] /\ y \in States
      BY <3>1, <2>1, <1>1, UpwardType DEF isParent, Above
    <3>3. root \in Upward[y]
      BY <3>1, <1>1, UpwardLinear
    <3> QED BY <3>2, <3>3, <2>1, UpwardTransitive
  <2> QED BY <2>1, <2>2, <2>3
<1>3. L \in SUBSET States /\ A \subseteq L /\ \A x \in L : Upward[x] \subseteq L
  BY LiveOfType, LiveOfClosed
<1>4. from \in L /\ root \in L /\ Upward[from] \subseteq L /\ Upward[root] \subseteq L
  BY <1>1, <1>3, UpwardTransitive
<1>5. ASSUME NEW c \in L, NEW d \in L, Parent[c] = root, Parent[d] = root
      PROVE  c = d
  <2>1. c \in Children(root) /\ d \in Children(root)
    BY <1>5, <1>3 DEF Children
  <2>2. Type[root] = "eSuper"
    <3>1. root \notin Leaves
      BY <1>5, <1>3, <1>1, TreeTypes DEF Leaves
    <3> QED BY <3>1
  <2>3. PICK z : Children(root) \cap L = {z}
    BY <2>2, <1>4 DEF Whole, Proper
  <2> QED BY <2>1, <2>3
<1>6. LiveOf(A \ gone) \cup Upward[root] = M
  <2>1. ASSUME NEW x \in M
        PROVE  x \in LiveOf(A \ gone) \cup Upward[root]
    <3>1. PICK a \in A : x \in Upward[a]
      BY DEF LiveOf
    <3>2. CASE a \in gone
      <4>1. x \in Upward[root] \/ root \in Upward[x]
        BY <3>1, <3>2, <1>2, UpwardLinear
      <4> QED BY <4>1, <1>1, UpwardType
    <3>3. CASE a \notin gone
      BY <3>1, <3>3 DEF LiveOf
    <3> QED BY <3>2, <3>3
  <2>2. ASSUME NEW x \in Upward[root]
        PROVE  x \in M
    BY <1>1, <1>4, UpwardAntisymmetric
  <2>3. ASSUME NEW x \in LiveOf(A \ gone), root \in Upward[x], x # root
        PROVE  FALSE
    <3>1. PICK a \in A : a \notin gone /\ x \in Upward[a]
      BY DEF LiveOf
    <3>2. a \in States /\ x \in States /\ x \in L
      BY <3>1, <1>1, <1>3, UpwardType
    <3>3. PICK z \in Upward[x] : Parent[z] = root /\ z \in States
      BY <2>3, <3>2, ChildBetween
    <3>4. z \in L /\ z \in Upward[a]
      BY <3>1, <3>2, <3>3, <1>3, UpwardTransitive
    <3>5. root # from
      BY <3>3, <1>1, TreeTypes DEF Leaves
    <3>6. PICK y \in Upward[from] : Parent[y] = root /\ y \in States
      BY <3>5, <1>1, ChildBetween
    <3>7. y = z
      BY <3>3, <3>4, <3>6, <1>4, <1>5
    <3>8. z \in Upward[from] \ Upward[root]
      BY <3>6, <3>7, <3>3, <1>1, ChildBelow
    <3>9. a = z
      <4>1. ~isParent(a, z)
        BY <3>1, <3>8
      <4> QED BY <4>1, <3>2, <3>4 DEF isParent, Above
    <3>10. from = a
      BY <3>8, <3>9, <1>1, LeafBelow
    <3> QED BY <3>1, <3>10
  <2>4. LiveOf(A \ gone) \subseteq L
    BY DEF LiveOf
  <2>5. LiveOf(A \ gone) \subseteq M
    <3> HIDE DEF L
    <3> QED BY <2>3, <2>4
  <2>6. M \subseteq LiveOf(A \ gone) \cup Upward[root]
    <3> HIDE DEF M
    <3> QED BY <2>1
  <2>7. Upward[root] \subseteq M
    <3> HIDE DEF M
    <3> QED BY <2>2
  <2> HIDE DEF M
  <2> QED BY <2>5, <2>6, <2>7
<1>7. WholeBut(M, root)
  <2>1. M \in SUBSET States /\ Upward[root] \subseteq M /\ root \in M
    <3>1. M \in SUBSET States
      BY <1>3
    <3>2. Upward[root] \subseteq M
      BY <1>6
    <3> QED BY <3>1, <3>2, <1>1, UpwardType
  <2>2. Tops \subseteq M
    <3> SUFFICES ASSUME NEW t \in Tops PROVE t \in M
      OBVIOUS
    <3>1. Upward[t] = {t} /\ t \in L
      BY UpwardTop DEF Tops, Whole
    <3> QED BY <3>1
  <2>3. ASSUME NEW s \in M, s # root
        PROVE  Proper(s, M)
    <3>1. s \in L /\ s \in States /\ Proper(s, L)
      BY <2>3, <1>3 DEF Whole
    <3>2. Children(s) \cap L \subseteq M
      <4> SUFFICES ASSUME NEW c \in L, c \in Children(s), root \in Upward[c]
                   PROVE  c = root
        OBVIOUS
      <4>1. Upward[c] = {c} \cup Upward[s]
        BY <3>1, UpwardChild DEF Children
      <4> QED BY <4>1, <2>3
    <3>3. Children(s) \cap M = Children(s) \cap L
      BY <3>2
    <3> HIDE DEF M, L
    <3> QED BY <3>1, <3>3 DEF Proper
  <2>4. \A x \in M : root \in Upward[x] => x = root
    OBVIOUS
  <2> HIDE DEF M
  <2> QED BY <2>1, <2>2, <2>3, <2>4 DEF WholeBut
<1>8. root \notin A \ gone
  <2> SUFFICES ASSUME root \in A PROVE root \in gone
    OBVIOUS
  <2>1. from = root
    BY <1>1, LeafBelow
  <2> QED BY <2>1
<1>9. ASSUME NEW x \in M, x \in Upward[from], x \notin Upward[root]
      PROVE  FALSE
  <2>1. root \in Upward[x]
    BY <1>9, <1>1, UpwardLinear
  <2> QED BY <2>1, <1>9, <1>1, UpwardType
<1>10. M \subseteq L
  OBVIOUS
<1> HIDE DEF M, L
<1> QED BY <1>2, <1>6, <1>7, <1>8, <1>9, <1>10 DEF L, LeftBehind

(* executeEntry: what is entered makes it whole again.                      *)
LEMMA EntryWhole ==
    ASSUME HistOK, NEW A \in SUBSET Leaves, NEW next \in States, NEW root \in Upward[next],
           WholeBut(LiveOf(A) \cup Upward[root], root), root \notin A,
           Type[root] = "eSuper" \/ root \in Leaves,
           \A x \in Above[next] \ Upward[root] : Type[x] = "eSuper"
    PROVE  /\ Whole(LiveOf(A \cup InitialOf(next)))
           /\ A \cap InitialOf(next) = {}
           /\ \A l \in InitialOf(next) : root \in Upward[l]
<1> DEFINE M == LiveOf(A) \cup Upward[root]
           N == LiveOf(InitialOf(next))
<1>1. /\ InitialOf(next) \in SUBSET Leaves
      /\ \A l \in InitialOf(next) : next \in Upward[l] /\ l \in States
      /\ Upward[next] \subseteq N
      /\ \A x \in N : next \in Upward[x] => Proper(x, N)
  BY Descent DEF Leaves
<1>2. root \in States /\ \A l \in InitialOf(next) : root \in Upward[l]
  BY <1>1, UpwardType, UpwardTransitive
<1>3. A \cap InitialOf(next) = {}
  <2> SUFFICES ASSUME NEW l \in A, l \in InitialOf(next) PROVE FALSE
    OBVIOUS
  <2>1. l \in M /\ root \in Upward[l]
    BY <1>2, LiveOfType
  <2> QED BY <2>1 DEF WholeBut
<1>4. LiveOf(A \cup InitialOf(next)) = M \cup N
  <2>1. Upward[root] \subseteq N
    BY <1>1, UpwardTransitive
  <2>2. LiveOf(A \cup InitialOf(next)) = LiveOf(A) \cup N
    BY DEF LiveOf
  <2> HIDE DEF N
  <2> QED BY <2>1, <2>2
<1>5. N \in SUBSET States /\ M \in SUBSET States
  BY <1>1, <1>2, LiveOfType, UpwardType
<1>6. ASSUME NEW s \in M \cup N, root \notin Upward[s]
      PROVE  Proper(s, M \cup N)
  <2>1. s \in States
    BY <1>5, <1>6
  <2>2. s \in M
    <3>1. ASSUME s \in N PROVE s \in Upward[root]
      <4>1. PICK l \in InitialOf(next) : s \in Upward[l]
        BY <3>1 DEF LiveOf
      <4> QED BY <4>1, <1>1, <1>2, <1>6, UpwardLinear
    <3> QED BY <3>1, <1>6
  <2>3. Proper(s, M)
    <3>1. s # root
      BY <1>6, <1>2, UpwardType
    <3> HIDE DEF M
    <3>2. WholeBut(M, root)
      BY DEF M
    <3> QED BY <2>2, <3>1, <3>2 DEF WholeBut
  <2>4. Children(s) \cap N \subseteq M
    <3> SUFFICES ASSUME NEW c \in N, c \in Children(s) PROVE c \in M
      OBVIOUS
    <3>1. PICK l \in InitialOf(next) : c \in Upward[l]
      BY DEF LiveOf
    <3>2. Upward[c] = {c} \cup Upward[s]
      BY <2>1, UpwardChild DEF Children
    <3>3. c \in Upward[root] \/ root \in Upward[c]
      BY <3>1, <1>1, <1>2, UpwardLinear
    <3>4. c \in Upward[root]
      BY <3>2, <3>3, <1>6, <1>2, UpwardType
    <3> QED BY <3>4
  <2>5. Children(s) \cap (M \cup N) = Children(s) \cap M
    BY <2>4
  <2> HIDE DEF M, N
  <2> QED BY <2>3, <2>5 DEF Proper
<1>7. ASSUME NEW s \in M \cup N, root \in Upward[s]
      PROVE  Proper(s, M \cup N)
  <2>1. s \in States
    BY <1>5
  <2>2. Children(s) \cap M = {}
    <3> SUFFICES ASSUME NEW c \in M, c \in Children(s) PROVE FALSE
      OBVIOUS
    <3>1. Parent[c] = s /\ c \in States
      BY DEF Children
    <3>2. root \in Upward[c] /\ c # root
      <4>1. Upward[c] = {c} \cup Upward[s] /\ c \notin Upward[s]
        BY <3>1, <2>1, ChildBelow
      <4> QED BY <4>1, <1>7
    <3> QED BY <3>2 DEF WholeBut
  <2>3. Children(s) \cap (M \cup N) = Children(s) \cap N
    <3> HIDE DEF M, N
    <3> QED BY <2>2
  <2>4. s \in N
    <3>1. CASE s \in M
      <4>1. s = root
        BY <3>1, <1>7 DEF WholeBut
      <4> QED BY <4>1, <1>1
    <3> QED BY <3>1
  <2>5. CASE next \in Upward[s]
    <3> HIDE DEF M, N
    <3>1. Proper(s, N)
      BY <2>4, <2>5, <1>1 DEF N
    <3> QED BY <3>1, <2>3 DEF Proper
  <2>6. CASE next \notin Upward[s]
    <3>1. s \in Upward[next] /\ s # next
      <4>1. PICK l \in InitialOf(next) : s \in Upward[l]
        BY <2>4 DEF LiveOf
      <4>2. s \in Upward[next]
        BY <4>1, <1>1, <2>6, UpwardLinear
      <4> QED BY <4>2, <2>6, <2>1, UpwardType
    <3>2. PICK z \in Upward[next] : Parent[z] = s /\ z \in States
      BY <3>1, ChildBetween
    <3>3. Type[s] = "eSuper"
      <4>1. CASE s = root
        <5>1. root \notin Leaves
          BY <3>2, <4>1, TreeTypes DEF Leaves
        <5> QED BY <5>1, <4>1
      <4>2. CASE s # root
        <5>1. s \notin Upward[root]
          BY <4>2, <1>2, <1>7, UpwardAntisymmetric
        <5> QED BY <5>1, <3>1 DEF Above
      <4> QED BY <4>1, <4>2
    <3>4. z \in Children(s) \cap N
      BY <3>2, <1>1 DEF Children
    <3>5. ASSUME NEW c \in Children(s) \cap N
          PROVE  c = z
      <4>1. c \in States /\ Parent[c] = s
        BY DEF Children
      <4>2. PICK l \in InitialOf(next) : c \in Upward[l]
        BY <3>5 DEF LiveOf
      <4>3. z \in Upward[l] /\ l \in States
        BY <4>2, <1>1, <3>2, UpwardTransitive
      <4> QED BY <4>1, <4>2, <4>3, <3>2, <2>1, OneChildBetween
    <3>6. Children(s) \cap N = {z}
      BY <3>4, <3>5
    <3> HIDE DEF M, N
    <3> QED BY <3>3, <3>6, <2>3 DEF Proper
  <2> QED BY <2>5, <2>6
<1>8. Tops \subseteq M
  BY DEF WholeBut
<1> HIDE DEF M, N
<1>9. Whole(M \cup N)
  BY <1>6, <1>7, <1>8 DEF Whole
<1> QED BY <1>2, <1>3, <1>4, <1>9

-----------------------------------------------------------------------------
(* The inductive invariant.                                                 *)

WholeList(q) == q # <<>> => Whole(LiveOf(Range(q))) /\ IsInjective(q)

(* No callback is under way.                                                *)
Resting ==
    pc = "fire" =>
        /\ trail = <<>> /\ move = NoMove
        /\ Settled => WholeList(active) /\ Live \subseteq ready

(* onExit is being called, on states of which nothing is left.              *)
Ending == move.next = "FinalState" /\ active = <<>>
Moving ==
    LET root == move.root
        next == move.next
        kept == Live \cup Upward[root]
    IN  /\ next \in States /\ root \in Upward[next]
        /\ Type[root] = "eSuper" \/ root \in Leaves
        /\ \A x \in Above[next] \ Upward[root] : Type[x] = "eSuper"
        /\ WholeBut(kept, root) /\ root \notin Range(active) /\ IsInjective(active)
        /\ kept \subseteq ready
        /\ \A x \in kept : x \notin Range(trail)
Exits == Range(trail) \subseteq ready /\ IsInjective(trail)
Leaving == pc = "exit" => Exits /\ (Ending \/ Moving)

(* onEntry is being called, on what is active already.                      *)
Entering ==
    pc = "entry" =>
        WholeList(active) /\ Live \subseteq ready \cup Range(trail)

ConfigInv ==
    /\ TypeOK
    /\ HistOK
    /\ call = "none" => pc = "fire"
    /\ Resting
    /\ Leaving
    /\ Entering
    /\ WholeList(saved)

(* An event is under way on a busy machine only: what an exception leaves   *)
(* of it takes no events.                                                   *)
BusyInCall == call = "postEvent" => busy

EngineInv == ConfigInv /\ BusyInCall

LEMMA LiveIs == Live = LiveOf(Range(active))
BY DEF Live, LiveOf

(* The members of a list.                                                    *)
LEMMA RangeType ==
    ASSUME NEW S, NEW q \in Seq(S)
    PROVE  Range(q) \in SUBSET S
BY DEF Range

LEMMA EmptyRange ==
    ASSUME NEW S, NEW q \in Seq(S)
    PROVE  Range(q) = {} <=> q = <<>>
BY DEF Range

(* A step between callbacks that leaves the active states alone.            *)
LEMMA QuietStep ==
    ASSUME ConfigInv, pc = "fire", TypeOK', UNCHANGED machine,
           pc' = "fire", trail' = <<>>, move' = NoMove,
           Settled' => Settled, WholeList(saved')
    PROVE  ConfigInv'
<1>1. HistOK'
  BY DEF ConfigInv, HistOK, machine
<1>2. Live' = Live
  BY DEF Live, machine
<1>3. Resting'
  BY <1>2 DEF ConfigInv, Resting, machine
<1> QED BY <1>1, <1>3 DEF ConfigInv, Leaving, Entering

(* A callback posts some messages, and others are forgotten.                *)
LEMMA PostsType ==
    ASSUME TypeOK, Posts
    PROVE  posted' \in Seq(Targets \cup {"*"}) /\ at' \in 0 .. Len(posted')
<1> DEFINE T == Targets \cup {"*"}
<1>1. posted \in Seq(T) /\ at \in 0 .. Len(posted) /\ MaxPosted \in Nat
  BY MaxPostedAssumption DEF TypeOK
<1>2. PICK n \in 0 .. MaxPosted : \E new \in [1 .. n -> T] :
        LET excess == Len(posted) + n - MaxPosted
            gone   == IF excess > 0 THEN excess ELSE 0
        IN  /\ gone <= at
            /\ posted' = SubSeq(posted, gone + 1, Len(posted)) \o new
            /\ at' = at - gone
  BY Zenon DEF Posts
<1>3. PICK new \in [1 .. n -> T] :
        LET excess == Len(posted) + n - MaxPosted
            gone   == IF excess > 0 THEN excess ELSE 0
        IN  /\ gone <= at
            /\ posted' = SubSeq(posted, gone + 1, Len(posted)) \o new
            /\ at' = at - gone
  BY <1>2
<1> DEFINE excess == Len(posted) + n - MaxPosted
           gone   == IF excess > 0 THEN excess ELSE 0
           kept   == SubSeq(posted, gone + 1, Len(posted))
<1>4. gone <= at /\ posted' = kept \o new /\ at' = at - gone
  BY <1>3
<1>5. n \in Nat /\ new \in Seq(T) /\ Len(new) \in Nat
  <2>1. n \in Nat
    BY <1>1
  <2> HIDE DEF T
  <2> QED BY <2>1
<1>6. gone \in Int /\ 0 <= gone
  BY <1>1, <1>5
<1> HIDE DEF gone, T
<1>7. kept \in Seq(T) /\ Len(kept) = Len(posted) - gone
  BY <1>1, <1>4, <1>6
<1> HIDE DEF kept
<1>8. posted' \in Seq(T) /\ Len(posted') = Len(posted) - gone + Len(new)
  <2>1. \A p, q \in Seq(T) : p \o q \in Seq(T) /\ Len(p \o q) = Len(p) + Len(q)
    OBVIOUS
  <2>2. posted' \in Seq(T) /\ Len(posted') = Len(kept) + Len(new)
    BY <1>4, <1>5, <1>7, <2>1, Zenon
  <2> QED BY <2>2, <1>7
<1>9. at' \in 0 .. Len(posted')
  BY <1>1, <1>4, <1>5, <1>6, <1>8
<1> QED BY <1>8, <1>9 DEF T

(* Each action of the context keeps the invariant.                           *)
LEMMA PostEventStep ==
    ASSUME ConfigInv, PostEvent
    PROVE  ConfigInv'
<1>1. TypeOK'
  <2>1. CASE ~status
    BY <2>1 DEF PostEvent, ConfigInv, TypeOK, machine
  <2>2. CASE status /\ busy
    <3>1. posted' \in Seq(Targets \cup {"*"}) /\ at \in 0 .. Len(posted')
      <4> DEFINE T == Targets \cup {"*"}
      <4>1. posted \in Seq(T) /\ at \in 0 .. Len(posted) /\ "*" \in T
        BY DEF ConfigInv, TypeOK
      <4>2. posted' = Append(posted, "*")
        BY <2>2 DEF PostEvent
      <4> HIDE DEF T
      <4> QED BY <4>1, <4>2 DEF T
    <3> QED BY <2>2, <3>1 DEF PostEvent, ConfigInv, TypeOK, machine
  <2>3. CASE status /\ ~busy
    <3>1. /\ busy' \in BOOLEAN /\ threw' \in BOOLEAN /\ call' = "postEvent"
          /\ posted' = <<>> /\ at' = 0 /\ target' = "*" /\ temp' = active
          /\ UNCHANGED <<machine, status, pc, trail, move, saved>>
      BY <2>3, Zenon DEF PostEvent
    <3> QED BY <3>1 DEF ConfigInv, TypeOK, machine
  <2> QED BY <2>1, <2>2, <2>3
<1>2. /\ pc = "fire" /\ UNCHANGED <<machine, pc, trail, move, saved, status>>
      /\ (status /\ ~busy) \/ UNCHANGED <<busy, call>>
  BY DEF PostEvent, ConfigInv
<1>3. trail' = <<>> /\ move' = NoMove /\ WholeList(saved') /\ (Settled' => Settled)
  BY <1>2 DEF ConfigInv, Resting, Settled
<1> QED BY <1>1, <1>2, <1>3, QuietStep

LEMMA SaveStep ==
    ASSUME ConfigInv, Save
    PROVE  ConfigInv'
<1>1. TypeOK'
  BY DEF Save, ConfigInv, TypeOK, machine
<1>2. pc = "fire" /\ UNCHANGED <<machine, pc, trail, move, status, busy, call>>
      /\ saved' = active /\ Settled
  BY DEF Save, ConfigInv, Settled
<1>3. trail' = <<>> /\ move' = NoMove /\ WholeList(saved') /\ (Settled' => Settled)
  BY <1>2 DEF ConfigInv, Resting
<1> QED BY <1>1, <1>2, <1>3, QuietStep

LEMMA LoadStep ==
    ASSUME ConfigInv, Load
    PROVE  ConfigInv'
<1>1. /\ call = "none" /\ pc = "fire" /\ trail = <<>> /\ move = NoMove
      /\ UNCHANGED <<hist, busy, posted, at, call, pc, temp, target, trail, move, saved>>
  BY DEF Load, ConfigInv, Resting
<1>2. CASE saved # <<>> /\ active' = saved /\ status' = TRUE /\ threw' = FALSE
           /\ ready' = UNION {Upward[l] : l \in Range(saved)}
  <2>1. ready' = LiveOf(Range(saved)) /\ Live' = ready' /\ WholeList(active')
    BY <1>2 DEF LiveOf, Live, ConfigInv
  <2>2. ready' \in SUBSET States
    BY <2>1, LiveOfType, RangeType DEF ConfigInv, TypeOK
  <2>3. TypeOK'
    BY <1>1, <1>2, <2>2 DEF ConfigInv, TypeOK
  <2>4. Resting'
    BY <1>1, <2>1 DEF Resting
  <2> QED BY <1>1, <2>3, <2>4 DEF ConfigInv, HistOK, Leaving, Entering
<1>3. CASE active' = <<>> /\ status' = FALSE /\ threw' = TRUE /\ ready' = {}
  <2>1. TypeOK'
    <3>1. threw' \in BOOLEAN /\ status' \in BOOLEAN /\ active' = <<>> /\ ready' \subseteq States
      BY <1>3, Zenon
    <3> QED BY <1>1, <3>1 DEF ConfigInv, TypeOK
  <2>2. ~Settled'
    BY <1>1, <1>3 DEF Settled
  <2>3. Resting'
    BY <1>1, <2>2 DEF Resting
  <2> QED BY <1>1, <2>1, <2>3 DEF ConfigInv, HistOK, Leaving, Entering
<1>4. CASE threw' = TRUE /\ UNCHANGED <<active, status, ready>>
  <2>1. TypeOK'
    BY <1>1, <1>4 DEF ConfigInv, TypeOK
  <2>2. UNCHANGED machine /\ (Settled' => Settled) /\ trail' = <<>> /\ move' = NoMove
        /\ WholeList(saved')
    BY <1>1, <1>4 DEF machine, Settled, ConfigInv
  <2> QED BY <1>1, <2>1, <2>2, QuietStep
<1> QED BY <1>2, <1>3, <1>4 DEF Load

LEMMA StartStep ==
    ASSUME ConfigInv, Start
    PROVE  ConfigInv'
<1> DEFINE A == UNION {InitialOf(t) : t \in Tops}
           B == UNION {Upward[l] : l \in A}
<1>1. /\ active' = ListOf[A] /\ trail' = ListOf[B]
      /\ pc' = "entry" /\ call' = "start" /\ at' = 0 /\ ready' = {} /\ threw' = FALSE
      /\ UNCHANGED <<hist, status, busy, posted, temp, target, move, saved>>
  BY DEF Start
<1>2. A \in SUBSET Leaves /\ Whole(LiveOf(A)) /\ B = LiveOf(A)
  BY StartWhole DEF ConfigInv, LiveOf
<1> HIDE DEF A, B
<1>3. B \in SUBSET States /\ A \in SUBSET States
  BY <1>2, LiveOfType DEF Leaves
<1>4. /\ active' \in Seq(A) /\ Range(active') = A /\ IsInjective(active')
      /\ trail' \in Seq(States) /\ Range(trail') = B
  BY <1>1, <1>3, ListOfSet
<1>5. active' \in Seq(Leaves)
  BY <1>2, <1>4
<1>6. TypeOK'
  <2>1. threw' \in BOOLEAN /\ ready' \subseteq States
    BY <1>1, Zenon
  <2>2. /\ pc' = "entry" /\ call' = "start" /\ at' = 0
        /\ UNCHANGED <<hist, status, busy, posted, temp, target, move, saved>>
    BY <1>1
  <2> QED BY <2>1, <2>2, <1>4, <1>5 DEF ConfigInv, TypeOK
<1>7. WholeList(active') /\ Live' \subseteq Range(trail')
  BY <1>2, <1>4 DEF WholeList, Live, LiveOf
<1> QED BY <1>1, <1>6, <1>7 DEF ConfigInv, HistOK, Resting, Leaving, Entering

(* What fireMessage has left of its copy, and whom it sends to.             *)
LEMMA ReceiverOf ==
    ASSUME ConfigInv, NEW i \in DOMAIN temp, Receives(i)
    PROVE  /\ call # "none" /\ pc = "fire" /\ Settled
           /\ temp[i] \in Leaves /\ temp[i] \in Range(active) /\ active # <<>>
           /\ RestOf(i) \in Seq(Leaves)
           /\ Whole(LiveOf(Range(active))) /\ IsInjective(active)
           /\ LiveOf(Range(active)) \subseteq ready
           /\ trail = <<>> /\ move = NoMove
<1>1. /\ call # "none" /\ pc = "fire" /\ temp[i] \in Range(active) /\ Settled
  BY DEF Receives, Hears, Settled
<1>2. temp \in Seq(Leaves) /\ active \in Seq(Leaves)
  BY DEF ConfigInv, TypeOK
<1>3. RestOf(i) \in Seq(Leaves)
  <2>1. i \in 1 .. Len(temp)
    BY <1>2
  <2> QED BY <1>2, <2>1 DEF RestOf
<1>4. active # <<>>
  BY <1>1, <1>2, EmptyRange
<1>5. temp[i] \in Leaves
  BY <1>2
<1> QED BY <1>1, <1>3, <1>4, <1>5, LiveIs DEF ConfigInv, Resting, WholeList

(* Each action of the engine keeps it.                                       *)
LEMMA OnMessageStep ==
    ASSUME ConfigInv, OnMessage
    PROVE  ConfigInv'
<1>1. PICK i \in DOMAIN temp :
        /\ Receives(i) /\ temp' = RestOf(i) /\ Posts
        /\ UNCHANGED <<machine, status, busy, call, pc, target, trail, move, threw, saved>>
  BY DEF OnMessage
<1>2. RestOf(i) \in Seq(Leaves) /\ pc = "fire" /\ trail = <<>> /\ move = NoMove
  BY <1>1, ReceiverOf
<1>3. posted' \in Seq(Targets \cup {"*"}) /\ at' \in 0 .. Len(posted')
  BY <1>1, PostsType DEF ConfigInv
<1>4. TypeOK'
  BY <1>1, <1>2, <1>3 DEF ConfigInv, TypeOK, machine
<1>5. (Settled' => Settled) /\ WholeList(saved') /\ UNCHANGED machine
  BY <1>1 DEF Settled, ConfigInv
<1> QED BY <1>1, <1>2, <1>4, <1>5, QuietStep

LEMMA UnwindType ==
    ASSUME TypeOK, Unwind, UNCHANGED machine, busy' \in BOOLEAN
    PROVE  TypeOK'
BY DEF TypeOK, Unwind, machine, NoMove

LEMMA OnMessageThrowsStep ==
    ASSUME ConfigInv, OnMessageThrows
    PROVE  ConfigInv'
<1>1. pc = "fire" /\ Unwind /\ UNCHANGED <<machine, busy>> /\ Settled
  BY ReceiverOf DEF OnMessageThrows
<1>2. TypeOK'
  BY <1>1, UnwindType DEF ConfigInv, TypeOK
<1>3. pc' = "fire" /\ trail' = <<>> /\ move' = NoMove /\ WholeList(saved')
  BY <1>1 DEF Unwind, ConfigInv
<1> QED BY <1>1, <1>2, <1>3, QuietStep

LEMMA UndeliverableStep ==
    ASSUME ConfigInv, Undeliverable
    PROVE  ConfigInv'
<1>1. pc = "fire" /\ Unwind /\ UNCHANGED machine /\ busy' = FALSE /\ Settled
  BY DEF Undeliverable, Fired, Settled
<1>2. TypeOK'
  BY <1>1, UnwindType DEF ConfigInv
<1>3. pc' = "fire" /\ trail' = <<>> /\ move' = NoMove /\ WholeList(saved')
  BY <1>1 DEF Unwind, ConfigInv
<1> QED BY <1>1, <1>2, <1>3, QuietStep

LEMMA CallbackThrowsStep ==
    ASSUME ConfigInv, BusyInCall, CallbackThrows
    PROVE  ConfigInv'
<1>1. (busy \/ ~status) /\ Unwind /\ UNCHANGED <<machine, busy>>
  BY DEF CallbackThrows, BusyInCall
<1>2. TypeOK'
  BY <1>1, UnwindType DEF ConfigInv, TypeOK
<1>3. pc' = "fire" /\ trail' = <<>> /\ move' = NoMove /\ saved' = saved /\ ~Settled'
  BY <1>1 DEF Unwind, Settled
<1>4. Resting'
  BY <1>3 DEF Resting
<1>5. HistOK'
  BY <1>1 DEF ConfigInv, HistOK, machine
<1> QED BY <1>2, <1>3, <1>4, <1>5 DEF ConfigInv, Leaving, Entering

LEMMA SendPostedStep ==
    ASSUME ConfigInv, SendPosted
    PROVE  ConfigInv'
<1>1. /\ pc = "fire" /\ at # Len(posted) /\ at' = at + 1 /\ target' = posted[at + 1]
      /\ temp' = active
      /\ UNCHANGED <<machine, status, busy, posted, call, pc, trail, move, threw, saved>>
  BY DEF SendPosted, Fired, AllSent
<1>2. at' \in 0 .. Len(posted) /\ posted[at + 1] \in Targets \cup {"*"}
  BY <1>1 DEF ConfigInv, TypeOK
<1>3. TypeOK'
  BY <1>1, <1>2 DEF ConfigInv, TypeOK, machine
<1>4. (Settled' => Settled) /\ WholeList(saved') /\ UNCHANGED machine
      /\ trail' = <<>> /\ move' = NoMove /\ pc' = "fire"
  BY <1>1 DEF Settled, ConfigInv, Resting
<1> QED BY <1>1, <1>3, <1>4, QuietStep

LEMMA ReturnStep ==
    ASSUME ConfigInv, Return
    PROVE  ConfigInv'
<1>1. /\ pc = "fire" /\ call # "none" /\ call' = "none" /\ threw' \in BOOLEAN
      /\ temp' = <<>> /\ target' = "*" /\ status' \in BOOLEAN /\ busy' \in BOOLEAN
      /\ UNCHANGED <<machine, posted, at, pc, trail, move, saved>>
  BY DEF Return, Fired, ConfigInv, TypeOK
<1>2. TypeOK'
  BY <1>1 DEF ConfigInv, TypeOK, machine
<1>3. Settled /\ WholeList(saved') /\ UNCHANGED machine
      /\ trail' = <<>> /\ move' = NoMove /\ pc' = "fire"
  BY <1>1 DEF Settled, ConfigInv, Resting
<1> QED BY <1>1, <1>2, <1>3, QuietStep

(* A legal transition of the leaf l.                                        *)
LEMMA LegalMove ==
    ASSUME NEW m \in Legal
    PROVE  LET l == m[1]  from == m[2]  next == m[3]  root == getRoot(from, next)
           IN  /\ l \in Leaves /\ from \in Upward[l] /\ next \in States
               /\ root \in Upward[from] /\ root \in Upward[next] /\ root \in States
               /\ root = from => from = l
               /\ root # l => Type[root] = "eSuper"
               /\ \A x \in Above[next] \ Upward[root] : Type[x] = "eSuper"
<1> DEFINE from == m[2]  next == m[3]
<1>1. /\ m[1] \in Leaves /\ from \in States /\ next \in States
      /\ from \in Upward[m[1]] /\ Common(from, next) # {}
      /\ getRoot(from, next) = from => from = m[1]
      /\ getRoot(from, next) # m[1] => Type[getRoot(from, next)] = "eSuper"
      /\ \A x \in Above[next] \ Upward[getRoot(from, next)] : Type[x] = "eSuper"
  BY DEF Legal
<1> HIDE DEF from, next
<1>2. /\ getRoot(from, next) \in Upward[from] /\ getRoot(from, next) \in Upward[next]
      /\ getRoot(from, next) \in States
  BY <1>1, RootOf
<1> QED BY <1>1, <1>2 DEF from, next

(* What is remembered of a state is a substate of it.                        *)
LEMMA RememberedType ==
    ASSUME TypeOK, HistOK, NEW gone \in SUBSET Leaves
    PROVE  /\ Remembered(gone) \in [States -> Leaves \cup {NoState}]
           /\ \A s \in States : Remembered(gone)[s] # NoState =>
                 Remembered(gone)[s] \in States /\ Parent[Remembered(gone)[s]] = s
<1> SUFFICES ASSUME NEW s \in States
             PROVE  /\ Remembered(gone)[s] \in Leaves \cup {NoState}
                    /\ Remembered(gone)[s] # NoState =>
                         Remembered(gone)[s] \in States /\ Parent[Remembered(gone)[s]] = s
  BY Zenon DEF Remembered
<1>1. CASE s \in History /\ \E x \in gone : Parent[x] = s
  <2> DEFINE c == CHOOSE x \in gone : Parent[x] = s
  <2>1. c \in gone /\ Parent[c] = s
    BY <1>1
  <2>2. Remembered(gone)[s] = c
    BY <1>1 DEF Remembered
  <2> HIDE DEF c
  <2> QED BY <2>1, <2>2 DEF Leaves
<1>2. CASE ~(s \in History /\ \E x \in gone : Parent[x] = s)
  <2>1. Remembered(gone)[s] = hist[s]
    BY <1>2 DEF Remembered
  <2>2. hist[s] \in Leaves \cup {NoState}
    BY DEF TypeOK
  <2> QED BY <2>1, <2>2 DEF HistOK
<1> QED BY <1>1, <1>2

(* What executeExit does to the active states.                              *)
Exiting(l, from, next) ==
    LET root == getRoot(from, next)
        A == Range(active)
        B == Range(active')
    IN  /\ <<l, from, next>> \in Legal /\ pc = "fire" /\ pc' = "exit" /\ call # "none"
        /\ move' = [root |-> root, next |-> next]
        /\ active' \in Seq(Leaves) /\ IsInjective(active')
        /\ B = A \ Left(from, root) /\ B \subseteq A /\ A \in SUBSET Leaves
        /\ root \in States /\ root \in Upward[next] /\ root \in Upward[from]
        /\ \A x \in Left(from, root) : root \in Upward[x]
        /\ LiveOf(B) \cup Upward[root] \subseteq LiveOf(A)
        /\ WholeBut(LiveOf(B) \cup Upward[root], root) /\ root \notin B
        /\ \A x \in LiveOf(B) \cup Upward[root] : x \notin Upward[from] \ Upward[root]
        /\ hist' = Remembered(Left(from, root) \ {from})
        /\ trail' = Reverse(ListOf[Upward[from] \ Upward[root]])
        /\ temp' \in Seq(Leaves) /\ LiveOf(A) \subseteq ready
        /\ UNCHANGED <<ready, status, busy, posted, at, call, target, threw, saved>>

LEMMA ExitOf ==
    ASSUME ConfigInv, ExecuteExit
    PROVE  \E l \in Range(active), from \in States, next \in States : Exiting(l, from, next)
<1>1. PICK i \in DOMAIN temp, m \in Legal :
        LET from == m[2]
            next == m[3]
            root == getRoot(from, next)
            gone == Left(from, root)
        IN  /\ Receives(i) /\ temp' = RestOf(i) /\ m[1] = temp[i]
            /\ active' = Only(active, States \ gone)
            /\ hist' = Remembered(gone \ {from})
            /\ move' = [root |-> root, next |-> next]
            /\ trail' = Reverse(ListOf[Upward[from] \ Upward[root]])
            /\ pc' = "exit"
            /\ UNCHANGED <<ready, status, busy, posted, at, call, target, threw, saved>>
  BY DEF ExecuteExit
<1> DEFINE l == m[1]
           from == m[2]
           next == m[3]
           root == getRoot(from, next)
           gone == Left(from, root)
           A == Range(active)
<1>2. /\ l \in Leaves /\ from \in Upward[l] /\ next \in States
      /\ root \in Upward[from] /\ root \in Upward[next] /\ root \in States
      /\ root = from => from = l
      /\ root # l => Type[root] = "eSuper"
      /\ m = <<l, from, next>>
  <2>1. m = <<m[1], m[2], m[3]>>
    BY DEF Legal
  <2> QED BY <2>1, LegalMove
<1>3. /\ call # "none" /\ pc = "fire" /\ l \in A /\ RestOf(i) \in Seq(Leaves)
      /\ Whole(LiveOf(A)) /\ IsInjective(active) /\ LiveOf(A) \subseteq ready
  BY <1>1, ReceiverOf
<1>4. active \in Seq(Leaves) /\ A \in SUBSET Leaves
  BY RangeType DEF ConfigInv, TypeOK
<1>5. gone = GoneOf(A, from, root)
  BY DEF Left, GoneOf
<1>6. from \in States
  BY <1>2, UpwardType DEF Leaves
<1>7. /\ active' = Only(active, States \ gone) /\ hist' = Remembered(gone \ {from})
      /\ move' = [root |-> root, next |-> next]
      /\ trail' = Reverse(ListOf[Upward[from] \ Upward[root]])
      /\ temp' = RestOf(i) /\ pc' = "exit"
      /\ UNCHANGED <<ready, status, busy, posted, at, call, target, threw, saved>>
  BY <1>1
<1> HIDE DEF l, from, next, root, gone, A
<1>8. /\ \A x \in gone : root \in Upward[x]
      /\ LiveOf(A \ gone) \cup Upward[root] \subseteq LiveOf(A)
      /\ WholeBut(LiveOf(A \ gone) \cup Upward[root], root)
      /\ root \notin A \ gone
      /\ \A x \in LiveOf(A \ gone) \cup Upward[root] : x \notin Upward[from] \ Upward[root]
  <2>1. /\ A \in SUBSET Leaves /\ Whole(LiveOf(A)) /\ l \in A
        /\ from \in Upward[l] /\ root \in Upward[from]
        /\ root = from => from = l
        /\ root # l => Type[root] = "eSuper"
    BY <1>2, <1>3, <1>4
  <2>2. LeftBehind(A, from, root, gone)
    BY <2>1, <1>5, ExitWhole, Zenon
  <2> QED BY <2>2 DEF LeftBehind
<1>9. active' \in Seq(Leaves) /\ IsInjective(active') /\ Range(active') = A \ gone
  <2>1. /\ active' \in Seq(Leaves) /\ IsInjective(active')
        /\ Range(active') = A \cap (States \ gone)
    BY <1>3, <1>4, <1>7, OnlyKeeps DEF A
  <2>2. A \cap (States \ gone) = A \ gone
    BY <1>4 DEF Leaves
  <2> QED BY <2>1, <2>2
<1>10. A \ gone \subseteq A
  OBVIOUS
<1> QED
  <2> SUFFICES
        /\ <<l, from, next>> \in Legal /\ pc = "fire" /\ pc' = "exit" /\ call # "none"
        /\ move' = [root |-> root, next |-> next]
        /\ active' \in Seq(Leaves) /\ IsInjective(active')
        /\ Range(active') = A \ gone /\ Range(active') \subseteq A /\ A \in SUBSET Leaves
        /\ root \in States /\ root \in Upward[next] /\ root \in Upward[from]
        /\ \A x \in gone : root \in Upward[x]
        /\ LiveOf(Range(active')) \cup Upward[root] \subseteq LiveOf(A)
        /\ WholeBut(LiveOf(Range(active')) \cup Upward[root], root) /\ root \notin Range(active')
        /\ \A x \in LiveOf(Range(active')) \cup Upward[root] : x \notin Upward[from] \ Upward[root]
        /\ hist' = Remembered(gone \ {from})
        /\ trail' = Reverse(ListOf[Upward[from] \ Upward[root]])
        /\ temp' \in Seq(Leaves) /\ LiveOf(A) \subseteq ready
        /\ UNCHANGED <<ready, status, busy, posted, at, call, target, threw, saved>>
    BY <1>2, <1>3, <1>6, Zenon DEF A, gone, root, Exiting
  <2>1. <<l, from, next>> \in Legal
    BY <1>2
  <2> QED BY <1>2, <1>3, <1>4, <1>7, <1>8, <1>9, <1>10, <2>1, Zenon

LEMMA ExecuteExitStep ==
    ASSUME ConfigInv, ExecuteExit
    PROVE  ConfigInv'
<1>1. PICK l \in Range(active), from \in States, next \in States : Exiting(l, from, next)
  BY ExitOf
<1> DEFINE root == getRoot(from, next)
           gone == Left(from, root)
           B == Range(active')
<1>2. /\ pc = "fire" /\ pc' = "exit" /\ call # "none"
      /\ move' = [root |-> root, next |-> next]
      /\ active' \in Seq(Leaves) /\ IsInjective(active') /\ Range(active) \in SUBSET Leaves
      /\ root \in States /\ root \in Upward[next] /\ root \in Upward[from]
      /\ LiveOf(B) \cup Upward[root] \subseteq LiveOf(Range(active))
      /\ WholeBut(LiveOf(B) \cup Upward[root], root) /\ root \notin B
      /\ \A x \in LiveOf(B) \cup Upward[root] : x \notin Upward[from] \ Upward[root]
      /\ hist' = Remembered(gone \ {from})
      /\ trail' = Reverse(ListOf[Upward[from] \ Upward[root]])
      /\ temp' \in Seq(Leaves) /\ LiveOf(Range(active)) \subseteq ready
      /\ UNCHANGED <<ready, status, busy, posted, at, call, target, threw, saved>>
  BY <1>1 DEF Exiting
<1>3. /\ Type[root] = "eSuper" \/ root \in Leaves
      /\ \A x \in Above[next] \ Upward[root] : Type[x] = "eSuper"
  <2>1. <<l, from, next>> \in Legal
    BY <1>1 DEF Exiting
  <2>2. <<l, from, next>>[1] = l /\ <<l, from, next>>[2] = from /\ <<l, from, next>>[3] = next
    OBVIOUS
  <2> QED BY <2>1, <2>2, LegalMove
<1>4. gone \in SUBSET Leaves
  BY <1>2 DEF Left
<1> HIDE DEF root, gone, B
<1>5. hist' \in [States -> Leaves \cup {NoState}] /\ HistOK'
  <2>1. gone \ {from} \in SUBSET Leaves
    BY <1>4
  <2>2. /\ Remembered(gone \ {from}) \in [States -> Leaves \cup {NoState}]
        /\ \A s \in States : Remembered(gone \ {from})[s] # NoState =>
              /\ Remembered(gone \ {from})[s] \in States
              /\ Parent[Remembered(gone \ {from})[s]] = s
    BY <2>1, RememberedType DEF ConfigInv
  <2> QED BY <2>2, <1>2, Zenon DEF HistOK
<1>6. /\ trail' \in Seq(States) /\ Range(trail') = Upward[from] \ Upward[root]
      /\ IsInjective(trail')
  <2> DEFINE D == Upward[from] \ Upward[root]
  <2>1. D \in SUBSET States
    BY UpwardType
  <2>2. ListOf[D] \in Seq(States) /\ Range(ListOf[D]) = D /\ IsInjective(ListOf[D])
    BY <2>1, ListOfSet
  <2>3. trail' = Reverse(ListOf[D])
    BY <1>2
  <2> HIDE DEF D
  <2>4. trail' \in Seq(States) /\ Range(trail') = D /\ IsInjective(trail')
    BY <2>2, <2>3, ReverseKeeps
  <2> QED BY <2>4 DEF D
<1>7. move'.root = root /\ move'.next = next
  BY <1>2
<1>8. TypeOK'
  BY <1>2, <1>5, <1>6, <1>7 DEF ConfigInv, TypeOK
<1>9. Live' = LiveOf(B)
  BY DEF Live, LiveOf, B
<1>10. Moving'
  <2>1. LiveOf(B) \cup Upward[root] \subseteq ready'
    BY <1>2
  <2>2. \A x \in LiveOf(B) \cup Upward[root] : x \notin Range(trail')
    BY <1>2, <1>6
  <2> QED BY <1>2, <1>3, <1>7, <1>9, <2>1, <2>2, Zenon DEF Moving, B
<1>11. Exits'
  <2>1. <<l, from, next>> \in Legal /\ l \in Range(active)
    BY <1>1 DEF Exiting
  <2>2. from \in Upward[l]
    <3>1. <<l, from, next>>[1] = l /\ <<l, from, next>>[2] = from
      OBVIOUS
    <3> QED BY <2>1, <3>1, LegalMove
  <2>3. Upward[from] \subseteq LiveOf(Range(active))
    BY <2>1, <2>2, <1>2, LiveOfClosed DEF LiveOf
  <2> QED BY <2>3, <1>2, <1>6 DEF Exits
<1>12. Resting' /\ Leaving' /\ Entering'
  BY <1>2, <1>10, <1>11 DEF Resting, Leaving, Entering
<1>13. WholeList(saved') /\ call' # "none"
  BY <1>2 DEF ConfigInv
<1> QED BY <1>5, <1>8, <1>12, <1>13 DEF ConfigInv

LEMMA ExecuteExitFinalStep ==
    ASSUME ConfigInv, ExecuteExitFinal
    PROVE  ConfigInv'
<1>0. PICK i \in DOMAIN temp : \E from \in Upward[temp[i]] :
        /\ Receives(i) /\ temp' = RestOf(i) /\ active' = <<>>
        /\ move' = [root |-> NoState, next |-> "FinalState"]
        /\ trail' = <<from>> /\ pc' = "exit"
        /\ UNCHANGED <<hist, ready, status, busy, posted, at, call, target, threw, saved>>
  BY DEF ExecuteExitFinal
<1>1. PICK from \in Upward[temp[i]] :
        /\ Receives(i) /\ temp' = RestOf(i) /\ active' = <<>>
        /\ move' = [root |-> NoState, next |-> "FinalState"]
        /\ trail' = <<from>> /\ pc' = "exit"
        /\ UNCHANGED <<hist, ready, status, busy, posted, at, call, target, threw, saved>>
  BY <1>0
<1>2. RestOf(i) \in Seq(Leaves) /\ call # "none" /\ temp[i] \in Leaves
  BY <1>1, ReceiverOf
<1>3. from \in States
  BY <1>2, UpwardType DEF Leaves
<1>4. trail' \in Seq(States) /\ move'.root = NoState /\ move'.next = "FinalState"
  BY <1>1, <1>3
<1>5. TypeOK'
  BY <1>1, <1>2, <1>4 DEF ConfigInv, TypeOK
<1>6. Exits'
  <2>1. temp[i] \in Range(active) /\ LiveOf(Range(active)) \subseteq ready
    BY <1>1, ReceiverOf
  <2>2. from \in ready'
    BY <1>1, <2>1 DEF LiveOf
  <2>3. Range(trail') = {from} /\ IsInjective(trail')
    BY <1>1 DEF Range, IsInjective
  <2> QED BY <2>2, <2>3 DEF Exits
<1>7. Leaving'
  BY <1>1, <1>4, <1>6 DEF Leaving, Ending
<1> QED BY <1>1, <1>2, <1>5, <1>7 DEF ConfigInv, HistOK, Resting, Entering

LEMMA OnExitStep ==
    ASSUME ConfigInv, OnExit
    PROVE  ConfigInv'
<1>1. /\ pc = "exit" /\ trail # <<>> /\ trail' = Tail(trail)
      /\ ready' = ready \ {Head(trail)} /\ Posts
      /\ UNCHANGED <<active, hist, status, busy, call, pc, temp, target, move, threw, saved>>
  BY DEF OnExit
<1>2. posted' \in Seq(Targets \cup {"*"}) /\ at' \in 0 .. Len(posted')
  BY <1>1, PostsType DEF ConfigInv
<1>3. /\ Tail(trail) \in Seq(States) /\ Head(trail) \in Range(trail)
      /\ Range(trail) = {Head(trail)} \cup Range(Tail(trail))
      /\ IsInjective(trail) => Head(trail) \notin Range(Tail(trail)) /\ IsInjective(Tail(trail))
  BY <1>1, TailKeeps DEF ConfigInv, TypeOK
<1>4. TypeOK'
  BY <1>1, <1>2, <1>3 DEF ConfigInv, TypeOK
<1>5. Exits'
  BY <1>1, <1>3 DEF ConfigInv, Leaving, Exits
<1>6. CASE Ending
  <2>1. Leaving'
    BY <1>1, <1>6, <1>5 DEF Leaving, Ending
  <2> QED BY <1>1, <1>4, <2>1 DEF ConfigInv, HistOK, Resting, Entering
<1>7. CASE Moving
  <2>1. Live' = Live
    BY <1>1 DEF Live
  <2>2. /\ Live \cup Upward[move.root] \subseteq ready'
        /\ \A x \in Live \cup Upward[move.root] : x \notin Range(trail')
    BY <1>1, <1>3, <1>7 DEF Moving
  <2>3. Moving'
    BY <1>1, <1>7, <2>1, <2>2 DEF Moving
  <2>4. Leaving'
    BY <2>3, <1>5 DEF Leaving
  <2> QED BY <1>1, <1>4, <2>4 DEF ConfigInv, HistOK, Resting, Entering
<1> QED BY <1>1, <1>6, <1>7 DEF ConfigInv, Leaving

(* What executeEntry enters.                                                *)
LEMMA EntryOf ==
    ASSUME ConfigInv, ExecuteEntry, move.next # "FinalState"
    PROVE  LET A == Range(active)
               I == InitialOf(move.next)
           IN  /\ Moving
               /\ active' \in Seq(Leaves) /\ Range(active') = A \cup I /\ IsInjective(active')
               /\ Whole(LiveOf(A \cup I))
               /\ I \in SUBSET Leaves /\ \A l \in I : move.root \in Upward[l]
               /\ trail' \in Seq(States)
               /\ LiveOf(A \cup I) \subseteq ready \cup Range(trail')
<1> DEFINE A == Range(active)
           next == move.next
           root == move.root
           I == InitialOf(next)
           D == (Upward[next] \ Upward[root]) \cup UNION {Upward[l] \ Upward[next] : l \in I}
<1>1. Moving /\ active' = active \o ListOf[I] /\ trail' = ListOf[D]
  BY DEF ExecuteEntry, ConfigInv, Leaving, Ending, getInitialStates, constructTree
<1>2. /\ next \in States /\ root \in Upward[next] /\ root \in States
      /\ Type[root] = "eSuper" \/ root \in Leaves
      /\ \A x \in Above[next] \ Upward[root] : Type[x] = "eSuper"
      /\ WholeBut(LiveOf(A) \cup Upward[root], root) /\ root \notin A
      /\ IsInjective(active) /\ LiveOf(A) \cup Upward[root] \subseteq ready
  BY <1>1, LiveIs, UpwardType DEF Moving
<1>3. active \in Seq(Leaves) /\ A \in SUBSET Leaves /\ HistOK
  BY RangeType DEF ConfigInv, TypeOK
<1>4. I \in SUBSET Leaves /\ I \in SUBSET States /\ \A l \in I : next \in Upward[l]
  BY DEF InitialOf, Leaves
<1>5. D \in SUBSET States
  BY <1>2, <1>4, UpwardType
<1> HIDE DEF A, next, root, I
<1>6. Whole(LiveOf(A \cup I)) /\ A \cap I = {} /\ \A l \in I : root \in Upward[l]
  BY <1>2, <1>3, EntryWhole DEF I
<1>7. LiveOf(A \cup I) \subseteq ready \cup D
  <2> SUFFICES ASSUME NEW x \in LiveOf(A \cup I), x \notin ready
               PROVE  x \in D
    OBVIOUS
  <2>1. PICK l \in A \cup I : x \in Upward[l]
    BY DEF LiveOf
  <2>2. l \in I
    BY <2>1, <1>2 DEF LiveOf
  <2>3. x \notin Upward[root]
    BY <1>2
  <2> QED BY <2>1, <2>2, <2>3
<1> HIDE DEF D
<1>8. /\ ListOf[I] \in Seq(I) /\ Range(ListOf[I]) = I /\ IsInjective(ListOf[I])
      /\ trail' \in Seq(States) /\ Range(trail') = D
  BY <1>1, <1>4, <1>5, ListOfSet
<1>9. ListOf[I] \in Seq(Leaves)
  BY <1>4, <1>8
<1>10. active' \in Seq(Leaves) /\ Range(active') = A \cup I /\ IsInjective(active')
  <2> DEFINE q == ListOf[I]
  <2> HIDE DEF q
  <2>1. /\ active \o q \in Seq(Leaves) /\ Range(active \o q) = A \cup Range(q)
        /\ IsInjective(active) /\ IsInjective(q) /\ A \cap Range(q) = {} => IsInjective(active \o q)
    BY <1>3, <1>9, ConcatKeeps DEF A, q
  <2> QED BY <2>1, <1>1, <1>2, <1>6, <1>8 DEF q
<1> QED BY <1>1, <1>4, <1>6, <1>7, <1>8, <1>10 DEF A, I, next, root

LEMMA ExecuteEntryStep ==
    ASSUME ConfigInv, ExecuteEntry
    PROVE  ConfigInv'
<1>1. /\ pc = "exit" /\ call # "none"
      /\ UNCHANGED <<hist, ready, busy, posted, at, call, temp, target, threw, saved>>
  BY DEF ExecuteEntry, ConfigInv
<1>2. CASE move.next = "FinalState"
  <2>1. /\ status' \in BOOLEAN /\ pc' = "fire" /\ move' = NoMove /\ UNCHANGED <<active, trail>>
        /\ trail = <<>>
    BY <1>2, Zenon DEF ExecuteEntry
  <2>2. active = <<>>
    BY <1>1, <1>2, TreeTypes DEF ConfigInv, Leaving, Ending, Moving
  <2>3. Live' = {} /\ WholeList(active')
    BY <2>1, <2>2, EmptyRange DEF Live, WholeList, ConfigInv, TypeOK
  <2>4. TypeOK'
    BY <1>1, <2>1 DEF ConfigInv, TypeOK, NoMove
  <2>5. Resting'
    BY <2>1, <2>3 DEF Resting
  <2> QED BY <1>1, <2>1, <2>4, <2>5 DEF ConfigInv, HistOK, Leaving, Entering
<1>3. CASE move.next # "FinalState"
  <2>1. pc' = "entry" /\ UNCHANGED <<status, move>>
    BY <1>3 DEF ExecuteEntry
  <2>2. /\ active' \in Seq(Leaves) /\ IsInjective(active') /\ Whole(LiveOf(Range(active')))
        /\ trail' \in Seq(States)
        /\ LiveOf(Range(active')) \subseteq ready \cup Range(trail')
    BY <1>3, EntryOf
  <2>3. TypeOK'
    BY <1>1, <2>1, <2>2 DEF ConfigInv, TypeOK
  <2>4. Entering'
    BY <1>1, <2>2 DEF Entering, WholeList, Live, LiveOf
  <2> QED BY <1>1, <2>1, <2>3, <2>4 DEF ConfigInv, HistOK, Leaving, Resting
<1> QED BY <1>2, <1>3

LEMMA OnEntryStep ==
    ASSUME ConfigInv, OnEntry
    PROVE  ConfigInv'
<1>1. /\ pc = "entry" /\ trail # <<>> /\ trail' = Tail(trail)
      /\ ready' = ready \cup {Head(trail)} /\ Posts
      /\ UNCHANGED <<active, hist, status, busy, call, pc, temp, target, move, threw, saved>>
  BY DEF OnEntry
<1>2. posted' \in Seq(Targets \cup {"*"}) /\ at' \in 0 .. Len(posted')
  BY <1>1, PostsType DEF ConfigInv
<1>3. /\ Tail(trail) \in Seq(States) /\ Head(trail) \in States
      /\ Range(trail) = {Head(trail)} \cup Range(Tail(trail))
  BY <1>1, TailKeeps DEF ConfigInv, TypeOK
<1>4. TypeOK'
  BY <1>1, <1>2, <1>3 DEF ConfigInv, TypeOK
<1>5. Live' = Live
  BY <1>1 DEF Live
<1>6. Entering'
  BY <1>1, <1>3, <1>5 DEF ConfigInv, Entering
<1> QED BY <1>1, <1>4, <1>6 DEF ConfigInv, HistOK, Leaving, Resting

LEMMA EnteredStep ==
    ASSUME ConfigInv, Entered
    PROVE  ConfigInv'
<1>1. /\ pc = "entry" /\ trail = <<>> /\ pc' = "fire" /\ move' = NoMove
      /\ UNCHANGED <<machine, status, busy, posted, at, call, temp, target, trail, threw, saved>>
  BY DEF Entered
<1>2. TypeOK'
  BY <1>1 DEF ConfigInv, TypeOK, NoMove, machine
<1>3. Live' = Live /\ Range(trail) = {}
  BY <1>1, EmptyRange DEF Live, machine, ConfigInv, TypeOK
<1>4. Resting'
  BY <1>1, <1>3 DEF ConfigInv, Entering, Resting, machine
<1> QED BY <1>1, <1>2, <1>4 DEF ConfigInv, HistOK, Leaving, Entering, machine

-----------------------------------------------------------------------------
LEMMA InitInv == Init => EngineInv
<1> SUFFICES ASSUME Init PROVE EngineInv
  OBVIOUS
<1>1. TypeOK
  <2>1. status \in BOOLEAN /\ busy \in BOOLEAN /\ threw \in BOOLEAN
    BY Zenon DEF Init
  <2>2. /\ active = <<>> /\ hist = [s \in States |-> NoState] /\ posted = <<>> /\ at = 0
        /\ call = "none" /\ pc = "fire" /\ temp = <<>> /\ target = "*"
        /\ trail = <<>> /\ move = NoMove /\ saved = <<>> /\ ready = {}
    BY DEF Init
  <2> QED BY <2>1, <2>2 DEF TypeOK, NoMove
<1>2. ~Settled
  BY DEF Init, Settled
<1>3. HistOK
  BY DEF Init, HistOK
<1>4. ConfigInv
  BY <1>1, <1>2, <1>3 DEF Init, ConfigInv, Resting, Leaving, Entering, WholeList
<1> QED BY <1>4 DEF Init, EngineInv, BusyInCall

(* Nothing changes, or one of the actions is taken.                          *)
LEMMA StutterStep ==
    ASSUME ConfigInv, UNCHANGED vars
    PROVE  ConfigInv'
<1>1. Live' = Live /\ Settled' = Settled
  BY DEF vars, Live, Settled
<1>2. TypeOK' /\ HistOK'
  BY DEF vars, ConfigInv, TypeOK, HistOK
<1>3. Resting' /\ Entering'
  BY <1>1 DEF vars, ConfigInv, Resting, Entering
<1>4. Leaving'
  BY <1>1 DEF vars, ConfigInv, Leaving, Exits, Ending, Moving
<1> QED BY <1>2, <1>3, <1>4 DEF vars, ConfigInv

(* myBusyStatus is set when an event begins, and put back when it ends.     *)
LEMMA BusyStep ==
    ASSUME BusyInCall, [Next]_vars
    PROVE  BusyInCall'
<1>1. CASE PostEvent
  BY <1>1 DEF PostEvent, BusyInCall
<1>2. CASE Start \/ Unwind \/ Return
  BY <1>2 DEF Start, Unwind, Return, BusyInCall
<1>3. CASE UNCHANGED <<call, busy>>
  BY <1>3 DEF BusyInCall
<1>4. CASE UNCHANGED vars
  BY <1>3, <1>4 DEF vars
<1>5. CASE ~(PostEvent \/ Start \/ Unwind \/ Return) /\ Next
  <2>1. UNCHANGED <<call, busy>>
    BY <1>5 DEF Next, Context, Engine, Save, Load, OnMessage, OnMessageThrows, CallbackThrows,
       ExecuteExit, ExecuteExitFinal, OnExit, ExecuteEntry, OnEntry, Entered, SendPosted,
       Undeliverable
  <2> QED BY <2>1, <1>3
<1> QED BY <1>1, <1>2, <1>4, <1>5

LEMMA NextInv == EngineInv /\ [Next]_vars => EngineInv'
<1> SUFFICES ASSUME ConfigInv, BusyInCall, [Next]_vars PROVE ConfigInv'
  BY BusyStep DEF EngineInv
<1>1. CASE Context
  BY <1>1, StartStep, PostEventStep, SaveStep, LoadStep DEF Context
<1>2. CASE Engine
  BY <1>2, OnMessageStep, OnMessageThrowsStep, CallbackThrowsStep, ExecuteExitStep,
     ExecuteExitFinalStep, OnExitStep, ExecuteEntryStep, OnEntryStep, EnteredStep,
     SendPostedStep, UndeliverableStep, ReturnStep DEF Engine
<1>3. CASE UNCHANGED vars
  BY <1>3, StutterStep
<1> QED BY <1>1, <1>2, <1>3 DEF Next

(* For every tree of states and everything that Context and Engine let the  *)
(* client do (any sequence of calls, transitions in Legal, any number of    *)
(* messages posted by a callback, exceptions from the callbacks): while a   *)
(* call is between callbacks, and between the calls of a machine that takes *)
(* events, the list of active states is a whole configuration or empty, and *)
(* every live state had its onEntry, or was restored, after its last        *)
(* onExit; and what onExit or onEntry is called on while the list is        *)
(* rebuilt makes it so again.                                               *)
THEOREM EngineCorrect == Spec => []EngineInv
<1> QED BY InitInv, NextInv, PTL DEF Spec

(* The engine's variables have their types in every reachable state.        *)
THEOREM EngineTypeCorrect == Spec => []TypeOK
<1>1. EngineInv => TypeOK
  BY DEF EngineInv, ConfigInv
<1> QED BY <1>1, EngineCorrect, PTL

(* A live eSuper has exactly one live substate, a live eConc all of them.   *)
THEOREM ConfigurationLegal == Spec => []LegalConfiguration
<1>1. EngineInv => LegalConfiguration
  <2> SUFFICES ASSUME EngineInv, Settled, active # <<>>
               PROVE  /\ Tops \subseteq Live
                      /\ IsInjective(active)
                      /\ \A s \in Live :
                           /\ Type[s] = "eSuper" => Cardinality(Children(s) \cap Live) = 1
                           /\ Type[s] = "eConc" => Children(s) \subseteq Live
    BY DEF LegalConfiguration
  <2>1. Whole(Live) /\ IsInjective(active)
    BY LiveIs DEF EngineInv, ConfigInv, Resting, Settled, WholeList
  <2>2. ASSUME NEW s \in Live, Type[s] = "eSuper"
        PROVE  Cardinality(Children(s) \cap Live) = 1
    <3>1. PICK x : Children(s) \cap Live = {x}
      BY <2>1, <2>2 DEF Whole, Proper
    <3> QED BY <3>1, FS_Singleton
  <2> QED BY <2>1, <2>2 DEF Whole, Proper
<1> QED BY <1>1, EngineCorrect, PTL

(* Every live state had its onEntry, or was made live by serialise, and no  *)
(* onExit since.                                                            *)
THEOREM ActiveReady == Spec => []ActiveAreReady
<1>1. EngineInv => ActiveAreReady
  BY DEF EngineInv, ConfigInv, Resting, Settled, ActiveAreReady
<1> QED BY <1>1, EngineCorrect, PTL

(* No state gets a message from the old copy of the list after its onExit   *)
(* or that of a state above it.                                             *)
THEOREM HeardReady == Spec => []HeardByReady
<1>1. EngineInv => HeardByReady
  <2> SUFFICES ASSUME EngineInv, NEW i \in DOMAIN temp, Receives(i)
               PROVE  Upward[temp[i]] \subseteq ready
    BY DEF HeardByReady
  <2>1. temp[i] \in Range(active) /\ LiveOf(Range(active)) \subseteq ready
    BY ReceiverOf DEF EngineInv
  <2> QED BY <2>1 DEF LiveOf
<1> QED BY <1>1, EngineCorrect, PTL

(* onExit is not called twice without an onEntry or a restoring between.    *)
THEOREM ExitsReady == Spec => []ExitsOnlyReady
<1>1. EngineInv => ExitsOnlyReady
  <2> SUFFICES ASSUME EngineInv, pc = "exit", trail # <<>>
               PROVE  Head(trail) \in ready
    BY DEF ExitsOnlyReady
  <2>1. trail \in Seq(States) /\ Range(trail) \subseteq ready
    BY DEF EngineInv, ConfigInv, TypeOK, Leaving, Exits
  <2> QED BY <2>1, TailKeeps
<1> QED BY <1>1, EngineCorrect, PTL

(* A transition leaves the parts of the machine outside of the common super *)
(* state alone.                                                             *)
THEOREM OthersSafe == Spec => OthersUndisturbed
<1> DEFINE m == IF move' # NoMove THEN move' ELSE move
           Alone == m.next \notin {NoState, "FinalState"} =>
                       \A l \in Leaves : m.root \notin Upward[l] =>
                           (l \in Range(active) <=> l \in Range(active'))
<1>1. ASSUME EngineInv, Next
      PROVE  Alone
  <2>1. CASE active' = active
    BY <2>1
  <2>2. CASE (Start \/ Load) /\ active' # active
    <3>1. call = "none" /\ pc = "fire" /\ move' = move /\ move = NoMove
      <4>1. call = "none" /\ move' = move
        BY <2>2 DEF Start, Load
      <4> QED BY <4>1, <1>1 DEF EngineInv, ConfigInv, Resting
    <3> QED BY <3>1 DEF NoMove
  <2>3. CASE ExecuteExit
    <3>1. PICK l \in Range(active), from \in States, next \in States : Exiting(l, from, next)
      BY <2>3, <1>1, ExitOf DEF EngineInv
    <3> DEFINE root == getRoot(from, next)
               gone == Left(from, root)
    <3>2. /\ move' = [root |-> root, next |-> next]
          /\ Range(active') = Range(active) \ gone
          /\ \A x \in gone : root \in Upward[x]
      BY <3>1 DEF Exiting
    <3> HIDE DEF root, gone
    <3>3. m.root = root
      <4>1. move'.root = root /\ move'.next = next /\ next # NoState
        BY <3>2, TreeTypes
      <4>2. move' # NoMove
        BY <4>1 DEF NoMove
      <4> QED BY <4>1, <4>2
    <3> HIDE DEF m
    <3> QED BY <3>2, <3>3
  <2>4. CASE ExecuteExitFinal
    <3>1. m.next = NoState \/ m.next = "FinalState"
      <4>1. move'.next = "FinalState" /\ move = NoMove
        BY <2>4, <1>1, ReceiverOf DEF EngineInv, ExecuteExitFinal
      <4> QED BY <4>1 DEF NoMove
    <3> HIDE DEF m
    <3> QED BY <3>1
  <2>5. CASE ExecuteEntry /\ move.next # "FinalState"
    <3>1. /\ Range(active') = Range(active) \cup InitialOf(move.next)
          /\ \A l \in InitialOf(move.next) : move.root \in Upward[l]
      BY <2>5, <1>1, EntryOf DEF EngineInv
    <3>2. m = move
      BY <2>5 DEF ExecuteEntry
    <3> HIDE DEF m
    <3> QED BY <3>1, <3>2
  <2>6. CASE ExecuteEntry /\ move.next = "FinalState"
    BY <2>6 DEF ExecuteEntry
  <2>7. ASSUME ~(ExecuteExit \/ ExecuteExitFinal \/ ExecuteEntry \/ Start \/ Load)
        PROVE  active' = active
    BY <1>1, <2>7 DEF Next, Context, Engine, PostEvent, Save, OnMessage, OnMessageThrows,
       CallbackThrows, OnExit, OnEntry, Entered, SendPosted, Undeliverable, Return, machine
  <2> QED BY <2>1, <2>2, <2>3, <2>4, <2>5, <2>6, <2>7
<1>2. EngineInv /\ [Next]_vars => [Alone]_vars
  BY <1>1
<1> QED BY <1>2, EngineCorrect, PTL DEF Spec, OthersUndisturbed

=============================================================================
