----------------------------- MODULE AnswersProofs -----------------------------
(***************************************************************************)
(* Proofs about the answers: for every window and every answer, however    *)
(* long and however written, the quote is the best the answer allows, the  *)
(* post's context shows it, and the report's rows agree with the post.     *)
(***************************************************************************)
EXTENDS Answers, SequenceTheorems, FiniteSetTheorems, TLAPS

(***************************************************************************)
(* Induction, order and selection                                          *)
(***************************************************************************)
\* Induction, for the set S of the numbers that have a property.
LEMMA Induction ==
  ASSUME NEW S, 0 \in S, \A n \in Nat : n \in S => n + 1 \in S
  PROVE  Nat \subseteq S
<1> SUFFICES ASSUME NEW m \in Nat, m \notin S PROVE FALSE
  OBVIOUS
<1> DEFINE T == {n \in 0..m : n \notin S}
           f == [n \in T |-> n - 1]
<1>1. m \in T /\ T \in SUBSET (0..m)
  OBVIOUS
<1>2. IsFiniteSet(T) /\ Cardinality(T) \in Nat
  <2> HIDE DEF T
  <2>1. IsFiniteSet(0..m)
    BY FS_Interval
  <2> QED BY <1>1, <2>1, FS_Subset, FS_CardinalityType
<1>3. IsFiniteSet(T \ {m}) /\ Cardinality(T \ {m}) = Cardinality(T) - 1
  BY <1>1, <1>2, FS_RemoveElement
<1>4. \A n \in T : n - 1 \in T \ {m}
  <2> SUFFICES ASSUME NEW n \in T PROVE n - 1 \in T \ {m}
    OBVIOUS
  <2>1. n \in 0..m /\ n \notin S /\ n # 0
    OBVIOUS
  <2>2. n - 1 \in Nat /\ n - 1 < m /\ (n - 1) + 1 = n
    BY <2>1
  <2> QED BY <2>1, <2>2
<1>5. f \in [T -> T \ {m}]
  BY <1>4
<1>6. \A a, b \in T : f[a] = f[b] => a = b
  OBVIOUS
<1> HIDE DEF T, f
<1>7. \E a, b \in T : a # b /\ f[a] = f[b]
  <2>1. Cardinality(T \ {m}) < Cardinality(T)
    BY <1>2, <1>3
  <2> QED BY <1>2, <1>3, <1>5, <2>1, FS_PigeonHole
<1> QED BY <1>6, <1>7

\* The place of an element in a finite total order, where before[i] are the elements that
\* come before i: the places count from 1 and no two elements share one.
LEMMA Places ==
  ASSUME NEW K, IsFiniteSet(K), NEW before \in [K -> SUBSET K],
         \A i \in K : i \notin before[i],
         \A i, j \in K : i \in before[j] => before[i] \subseteq before[j],
         \A i, j \in K : i # j => i \in before[j] \/ j \in before[i]
  PROVE  /\ Cardinality(K) \in Nat
         /\ \A i \in K : Cardinality(before[i]) \in Nat /\ Cardinality(before[i]) < Cardinality(K)
         /\ \A i, j \in K : i \in before[j] <=> Cardinality(before[i]) < Cardinality(before[j])
         /\ \A n \in 1..Cardinality(K) : \E i \in K : Cardinality(before[i]) = n - 1
<1> DEFINE place == [i \in K |-> Cardinality(before[i]) + 1]
<1>1. Cardinality(K) \in Nat
  BY FS_CardinalityType
<1>2. ASSUME NEW i \in K
      PROVE  /\ IsFiniteSet(before[i]) /\ Cardinality(before[i]) \in Nat
             /\ Cardinality(before[i]) < Cardinality(K)
  <2>1. before[i] \in SUBSET K /\ before[i] # K
    OBVIOUS
  <2>2. IsFiniteSet(before[i]) /\ Cardinality(before[i]) <= Cardinality(K)
        /\ (Cardinality(K) = Cardinality(before[i]) => K = before[i])
    BY <2>1, FS_Subset
  <2>3. Cardinality(before[i]) \in Nat
    BY <2>2, FS_CardinalityType
  <2> QED BY <1>1, <2>1, <2>2, <2>3
<1>3. ASSUME NEW i \in K, NEW j \in K, i \in before[j]
      PROVE  Cardinality(before[i]) < Cardinality(before[j])
  <2>1. before[i] \in SUBSET before[j] /\ before[i] # before[j]
    BY <1>3
  <2>2. IsFiniteSet(before[j])
    BY <1>2
  <2>3. Cardinality(before[i]) <= Cardinality(before[j])
        /\ (Cardinality(before[j]) = Cardinality(before[i]) => before[j] = before[i])
    BY <2>1, <2>2, FS_Subset
  <2> QED BY <1>2, <2>1, <2>3
<1>4. ASSUME NEW i \in K, NEW j \in K, Cardinality(before[i]) < Cardinality(before[j])
      PROVE  i \in before[j]
  <2>1. i # j
    BY <1>2, <1>4
  <2>2. CASE j \in before[i]
    BY <1>2, <1>3, <1>4, <2>2
  <2> QED BY <2>1, <2>2
<1>5. place \in Injection(K, 1..Cardinality(K))
  <2>1. \A i \in K : Cardinality(before[i]) + 1 \in 1..Cardinality(K)
    BY <1>1, <1>2
  <2>2. ASSUME NEW i \in K, NEW j \in K, place[i] = place[j]
        PROVE  i = j
    <3>1. Cardinality(before[i]) = Cardinality(before[j])
      BY <1>2, <2>2
    <3> QED BY <1>2, <1>3, <3>1
  <2> QED BY <2>1, <2>2 DEF Injection, IsInjective
<1>6. place \in Surjection(K, 1..Cardinality(K))
  <2>1. IsFiniteSet(1..Cardinality(K)) /\ Cardinality(1..Cardinality(K)) = Cardinality(K)
    <3> DEFINE k == Cardinality(K)
    <3>1. k \in Nat
      BY <1>1
    <3> HIDE DEF k
    <3>2. IsFiniteSet(1..k) /\ Cardinality(1..k) = IF 1 > k THEN 0 ELSE k - 1 + 1
      BY <3>1, FS_Interval
    <3>3. Cardinality(1..k) = k
      BY <3>1, <3>2
    <3> QED BY <3>2, <3>3 DEF k
  <2> HIDE DEF place
  <2> QED BY <1>5, <2>1, FS_Injection
<1>7. ASSUME NEW n \in 1..Cardinality(K)
      PROVE  \E i \in K : Cardinality(before[i]) = n - 1
  <2>1. PICK i \in K : place[i] = n
    BY <1>6 DEF Surjection
  <2> QED BY <1>2, <2>1
<1> QED BY <1>1, <1>2, <1>3, <1>4, <1>7

\* pos[n] is the place in s of what SelectAt(s, K) has at place n.
Keeps(s, K, pos) ==
  /\ pos \in [1..Cardinality(K) -> K]
  /\ \A m, n \in 1..Cardinality(K) : m < n => pos[m] < pos[n]
  /\ \A k \in K : \E n \in 1..Cardinality(K) : pos[n] = k
  /\ \A n \in 1..Cardinality(K) : SelectAt(s, K)[n] = s[pos[n]]

\* SelectAt keeps exactly the places of K, in their order.
LEMMA Selects ==
  ASSUME NEW X, NEW s \in Seq(X), NEW K, K \subseteq DOMAIN s
  PROVE  /\ SelectAt(s, K) \in Seq(X) /\ Len(SelectAt(s, K)) = Cardinality(K)
         /\ DOMAIN SelectAt(s, K) = 1..Cardinality(K) /\ Cardinality(K) \in Nat
         /\ \E pos : Keeps(s, K, pos)
<1> DEFINE before == [k \in K |-> {j \in K : j < k}]
<1>1. IsFiniteSet(K) /\ K \subseteq Int
  <2>1. K \in SUBSET (1..Len(s)) /\ Len(s) \in Nat
    OBVIOUS
  <2>2. IsFiniteSet(1..Len(s))
    BY <2>1, FS_Interval
  <2> QED BY <2>1, <2>2, FS_Subset
<1>2. before \in [K -> SUBSET K]
  OBVIOUS
<1>3. /\ \A i \in K : i \notin before[i]
      /\ \A i, j \in K : i \in before[j] => before[i] \subseteq before[j]
      /\ \A i, j \in K : i # j => i \in before[j] \/ j \in before[i]
      /\ \A i, j \in K : i \in before[j] <=> i < j
  BY <1>1
<1>4. \A k \in K : before[k] = {j \in K : j < k}
  OBVIOUS
<1> HIDE DEF before
<1>5. /\ Cardinality(K) \in Nat
      /\ \A i \in K : Cardinality(before[i]) \in Nat /\ Cardinality(before[i]) < Cardinality(K)
      /\ \A i, j \in K : i \in before[j] <=> Cardinality(before[i]) < Cardinality(before[j])
      /\ \A n \in 1..Cardinality(K) : \E i \in K : Cardinality(before[i]) = n - 1
  BY <1>1, <1>2, <1>3, Places
<1> DEFINE c == Cardinality(K)
           at(n) == CHOOSE k \in K : Cardinality({j \in K : j < k}) = n - 1
           pos == [n \in 1..c |-> at(n)]
<1>6. \A n \in 1..c : pos[n] \in K /\ Cardinality(before[pos[n]]) = n - 1
  <2> SUFFICES ASSUME NEW n \in 1..c
               PROVE  pos[n] \in K /\ Cardinality(before[pos[n]]) = n - 1
    OBVIOUS
  <2>1. PICK k \in K : Cardinality({j \in K : j < k}) = n - 1
    BY <1>4, <1>5
  <2>2. pos[n] \in K /\ Cardinality({j \in K : j < pos[n]}) = n - 1
    BY <2>1
  <2> QED BY <1>4, <2>2
<1>7. SelectAt(s, K) = [n \in 1..c |-> s[pos[n]]] /\ pos = [n \in 1..c |-> pos[n]]
  <2>1. SelectAt(s, K) = [n \in 1..c |-> s[pos[n]]]
    BY DEF SelectAt
  <2> HIDE DEF at
  <2>2. pos = [n \in 1..c |-> pos[n]]
    OBVIOUS
  <2> QED BY <2>1, <2>2
<1> HIDE DEF pos, c
<1>8. c = Cardinality(K) /\ c \in Nat
  BY <1>5 DEF c
<1>9. pos \in [1..c -> K]
  BY <1>6, <1>7
<1>10. \A m, n \in 1..c : m < n => pos[m] < pos[n]
  <2> SUFFICES ASSUME NEW m \in 1..c, NEW n \in 1..c, m < n PROVE pos[m] < pos[n]
    OBVIOUS
  <2>1. Cardinality(before[pos[m]]) < Cardinality(before[pos[n]])
    BY <1>6, <1>8
  <2> QED BY <1>3, <1>5, <1>6, <2>1
<1>11. \A k \in K : \E n \in 1..c : pos[n] = k
  <2> SUFFICES ASSUME NEW k \in K PROVE \E n \in 1..c : pos[n] = k
    OBVIOUS
  <2> DEFINE n == Cardinality(before[k]) + 1
  <2>1. n \in 1..c /\ n - 1 = Cardinality(before[k])
    BY <1>5, <1>8
  <2>2. pos[n] \in K /\ Cardinality(before[pos[n]]) = Cardinality(before[k])
    BY <1>6, <2>1
  <2>3. ~(pos[n] \in before[k]) /\ ~(k \in before[pos[n]])
    BY <1>5, <2>2
  <2>4. pos[n] = k
    BY <1>3, <2>2, <2>3
  <2> QED BY <2>1, <2>4
<1>12. \A n \in 1..c : s[pos[n]] \in X
  <2>1. \A n \in 1..c : pos[n] \in DOMAIN s
    BY <1>6
  <2> QED BY <2>1
<1>13. SelectAt(s, K) \in Seq(X) /\ Len(SelectAt(s, K)) = c /\ DOMAIN SelectAt(s, K) = 1..c
  <2> DEFINE r == [n \in 1..c |-> s[pos[n]]]
  <2>1. r \in [1..c -> X]
    BY <1>12
  <2>2. r \in Seq(X) /\ Len(r) = c /\ DOMAIN r = 1..c
    BY <1>8, <2>1
  <2> QED BY <1>7, <2>2
<1>14. \A n \in 1..c : SelectAt(s, K)[n] = s[pos[n]]
  BY <1>7
<1>15. Keeps(s, K, pos)
  BY <1>8, <1>9, <1>10, <1>11, <1>14 DEF Keeps
<1> QED BY <1>8, <1>13, <1>15

\* What the selection holds, without its order.
LEMMA SelectsRange ==
  ASSUME NEW X, NEW s \in Seq(X), NEW K, K \subseteq DOMAIN s
  PROVE  Range(SelectAt(s, K)) = {s[k] : k \in K}
<1>1. PICK pos : Keeps(s, K, pos)
  BY Selects
<1>2. DOMAIN SelectAt(s, K) = 1..Cardinality(K)
  BY Selects
<1> QED BY <1>1, <1>2 DEF Range, Keeps
(***************************************************************************)
(* What the parser makes of the entries                                    *)
(***************************************************************************)
Score == [id : Int, value : 0..20]
Table == [ok : BOOLEAN, scores : Seq(Score)]

\* Entry f is the first, entry l the last of the first n that names id.
Names(entries, i, id) == IntLike(entries[i].id) = {id}
IsFirst(entries, n, id, f) ==
  f \in 1..n /\ Names(entries, f, id) /\ \A j \in 1..n : Names(entries, j, id) => f <= j
IsLast(entries, n, id, l) ==
  l \in 1..n /\ Names(entries, l, id) /\ \A j \in 1..n : Names(entries, j, id) => j <= l

\* The table of the first n entries: the ids of the day they name, each once, in the order
\* of their first entries, with the scores of their last ones.
TableOf(msgs, entries, n, scores) ==
  /\ \A k \in DOMAIN scores :
       /\ scores[k].id \in Ids(msgs)
       /\ \E f \in 1..n : IsFirst(entries, n, scores[k].id, f)
       /\ \E l \in 1..n : /\ IsLast(entries, n, scores[k].id, l)
                          /\ ScoreLike(entries[l].score) = {scores[k].value}
  /\ \A k1, k2 \in DOMAIN scores : k1 < k2 =>
       \A f1, f2 \in 1..n :
         IsFirst(entries, n, scores[k1].id, f1) /\ IsFirst(entries, n, scores[k2].id, f2) => f1 < f2
  /\ \A i \in 1..n : \A id \in Ids(msgs) :
       Names(entries, i, id) => \E k \in DOMAIN scores : scores[k].id = id

\* A token is at most one number, and a score is one of 0..20.
LEMMA TokenFacts ==
  ASSUME NEW t \in Tokens
  PROVE  /\ Half(t.half) \in Int
         /\ IntLike(t) = {} \/ IntLike(t) = {Half(t.half)}
         /\ ScoreLike(t) = {} \/ \E v \in 0..20 : ScoreLike(t) = {v}
<1>1. t.half \in Int
  BY DEF Tokens
<1>2. Half(t.half) \in Int
  BY <1>1 DEF Half
<1>3. IntLike(t) = {} \/ IntLike(t) = {Half(t.half)}
  BY DEF IntLike
<1>4. ScoreLike(t) = {} \/ \E v \in 0..20 : ScoreLike(t) = {v}
  <2> DEFINE v == CASE t.half < 0 -> 0 [] t.half > 20 -> 20 [] OTHER -> t.half
  <2>1. v \in 0..20
    BY <1>1
  <2>2. CASE t.type \in {"number", "text"}
    <3>1. ScoreLike(t) = {v}
      BY <2>2 DEF ScoreLike
    <3> QED BY <2>1, <3>1
  <2>3. CASE t.type = "huge"
    <3>1. ScoreLike(t) = {20}
      BY <2>3 DEF ScoreLike
    <3> QED BY <3>1
  <2>4. CASE t.type = "none"
    <3>1. ScoreLike(t) = {}
      BY <2>4 DEF ScoreLike
    <3> QED BY <3>1
  <2> QED BY <2>2, <2>3, <2>4 DEF Tokens
<1> QED BY <1>2, <1>3, <1>4

\* An entry whose id is not of the day leaves the table as it is.
LEMMA PassedEntry ==
  ASSUME NEW msgs, NEW entries, NEW n \in Nat, NEW scores \in Seq(Score),
         TableOf(msgs, entries, n, scores),
         \A id \in Ids(msgs) : ~Names(entries, n + 1, id)
  PROVE  TableOf(msgs, entries, n + 1, scores)
<1>1. \A id \in Ids(msgs) : \A i \in 1..n + 1 :
        /\ IsFirst(entries, n + 1, id, i) <=> i \in 1..n /\ IsFirst(entries, n, id, i)
        /\ IsLast(entries, n + 1, id, i) <=> i \in 1..n /\ IsLast(entries, n, id, i)
        /\ Names(entries, i, id) => i \in 1..n
  BY DEF IsFirst, IsLast
<1>2. 1..n \subseteq 1..n + 1
  OBVIOUS
<1>3. \A k \in DOMAIN scores : scores[k].id \in Ids(msgs)
  BY DEF TableOf
<1> QED BY <1>1, <1>2, <1>3 DEF TableOf
\* An entry that names an id of the day for the first time adds a row at the end.
LEMMA NewEntry ==
  ASSUME NEW msgs, NEW entries, NEW n \in Nat, NEW scores \in Seq(Score),
         TableOf(msgs, entries, n, scores),
         NEW id \in Ids(msgs), id \in Int, NEW v \in 0..20, Names(entries, n + 1, id),
         ScoreLike(entries[n + 1].score) = {v}, Position(scores, id) = {}
  PROVE  TableOf(msgs, entries, n + 1, Append(scores, [id |-> id, value |-> v]))
<1> DEFINE row == [id |-> id, value |-> v]
           t == Append(scores, row)
           m == Len(scores)
<1>1. row \in Score /\ row.id = id /\ row.value = v
  BY DEF Score
<1> HIDE DEF row
<1>2. /\ t \in Seq(Score) /\ DOMAIN t = 1..m + 1 /\ m \in Nat
      /\ \A k \in 1..m : t[k] = scores[k]
      /\ t[m + 1] = row /\ DOMAIN scores = 1..m
  BY <1>1, AppendProperties
<1> HIDE DEF t, m
<1>3. \A k \in 1..m : scores[k].id \in Ids(msgs) /\ scores[k].id # id
  BY <1>2 DEF TableOf, Position
<1>4. \A i \in 1..n : ~Names(entries, i, id)
  BY <1>2, <1>3 DEF TableOf
<1>5. \A other \in Ids(msgs) \ {id} : ~Names(entries, n + 1, other)
  BY DEF Names
<1>6. \A other \in Ids(msgs) \ {id} : \A i \in 1..n + 1 :
        /\ IsFirst(entries, n + 1, other, i) <=> i \in 1..n /\ IsFirst(entries, n, other, i)
        /\ IsLast(entries, n + 1, other, i) <=> i \in 1..n /\ IsLast(entries, n, other, i)
        /\ Names(entries, i, other) => i \in 1..n
  BY <1>5 DEF IsFirst, IsLast
<1>7. \A i \in 1..n + 1 : /\ IsFirst(entries, n + 1, id, i) <=> i = n + 1
                          /\ IsLast(entries, n + 1, id, i) <=> i = n + 1
                          /\ Names(entries, i, id) <=> i = n + 1
  <2>1. \A i \in 1..n + 1 : i # n + 1 => i \in 1..n
    OBVIOUS
  <2> QED BY <1>4, <2>1 DEF IsFirst, IsLast
<1>8. ASSUME NEW k \in 1..m + 1
      PROVE  /\ t[k].id \in Ids(msgs)
             /\ \E f \in 1..n + 1 : IsFirst(entries, n + 1, t[k].id, f)
             /\ \E l \in 1..n + 1 : /\ IsLast(entries, n + 1, t[k].id, l)
                                    /\ ScoreLike(entries[l].score) = {t[k].value}
  <2>1. CASE k = m + 1
    <3>1. t[k].id = id /\ t[k].value = v
      BY <1>1, <1>2, <2>1
    <3> QED BY <1>7, <3>1
  <2>2. CASE k \in 1..m
    <3>1. t[k] = scores[k] /\ t[k].id \in Ids(msgs) \ {id} /\ k \in DOMAIN scores
      BY <1>2, <1>3, <2>2
    <3>2. PICK f \in 1..n : IsFirst(entries, n, scores[k].id, f)
      BY <3>1 DEF TableOf
    <3>3. PICK l \in 1..n : /\ IsLast(entries, n, scores[k].id, l)
                            /\ ScoreLike(entries[l].score) = {scores[k].value}
      BY <3>1 DEF TableOf
    <3>4. f \in 1..n + 1 /\ l \in 1..n + 1
      OBVIOUS
    <3> QED BY <1>6, <3>1, <3>2, <3>3, <3>4
  <2> QED BY <1>2, <2>1, <2>2
<1>9. ASSUME NEW k1 \in 1..m + 1, NEW k2 \in 1..m + 1, k1 < k2,
             NEW f1 \in 1..n + 1, NEW f2 \in 1..n + 1,
             IsFirst(entries, n + 1, t[k1].id, f1), IsFirst(entries, n + 1, t[k2].id, f2)
      PROVE  f1 < f2
  <2>1. k1 \in 1..m /\ t[k1] = scores[k1] /\ t[k1].id \in Ids(msgs) \ {id}
    BY <1>2, <1>3, <1>9
  <2>2. f1 \in 1..n /\ IsFirst(entries, n, scores[k1].id, f1)
    BY <1>6, <1>9, <2>1
  <2>3. CASE k2 = m + 1
    <3>1. t[k2].id = id
      BY <1>1, <1>2, <2>3
    <3>2. f2 = n + 1
      BY <1>7, <1>9, <3>1
    <3> QED BY <2>2, <3>2
  <2>4. CASE k2 \in 1..m
    <3>1. t[k2] = scores[k2] /\ t[k2].id \in Ids(msgs) \ {id}
      BY <1>2, <1>3, <2>4
    <3>2. f2 \in 1..n /\ IsFirst(entries, n, scores[k2].id, f2)
      BY <1>6, <1>9, <3>1
    <3> QED BY <1>2, <1>9, <2>1, <2>2, <2>4, <3>2 DEF TableOf
  <2> QED BY <1>2, <2>3, <2>4
<1>10. ASSUME NEW i \in 1..n + 1, NEW other \in Ids(msgs), Names(entries, i, other)
       PROVE  \E k \in 1..m + 1 : t[k].id = other
  <2>1. CASE other = id
    <3>1. t[m + 1].id = id /\ m + 1 \in 1..m + 1
      BY <1>1, <1>2
    <3> QED BY <2>1, <3>1
  <2>2. CASE other # id
    <3>1. i \in 1..n
      BY <1>6, <1>10, <2>2
    <3>2. PICK k \in 1..m : scores[k].id = other
      BY <1>2, <1>10, <3>1 DEF TableOf
    <3>3. k \in 1..m + 1 /\ t[k] = scores[k]
      BY <1>2
    <3> QED BY <3>2, <3>3
  <2> QED BY <2>1, <2>2
<1>11. TableOf(msgs, entries, n + 1, t)
  BY <1>2, <1>8, <1>9, <1>10 DEF TableOf
<1> QED BY <1>11 DEF t, row
\* Table t gives id the score v, and is scores for the rest.
Rescored(scores, t, id, v) ==
  /\ DOMAIN t = DOMAIN scores
  /\ \A k \in DOMAIN scores :
       /\ t[k].id = scores[k].id
       /\ scores[k].id = id => t[k].value = v
       /\ scores[k].id # id => t[k].value = scores[k].value

\* An entry that names an id of the day again replaces its score and keeps its place.
LEMMA RepeatedEntry ==
  ASSUME NEW msgs, NEW entries, NEW n \in Nat, NEW scores \in Seq(Score),
         TableOf(msgs, entries, n, scores),
         NEW id \in Ids(msgs), NEW v \in 0..20, Names(entries, n + 1, id),
         ScoreLike(entries[n + 1].score) = {v}, Position(scores, id) # {},
         NEW t \in Seq(Score), Rescored(scores, t, id, v)
  PROVE  TableOf(msgs, entries, n + 1, t)
<1> DEFINE D == DOMAIN scores
<1> USE DEF Rescored
<1>1. \A other \in Ids(msgs) \ {id} : ~Names(entries, n + 1, other)
  BY DEF Names
<1>2. \A other \in Ids(msgs) \ {id} : \A i \in 1..n + 1 :
        /\ IsFirst(entries, n + 1, other, i) <=> i \in 1..n /\ IsFirst(entries, n, other, i)
        /\ IsLast(entries, n + 1, other, i) <=> i \in 1..n /\ IsLast(entries, n, other, i)
        /\ Names(entries, i, other) => i \in 1..n
  BY <1>1 DEF IsFirst, IsLast
<1>3. PICK at \in D : scores[at].id = id
  BY DEF Position
<1>4. \A i \in 1..n + 1 :
        /\ IsFirst(entries, n + 1, id, i) <=> i \in 1..n /\ IsFirst(entries, n, id, i)
        /\ IsLast(entries, n + 1, id, i) <=> i = n + 1
  <2>1. PICK f \in 1..n : Names(entries, f, id)
    BY <1>3 DEF TableOf, IsFirst
  <2>2. f \in 1..n + 1 /\ f < n + 1
    OBVIOUS
  <2>3. \A i \in 1..n + 1 : i = n + 1 \/ i \in 1..n
    OBVIOUS
  <2> QED BY <2>1, <2>2, <2>3 DEF IsFirst, IsLast
<1>5. ASSUME NEW k \in D
      PROVE  /\ t[k].id \in Ids(msgs)
             /\ \E f \in 1..n + 1 : IsFirst(entries, n + 1, t[k].id, f)
             /\ \E l \in 1..n + 1 : /\ IsLast(entries, n + 1, t[k].id, l)
                                    /\ ScoreLike(entries[l].score) = {t[k].value}
  <2>1. t[k].id = scores[k].id /\ t[k].id \in Ids(msgs)
    BY DEF TableOf
  <2>2. PICK f \in 1..n : IsFirst(entries, n, scores[k].id, f)
    BY DEF TableOf
  <2>3. PICK l \in 1..n : /\ IsLast(entries, n, scores[k].id, l)
                          /\ ScoreLike(entries[l].score) = {scores[k].value}
    BY DEF TableOf
  <2>4. f \in 1..n + 1 /\ l \in 1..n + 1 /\ n + 1 \in 1..n + 1
    OBVIOUS
  <2>5. IsFirst(entries, n + 1, t[k].id, f)
    BY <1>2, <1>4, <2>1, <2>2, <2>4
  <2>6. CASE t[k].id = id
    <3>1. t[k].value = v /\ IsLast(entries, n + 1, t[k].id, n + 1)
      BY <1>4, <2>1, <2>4, <2>6
    <3> QED BY <2>1, <2>4, <2>5, <3>1
  <2>7. CASE t[k].id # id
    <3>1. t[k].value = scores[k].value /\ IsLast(entries, n + 1, t[k].id, l)
      BY <1>2, <2>1, <2>3, <2>4, <2>7
    <3> QED BY <2>1, <2>3, <2>4, <2>5, <3>1
  <2> QED BY <2>6, <2>7
<1>6. ASSUME NEW k1 \in D, NEW k2 \in D, k1 < k2, NEW f1 \in 1..n + 1, NEW f2 \in 1..n + 1,
             IsFirst(entries, n + 1, t[k1].id, f1), IsFirst(entries, n + 1, t[k2].id, f2)
      PROVE  f1 < f2
  <2>1. /\ t[k1].id = scores[k1].id /\ t[k1].id \in Ids(msgs)
        /\ t[k2].id = scores[k2].id /\ t[k2].id \in Ids(msgs)
    BY DEF TableOf
  <2>2. /\ f1 \in 1..n /\ IsFirst(entries, n, scores[k1].id, f1)
        /\ f2 \in 1..n /\ IsFirst(entries, n, scores[k2].id, f2)
    BY <1>2, <1>4, <1>6, <2>1
  <2> QED BY <1>6, <2>2 DEF TableOf
<1>7. ASSUME NEW i \in 1..n + 1, NEW other \in Ids(msgs), Names(entries, i, other)
      PROVE  \E k \in D : t[k].id = other
  <2>1. CASE other = id
    BY <1>3, <2>1
  <2>2. CASE other # id
    <3>1. i \in 1..n
      BY <1>2, <1>7, <2>2
    <3>2. PICK k \in D : scores[k].id = other
      BY <1>7, <3>1 DEF TableOf
    <3> QED BY <3>2
  <2> QED BY <2>1, <2>2
<1> QED BY <1>5, <1>6, <1>7 DEF TableOf

\* The ids of messages are numbers from 1.
LEMMA IdsArePositive ==
  ASSUME NEW msgs \in Seq(Message)
  PROVE  \A id \in Ids(msgs) : id \in Nat /\ id > 0
<1> SUFFICES ASSUME NEW i \in DOMAIN msgs PROVE msgs[i].id \in Nat /\ msgs[i].id > 0
  BY DEF Ids
<1>1. msgs[i] \in Message
  OBVIOUS
<1> QED BY <1>1 DEF Message

\* One entry more, whatever it says.
LEMMA EntryKeepsTable ==
  ASSUME NEW msgs \in Seq(Message), NEW entries \in Seq(Entry), NEW n \in Nat,
         n + 1 \in 1..Len(entries), NEW acc \in Table,
         acc.ok => TableOf(msgs, entries, n, acc.scores)
  PROVE  /\ TakeEntry(msgs, acc, entries[n + 1]) \in Table
         /\ TakeEntry(msgs, acc, entries[n + 1]).ok =>
              TableOf(msgs, entries, n + 1, TakeEntry(msgs, acc, entries[n + 1]).scores)
<1> DEFINE e == entries[n + 1]
           known == IntLike(e.id) \cap Ids(msgs)
           r == TakeEntry(msgs, acc, e)
<1>1. e \in Entry /\ e.id \in Tokens /\ e.score \in Tokens
  <2>1. entries[n + 1] \in Entry
    OBVIOUS
  <2> QED BY <2>1 DEF Entry
<1>2. acc.ok \in BOOLEAN /\ acc.scores \in Seq(Score)
  BY DEF Table
<1>3. Ids(msgs) \subseteq Int
  BY IdsArePositive
<1>4. IntLike(e.id) = {} \/ \E i \in Int : IntLike(e.id) = {i}
  BY <1>1, TokenFacts
<1>5. ScoreLike(e.score) = {} \/ \E v \in 0..20 : ScoreLike(e.score) = {v}
  BY <1>1, TokenFacts
<1>6. CASE ~acc.ok \/ (known = {} /\ ~Unreadable(e.id))
  <2>1. r = acc
    BY <1>6 DEF TakeEntry
  <2>2. CASE known = {} /\ acc.ok
    <3>1. \A id \in Ids(msgs) : ~Names(entries, n + 1, id)
      BY <2>2 DEF Names
    <3> QED BY <1>2, <2>1, <2>2, <3>1, PassedEntry
  <2> QED BY <1>6, <2>1, <2>2
<1>7. CASE acc.ok /\ known # {} /\ ScoreLike(e.score) # {}
  <2>1. PICK id \in Int : IntLike(e.id) = {id} /\ known = {id} /\ id \in Ids(msgs)
    BY <1>4, <1>7
  <2>2. PICK v \in 0..20 : ScoreLike(e.score) = {v}
    BY <1>5, <1>7
  <2> DEFINE new == KeepLast(acc.scores, id, v)
  <2>3. r = [acc EXCEPT !.scores = new]
    <3>1. (CHOOSE i \in known : TRUE) = id /\ (CHOOSE w \in ScoreLike(e.score) : TRUE) = v
      BY <2>1, <2>2
    <3>2. r = [acc EXCEPT !.scores = KeepLast(@, CHOOSE i \in known : TRUE,
                                                 CHOOSE w \in ScoreLike(e.score) : TRUE)]
      BY <1>7 DEF TakeEntry
    <3> QED BY <3>1, <3>2
  <2>4. new \in Seq(Score) /\ TableOf(msgs, entries, n + 1, new)
    <3>1. Names(entries, n + 1, id)
      BY <2>1 DEF Names
    <3>2. CASE Position(acc.scores, id) = {}
      <4>1. new = Append(acc.scores, [id |-> id, value |-> v])
        BY <3>2 DEF KeepLast
      <4>2. [id |-> id, value |-> v] \in Score
        BY DEF Score
      <4>3. ScoreLike(entries[n + 1].score) = {v} /\ TableOf(msgs, entries, n, acc.scores)
        BY <1>7, <2>2
      <4>4. TableOf(msgs, entries, n + 1, Append(acc.scores, [id |-> id, value |-> v]))
        <5> HIDE DEF e, known, r, new
        <5> QED BY <1>2, <2>1, <3>1, <3>2, <4>3, NewEntry
      <4>5. Append(acc.scores, [id |-> id, value |-> v]) \in Seq(Score)
        BY <1>2, <4>2
      <4> QED BY <4>1, <4>4, <4>5
    <3>3. CASE Position(acc.scores, id) # {}
      <4> DEFINE s == acc.scores
                 t == [i \in DOMAIN s |-> [s[i] EXCEPT !.value = IF s[i].id = id THEN v ELSE @]]
      <4>1. new = t
        BY <3>3 DEF KeepLast
      <4>2. \A i \in DOMAIN s : s[i] \in Score
        BY <1>2
      <4>3. \A i \in DOMAIN s : /\ t[i] \in Score
                                /\ t[i].id = s[i].id
                                /\ s[i].id = id => t[i].value = v
                                /\ s[i].id # id => t[i].value = s[i].value
        BY <4>2 DEF Score
      <4>4. DOMAIN t = DOMAIN s
        OBVIOUS
      <4> HIDE DEF t
      <4>5. t \in Seq(Score)
        <5>1. DOMAIN s = 1..Len(s) /\ Len(s) \in Nat
          BY <1>2
        <5>2. t = [i \in 1..Len(s) |-> t[i]]
          BY <4>4, <5>1 DEF t
        <5>3. t \in [1..Len(s) -> Score]
          BY <4>3, <5>1, <5>2
        <5> QED BY <5>1, <5>3
      <4>6. TableOf(msgs, entries, n + 1, t)
        <5> HIDE DEF s
        <5>1. s \in Seq(Score) /\ TableOf(msgs, entries, n, s) /\ Position(s, id) # {}
          BY <1>2, <1>7, <3>3 DEF s
        <5>2. ScoreLike(entries[n + 1].score) = {v}
          BY <2>2
        <5>3. v \in 0..20
          BY <2>2
        <5>4. Rescored(s, t, id, v)
          BY <4>3, <4>4 DEF Rescored
        <5>5. t \in Seq(Score) /\ id \in Ids(msgs)
          BY <2>1, <4>5
        <5> HIDE DEF e, known, r, new
        <5> QED BY <3>1, <5>1, <5>2, <5>3, <5>4, <5>5, RepeatedEntry
      <4> QED BY <4>1, <4>5, <4>6
    <3> QED BY <3>2, <3>3
  <2> HIDE DEF new
  <2>5. r \in Table /\ r.scores = new
    BY <1>2, <2>3, <2>4 DEF Table
  <2> QED BY <2>4, <2>5
<1>8. CASE /\ ~(~acc.ok \/ (known = {} /\ ~Unreadable(e.id)))
           /\ ~(acc.ok /\ known # {} /\ ScoreLike(e.score) # {})
  <2>1. r = [acc EXCEPT !.ok = FALSE]
    BY <1>8 DEF TakeEntry
  <2>2. r \in Table /\ r.ok = FALSE
    BY <1>2, <2>1 DEF Table
  <2> QED BY <2>2
<1> QED BY <1>6, <1>7, <1>8
\* g holds what the parser makes of the first n entries, for every n up to m.
Norm(msgs, entries, g, m) ==
  g = [n \in 0..m |-> IF n = 0 THEN [ok |-> TRUE, scores |-> <<>>]
                               ELSE TakeEntry(msgs, g[n - 1], entries[n])]

LEMMA NormExists ==
  ASSUME NEW msgs, NEW entries
  PROVE  \A m \in Nat : \E g : Norm(msgs, entries, g, m)
<1> DEFINE S == {m \in Nat : \E g : Norm(msgs, entries, g, m)}
<1>1. 0 \in S
  <2> DEFINE g == [n \in 0..0 |-> [ok |-> TRUE, scores |-> <<>>]]
  <2>1. Norm(msgs, entries, g, 0)
    BY DEF Norm
  <2> QED BY <2>1
<1>2. ASSUME NEW m \in Nat, m \in S
      PROVE  m + 1 \in S
  <2>1. PICK g : Norm(msgs, entries, g, m)
    BY <1>2
  <2> DEFINE next(n) == IF n = 0 THEN [ok |-> TRUE, scores |-> <<>>]
                                 ELSE TakeEntry(msgs, g[n - 1], entries[n])
             h == [n \in 0..(m + 1) |-> next(n)]
  <2>2. \A n \in 0..m : h[n] = g[n]
    <3>1. g = [n \in 0..m |-> next(n)]
      BY <2>1 DEF Norm
    <3> HIDE DEF next
    <3> QED BY <3>1
  <2> HIDE DEF h
  <2>3. \A n \in 0..(m + 1) : n # 0 => h[n - 1] = g[n - 1]
    <3>1. \A n \in 0..(m + 1) : n # 0 => n - 1 \in 0..m
      OBVIOUS
    <3> QED BY <2>2, <3>1
  <2>4. Norm(msgs, entries, h, m + 1)
    <3>1. h = [n \in 0..(m + 1) |-> IF n = 0 THEN [ok |-> TRUE, scores |-> <<>>]
                                             ELSE TakeEntry(msgs, h[n - 1], entries[n])]
      BY <2>3 DEF h
    <3> QED BY <3>1 DEF Norm
  <2> QED BY <2>4
<1> HIDE DEF S
<1>3. Nat \subseteq S
  BY <1>1, <1>2, Induction
<1> QED BY <1>3 DEF S

\* An answer that is accepted gives each message of the day it names the score of its
\* last entry, in the order of the first entries.
LEMMA ParserIsRight ==
  ASSUME NEW msgs \in Seq(Message), NEW entries \in Seq(Entry),
         NormalizeScores(msgs, entries).ok
  PROVE  /\ NormalizeScores(msgs, entries).scores \in Seq(Score)
         /\ TableOf(msgs, entries, Len(entries), NormalizeScores(msgs, entries).scores)
<1> DEFINE N == Len(entries)
<1>1. N \in Nat
  OBVIOUS
<1>2. PICK g : Norm(msgs, entries, g, N) /\ NormalizeScores(msgs, entries) = g[N]
  <2> DEFINE f == CHOOSE g : Norm(msgs, entries, g, N)
  <2>1. Norm(msgs, entries, f, N)
    <3>1. \E g : Norm(msgs, entries, g, N)
      BY <1>1, NormExists
    <3> QED BY <3>1, Zenon
  <2>2. NormalizeScores(msgs, entries) = f[N]
    BY Zenon DEF NormalizeScores, Norm
  <2> QED BY <2>1, <2>2
<1> DEFINE S == {n \in Nat : n <= N => /\ g[n] \in Table
                                       /\ g[n].ok => TableOf(msgs, entries, n, g[n].scores)}
<1>3. 0 \in S
  <2>1. g[0] = [ok |-> TRUE, scores |-> <<>>]
    BY <1>1, <1>2 DEF Norm
  <2>2. g[0] \in Table /\ g[0].scores = <<>>
    BY <2>1 DEF Table
  <2>3. TableOf(msgs, entries, 0, <<>>)
    BY DEF TableOf
  <2> QED BY <2>2, <2>3
<1>4. ASSUME NEW n \in Nat, n \in S
      PROVE  n + 1 \in S
  <2> SUFFICES ASSUME n + 1 <= N
               PROVE  /\ g[n + 1] \in Table
                      /\ g[n + 1].ok => TableOf(msgs, entries, n + 1, g[n + 1].scores)
    OBVIOUS
  <2>1. n + 1 \in 1..Len(entries) /\ n + 1 \in 0..N /\ n + 1 # 0 /\ (n + 1) - 1 = n /\ n <= N
    BY <1>1
  <2>2. g[n + 1] = TakeEntry(msgs, g[n], entries[n + 1])
    BY <1>2, <2>1 DEF Norm
  <2>3. g[n] \in Table /\ (g[n].ok => TableOf(msgs, entries, n, g[n].scores))
    BY <1>4, <2>1
  <2> HIDE DEF S, N
  <2> QED BY <2>1, <2>2, <2>3, EntryKeepsTable
<1> HIDE DEF S
<1>5. Nat \subseteq S
  BY <1>3, <1>4, Induction
<1>6. g[N] \in Table /\ TableOf(msgs, entries, N, g[N].scores)
  BY <1>1, <1>2, <1>5 DEF S
<1> QED BY <1>2, <1>6 DEF Table

\* At the end of the answer, the first and the last entry are those the property reads.
LEMMA WholeAnswer ==
  ASSUME NEW msgs \in Seq(Message), NEW entries \in Seq(Entry), NEW scores \in Seq(Score),
         TableOf(msgs, entries, Len(entries), scores)
  PROVE  /\ \A k \in DOMAIN scores :
              /\ scores[k].id \in Ids(msgs) /\ Listed(entries, scores[k].id) # {}
              /\ LastScore(entries, scores[k].id) = scores[k].value
              /\ FirstAt(entries, scores[k].id) \in Nat
         /\ \A k1, k2 \in DOMAIN scores :
              k1 < k2 => FirstAt(entries, scores[k1].id) < FirstAt(entries, scores[k2].id)
         /\ \A id \in Ids(msgs) : Listed(entries, id) # {} =>
              \E k \in DOMAIN scores : scores[k].id = id
<1> DEFINE N == Len(entries)
<1>1. DOMAIN entries = 1..N /\ N \in Nat
  OBVIOUS
<1>2. \A id : \A i : i \in Listed(entries, id) <=> i \in 1..N /\ Names(entries, i, id)
  BY <1>1 DEF Listed, Names
<1>3. ASSUME NEW k \in DOMAIN scores
      PROVE  \E f \in 1..N : /\ IsFirst(entries, N, scores[k].id, f)
                             /\ f = FirstAt(entries, scores[k].id)
  <2> DEFINE id == scores[k].id
  <2>1. PICK f \in 1..N : IsFirst(entries, N, id, f)
    BY DEF TableOf
  <2> HIDE DEF id
  <2>2. f \in Listed(entries, id) /\ \A j \in Listed(entries, id) : f <= j
    BY <1>2, <2>1 DEF IsFirst
  <2>3. /\ FirstAt(entries, id) \in Listed(entries, id)
        /\ \A j \in Listed(entries, id) : FirstAt(entries, id) <= j
    BY <2>2 DEF FirstAt
  <2>4. f <= FirstAt(entries, id) /\ FirstAt(entries, id) <= f /\ FirstAt(entries, id) \in 1..N
    BY <1>2, <2>2, <2>3
  <2>5. f = FirstAt(entries, id)
    BY <1>1, <2>4
  <2> QED BY <2>1, <2>5 DEF id
<1>4. ASSUME NEW k \in DOMAIN scores
      PROVE  LastScore(entries, scores[k].id) = scores[k].value
  <2> DEFINE id == scores[k].id  v == scores[k].value
  <2>1. PICK l \in 1..N : IsLast(entries, N, id, l) /\ ScoreLike(entries[l].score) = {v}
    BY DEF TableOf
  <2> HIDE DEF id, v
  <2>2. l \in Listed(entries, id) /\ \A j \in Listed(entries, id) : j <= l
    BY <1>2, <2>1 DEF IsLast
  <2>3. /\ LastAt(entries, id) \in Listed(entries, id)
        /\ \A j \in Listed(entries, id) : j <= LastAt(entries, id)
    BY <2>2 DEF LastAt
  <2>4. l <= LastAt(entries, id) /\ LastAt(entries, id) <= l /\ LastAt(entries, id) \in 1..N
    BY <1>2, <2>2, <2>3
  <2>5. l = LastAt(entries, id)
    BY <1>1, <2>4
  <2>6. LastScore(entries, id) = v
    BY <2>1, <2>5 DEF LastScore
  <2> QED BY <2>6 DEF id, v
<1>5. \A k \in DOMAIN scores :
        /\ scores[k].id \in Ids(msgs) /\ Listed(entries, scores[k].id) # {}
        /\ FirstAt(entries, scores[k].id) \in Nat
  <2> SUFFICES ASSUME NEW k \in DOMAIN scores
               PROVE  /\ scores[k].id \in Ids(msgs) /\ Listed(entries, scores[k].id) # {}
                      /\ FirstAt(entries, scores[k].id) \in Nat
    OBVIOUS
  <2>1. PICK f \in 1..N : IsFirst(entries, N, scores[k].id, f) /\ f = FirstAt(entries, scores[k].id)
    BY <1>3
  <2>2. f \in Listed(entries, scores[k].id)
    BY <1>2, <2>1 DEF IsFirst
  <2>3. scores[k].id \in Ids(msgs)
    BY DEF TableOf
  <2> QED BY <2>1, <2>2, <2>3
<1>6. ASSUME NEW k1 \in DOMAIN scores, NEW k2 \in DOMAIN scores, k1 < k2
      PROVE  FirstAt(entries, scores[k1].id) < FirstAt(entries, scores[k2].id)
  <2>1. PICK f1 \in 1..N :
          IsFirst(entries, N, scores[k1].id, f1) /\ f1 = FirstAt(entries, scores[k1].id)
    BY <1>3
  <2>2. PICK f2 \in 1..N :
          IsFirst(entries, N, scores[k2].id, f2) /\ f2 = FirstAt(entries, scores[k2].id)
    BY <1>3
  <2>3. f1 < f2
    BY <1>6, <2>1, <2>2 DEF TableOf
  <2> QED BY <2>1, <2>2, <2>3
<1>7. ASSUME NEW id \in Ids(msgs), Listed(entries, id) # {}
      PROVE  \E k \in DOMAIN scores : scores[k].id = id
  <2>1. PICK i \in 1..N : Names(entries, i, id)
    BY <1>2, <1>7
  <2> QED BY <2>1 DEF TableOf
<1> QED BY <1>4, <1>5, <1>6, <1>7
(***************************************************************************)
(* The quote                                                               *)
(***************************************************************************)
\* What comes before i by weight, the heavier first, and by place among equal ones.
Ahead(K, w, i) == {j \in K : w[j] > w[i] \/ (w[j] = w[i] /\ j < i)}

LEMMA Ranked ==
  ASSUME NEW K \in SUBSET Int, IsFiniteSet(K), NEW w \in [K -> Int]
  PROVE  /\ Cardinality(K) \in Nat
         /\ \A i \in K : Cardinality(Ahead(K, w, i)) \in 0..(Cardinality(K) - 1)
         /\ \A i, j \in K : Cardinality(Ahead(K, w, i)) < Cardinality(Ahead(K, w, j)) =>
              w[i] > w[j] \/ (w[i] = w[j] /\ i < j)
         /\ \A n \in 1..Cardinality(K) : \E i \in K : Cardinality(Ahead(K, w, i)) = n - 1
<1> DEFINE before == [i \in K |-> Ahead(K, w, i)]
<1>1. \A i \in K : before[i] = Ahead(K, w, i) /\ before[i] \subseteq K
  BY DEF Ahead
<1>2. \A i \in K : w[i] \in Int /\ i \in Int
  OBVIOUS
<1>3. \A i, j \in K : i \in before[j] <=> w[i] > w[j] \/ (w[i] = w[j] /\ i < j)
  BY <1>1 DEF Ahead
<1>4. before \in [K -> SUBSET K]
  BY <1>1
<1> HIDE DEF before
<1>5. /\ \A i \in K : i \notin before[i]
      /\ \A i, j \in K : i # j => i \in before[j] \/ j \in before[i]
  BY <1>2, <1>3
<1>6. \A i, j \in K : i \in before[j] => before[i] \subseteq before[j]
  <2> SUFFICES ASSUME NEW i \in K, NEW j \in K, i \in before[j], NEW h \in before[i]
               PROVE  h \in before[j]
    OBVIOUS
  <2>1. h \in K
    BY <1>4
  <2> QED BY <1>2, <1>3, <2>1
<1>7. /\ Cardinality(K) \in Nat
      /\ \A i \in K : Cardinality(before[i]) \in Nat /\ Cardinality(before[i]) < Cardinality(K)
      /\ \A i, j \in K : i \in before[j] <=> Cardinality(before[i]) < Cardinality(before[j])
      /\ \A n \in 1..Cardinality(K) : \E i \in K : Cardinality(before[i]) = n - 1
  BY <1>4, <1>5, <1>6, Places
<1>8. \A i \in K : Cardinality(Ahead(K, w, i)) = Cardinality(before[i])
  BY <1>1
<1> QED BY <1>3, <1>7, <1>8

\* The best of the table: there is one unless no message it scores can be the quote, and
\* only one.
LEMMA FallbackIsBest ==
  ASSUME NEW msgs \in Seq(Message), NEW entries \in Seq(Entry), NEW scores \in Seq(Score),
         TableOf(msgs, entries, Len(entries), scores)
  PROVE  LET able == {id \in Eligible(msgs) : Listed(entries, id) # {}} IN
         /\ \A id \in Fallback(msgs, scores) :
              id \in able /\ \A other \in able \ {id} : Behind(entries, other, id)
         /\ Fallback(msgs, scores) = {} <=> able = {}
         /\ \A id, other \in Fallback(msgs, scores) : id = other
<1> DEFINE able == {id \in Eligible(msgs) : Listed(entries, id) # {}}
           of == {i \in DOMAIN scores : scores[i].id \in Eligible(msgs)}
           w == [i \in of |-> scores[i].value]
           Top(i) == \A j \in of : \/ scores[j].value < scores[i].value
                                   \/ (scores[j].value = scores[i].value /\ i <= j)
<1>1. \A k \in DOMAIN scores : scores[k] \in Score /\ scores[k].value \in Int /\ k \in Int
  <2>1. \A k \in DOMAIN scores : scores[k] \in Score /\ k \in Int
    OBVIOUS
  <2>2. \A x \in Score : x.value \in Int
    BY DEF Score
  <2> QED BY <2>1, <2>2
<1>2. /\ \A k \in DOMAIN scores :
           /\ scores[k].id \in Ids(msgs) /\ Listed(entries, scores[k].id) # {}
           /\ LastScore(entries, scores[k].id) = scores[k].value
           /\ FirstAt(entries, scores[k].id) \in Nat
      /\ \A k1, k2 \in DOMAIN scores :
           k1 < k2 => FirstAt(entries, scores[k1].id) < FirstAt(entries, scores[k2].id)
      /\ \A id \in Ids(msgs) : Listed(entries, id) # {} =>
           \E k \in DOMAIN scores : scores[k].id = id
  BY WholeAnswer
<1>3. \A id : id \in Fallback(msgs, scores) <=> \E i \in of : scores[i].id = id /\ Top(i)
  BY DEF Fallback
<1>4. Eligible(msgs) \subseteq Ids(msgs)
  BY DEF Eligible
<1>5. \A i \in of : i \in DOMAIN scores /\ scores[i].id \in able
  BY <1>2
<1>6. \A id \in able : \E k \in of : scores[k].id = id
  BY <1>2, <1>4
<1>7. ASSUME NEW id \in Fallback(msgs, scores)
      PROVE  id \in able /\ \A other \in able \ {id} : Behind(entries, other, id)
  <2>1. PICK i \in of : scores[i].id = id /\ Top(i)
    BY <1>3
  <2>2. ASSUME NEW other \in able \ {id}
        PROVE  Behind(entries, other, id)
    <3>1. PICK k \in of : scores[k].id = other
      BY <1>6
    <3>2. i # k /\ i \in DOMAIN scores /\ k \in DOMAIN scores
      BY <1>5, <2>1, <3>1
    <3>3. \/ scores[k].value < scores[i].value
          \/ (scores[k].value = scores[i].value /\ i < k)
      BY <1>1, <2>1, <3>2
    <3>4. i < k => FirstAt(entries, id) < FirstAt(entries, other)
      BY <1>2, <2>1, <3>1, <3>2
    <3>5. LastScore(entries, id) = scores[i].value /\ LastScore(entries, other) = scores[k].value
      BY <1>2, <2>1, <3>1, <3>2
    <3> QED BY <3>3, <3>4, <3>5 DEF Behind
  <2> QED BY <1>5, <2>1, <2>2
<1>8. ASSUME able # {}
      PROVE  Fallback(msgs, scores) # {}
  <2>1. of # {} /\ of \in SUBSET (1..Len(scores)) /\ of \in SUBSET Int
    BY <1>6, <1>8
  <2>2. IsFiniteSet(of)
    <3>1. Len(scores) \in Nat
      OBVIOUS
    <3>2. IsFiniteSet(1..Len(scores))
      BY <3>1, FS_Interval
    <3> HIDE DEF of
    <3> QED BY <2>1, <3>2, FS_Subset
  <2>3. w \in [of -> Int]
    BY <1>1
  <2>4. \A i \in of : w[i] = scores[i].value
    OBVIOUS
  <2>5. PICK i \in of : Ahead(of, w, i) = {}
    <3> HIDE DEF of, w
    <3>1. Cardinality(of) \in Nat /\ Cardinality(of) # 0
      BY <2>1, <2>2, FS_CardinalityType, FS_EmptySet
    <3>2. 1 \in 1..Cardinality(of)
      BY <3>1
    <3>3. PICK i \in of : Cardinality(Ahead(of, w, i)) = 1 - 1
      BY <2>1, <2>2, <2>3, <3>2, Ranked
    <3>4. Ahead(of, w, i) \in SUBSET of
      BY DEF Ahead
    <3>5. IsFiniteSet(Ahead(of, w, i))
      BY <2>2, <3>4, FS_Subset
    <3> QED BY <3>3, <3>5, FS_EmptySet
  <2>6. Top(i)
    <3> SUFFICES ASSUME NEW j \in of
                 PROVE  \/ scores[j].value < scores[i].value
                        \/ (scores[j].value = scores[i].value /\ i <= j)
      OBVIOUS
    <3>1. ~(w[j] > w[i]) /\ ~(w[j] = w[i] /\ j < i)
      <4> HIDE DEF of, w
      <4> QED BY <2>5 DEF Ahead
    <3>2. scores[i].value \in Int /\ scores[j].value \in Int /\ i \in Int /\ j \in Int
      BY <1>1
    <3>3. w[i] = scores[i].value /\ w[j] = scores[j].value
      BY <2>4
    <3> QED BY <3>1, <3>2, <3>3
  <2> QED BY <1>3, <2>6
<1>9. ASSUME NEW id \in Fallback(msgs, scores), NEW other \in Fallback(msgs, scores)
      PROVE  id = other
  <2>1. PICK i \in of : scores[i].id = id /\ Top(i)
    BY <1>3
  <2>2. PICK j \in of : scores[j].id = other /\ Top(j)
    BY <1>3
  <2>3. i = j
    BY <1>1, <2>1, <2>2
  <2> QED BY <2>1, <2>2, <2>3
<1> QED BY <1>7, <1>8, <1>9
AnswerType == [good : BOOLEAN, entries : Seq(Entry), quote : SUBSET Choice]

\* The model's pick, as it is parsed, is what the property reads in the raw answer.
LEMMA PrimaryIsWished ==
  ASSUME NEW msgs \in Seq(Message), NEW answer \in AnswerType
  PROVE  ValidPrimary(msgs, ParsedAnswer(msgs, answer).quote) = Wished(msgs, answer)
<1>1. \A id \in Eligible(msgs) : id \in Nat /\ id > 0
  BY IdsArePositive DEF Eligible
<1>2. ParsedAnswer(msgs, answer).quote = {ParseQuote(q) : q \in answer.quote}
  BY DEF ParsedAnswer
<1>3. ASSUME NEW q \in answer.quote, NEW id \in Eligible(msgs)
      PROVE  ParseQuote(q).primary = id <=> id \in IntLike(q.primary)
  <2>1. q.primary \in Tokens
    <3>1. q \in Choice
      BY DEF AnswerType
    <3> QED BY <3>1 DEF Choice
  <2>2. IntLike(q.primary) = {} \/ IntLike(q.primary) = {Half(q.primary.half)}
    BY <2>1, TokenFacts
  <2>3. ParseQuote(q).primary = IF IntLike(q.primary) = {} THEN 0 ELSE Half(q.primary.half)
    BY DEF ParseQuote
  <2> QED BY <1>1, <2>2, <2>3
<1> QED BY <1>2, <1>3 DEF ValidPrimary, Wished

\* Pick chooses what the property asks for, one message at most.
LEMMA PickIsBest ==
  ASSUME NEW msgs \in Seq(Message), NEW answer \in AnswerType,
         \A p, q \in answer.quote : p = q, NormalizeScores(msgs, answer.entries).ok
  PROVE  /\ BestOfAnswer(msgs, answer, Picked(msgs, ParsedAnswer(msgs, answer)).best)
         /\ Picked(msgs, ParsedAnswer(msgs, answer)).best = Best(msgs, ParsedAnswer(msgs, answer))
         /\ \A id, other \in Best(msgs, ParsedAnswer(msgs, answer)) : id = other
         /\ Best(msgs, ParsedAnswer(msgs, answer)) \subseteq Ids(msgs)
<1> DEFINE res == ParsedAnswer(msgs, answer)
           entries == answer.entries
           scores == NormalizeScores(msgs, entries).scores
           wished == Wished(msgs, answer)
           able == {id \in Eligible(msgs) : Listed(entries, id) # {}}
           fall == Fallback(msgs, scores)
<1>1. entries \in Seq(Entry) /\ answer.quote \in SUBSET Choice
  BY DEF AnswerType
<1>2. res.scores = scores /\ res.quote = {ParseQuote(q) : q \in answer.quote}
  BY DEF ParsedAnswer
<1>3. scores \in Seq(Score) /\ TableOf(msgs, entries, Len(entries), scores)
  BY <1>1, ParserIsRight
<1>4. /\ \A id \in fall : id \in able /\ \A other \in able \ {id} : Behind(entries, other, id)
      /\ fall = {} <=> able = {}
      /\ \A id, other \in fall : id = other
  <2> HIDE DEF entries, scores
  <2> QED BY <1>1, <1>3, FallbackIsBest
<1>5. ValidPrimary(msgs, res.quote) = wished
  BY PrimaryIsWished
<1>6. Candidates(msgs, answer) = able
  BY DEF Candidates
<1>7. Best(msgs, res) = IF wished # {} THEN wished ELSE fall
  BY <1>2, <1>5 DEF Best
<1>8. Picked(msgs, res).best = Best(msgs, res)
  <2>1. CASE Best(msgs, res) = {}
    <3>1. Picked(msgs, res) = NoPick /\ NoPick.best = {}
      BY <2>1 DEF Picked, NoPick
    <3> QED BY <2>1, <3>1
  <2>2. CASE Best(msgs, res) # {}
    BY <2>2 DEF Picked
  <2> QED BY <2>1, <2>2
<1>9. \A id, other \in wished : id = other
  <2> SUFFICES ASSUME NEW id \in wished, NEW other \in wished PROVE id = other
    OBVIOUS
  <2>1. PICK p \in answer.quote : id \in IntLike(p.primary)
    BY DEF Wished
  <2>2. PICK q \in answer.quote : other \in IntLike(q.primary)
    BY DEF Wished
  <2>3. p = q /\ p.primary \in Tokens
    BY <1>1 DEF Choice
  <2>4. IntLike(p.primary) = {} \/ IntLike(p.primary) = {Half(p.primary.half)}
    BY <2>3, TokenFacts
  <2> QED BY <2>1, <2>2, <2>3, <2>4
<1>10. wished \subseteq Ids(msgs) /\ able \subseteq Ids(msgs)
  <2>1. Eligible(msgs) \subseteq Ids(msgs)
    BY DEF Eligible
  <2>2. wished \subseteq Eligible(msgs)
    BY Zenon DEF Wished
  <2>3. able \subseteq Eligible(msgs)
    OBVIOUS
  <2> QED BY <2>1, <2>2, <2>3
<1> HIDE DEF res, entries, scores, wished, able, fall
<1>11. BestOfAnswer(msgs, answer, Best(msgs, res))
  <2>1. answer.entries = entries
    BY DEF entries
  <2>2. wished = Wished(msgs, answer)
    BY DEF wished
  <2>3. \A id \in fall : id \in able /\ \A other \in able \ {id} : Behind(answer.entries, other, id)
    BY <1>4, <2>1
  <2>4. wished = {} => Best(msgs, res) = fall
    BY <1>7
  <2>5. wished # {} => Best(msgs, res) = wished
    BY <1>7
  <2>6. Best(msgs, res) = {} <=> wished \cup able = {}
    BY <1>4, <1>7
  <2> QED BY <1>6, <2>2, <2>3, <2>4, <2>5, <2>6 DEF BestOfAnswer
<1>12. \A id, other \in Best(msgs, res) : id = other
  BY <1>4, <1>7, <1>9
<1>13. Best(msgs, res) \subseteq Ids(msgs)
  BY <1>4, <1>7, <1>10
<1> QED BY <1>8, <1>11, <1>12, <1>13 DEF res
(***************************************************************************)
(* The context of the post                                                 *)
(***************************************************************************)
LEMMA HalfOfLimit ==
  /\ MaxContext \in Nat /\ MaxContext >= 1
  /\ MaxContext \div 2 \in Nat /\ MaxContext \div 2 + 1 <= MaxContext
BY AnswersAssumption

\* Where the window starts: M of L messages, at most h before the one at place at.
LEMMA StartFacts ==
  ASSUME NEW L \in Nat, NEW M \in Nat, NEW h \in Nat, h + 1 <= M, L > M,
         NEW at \in Int, at \in 1..L, NEW start,
         \/ start = 1 /\ at - h < 1
         \/ start = L - M + 1 /\ at - h > L - M + 1
         \/ start = at - h /\ ~(at - h < 1) /\ ~(at - h > L - M + 1)
  PROVE  /\ start \in 1..L /\ start + M - 1 <= L
         /\ at - start + 1 \in 1..M
         /\ at - start < h => start = 1
OBVIOUS

\* The window of the post: a part of the selection that holds the quote, with as many
\* messages before it as half the limit unless the selection starts there.
LEMMA WindowFacts ==
  ASSUME NEW full \in Seq(Int), IsInjective(full), NEW at \in 1..Len(full)
  PROVE  \E start \in 1..Len(full) :
           /\ LimitContext(full, full[at]) \in Seq(Int)
           /\ Len(LimitContext(full, full[at])) =
                IF Len(full) > MaxContext THEN MaxContext ELSE Len(full)
           /\ start + Len(LimitContext(full, full[at])) - 1 <= Len(full)
           /\ \A i \in 1..Len(LimitContext(full, full[at])) :
                LimitContext(full, full[at])[i] = full[start + i - 1]
           /\ at - start + 1 \in 1..Len(LimitContext(full, full[at]))
           /\ at - start < MaxContext \div 2 => start = 1
<1> DEFINE best == full[at]  L == Len(full)  M == MaxContext  h == MaxContext \div 2
           last == L - M + 1
           c == LimitContext(full, best)
<1>1. /\ L \in Nat /\ M \in Nat /\ M >= 1 /\ h \in Nat /\ h + 1 <= M
      /\ at \in Int /\ at \in 1..L
  BY HalfOfLimit
<1>2. DOMAIN full = 1..L
  OBVIOUS
<1>3. (CHOOSE i \in DOMAIN full : full[i] = best) = at
  <2>1. \A i \in DOMAIN full : full[i] = best => i = at
    BY <1>2 DEF IsInjective
  <2> QED BY <1>2, <2>1
<1>4. CASE L <= M
  <2>1. c = full
    BY <1>4 DEF LimitContext
  <2>2. at - 1 + 1 \in 1..L /\ 1 \in 1..L /\ 1 + L - 1 <= L
    BY <1>1
  <2>3. \A i \in 1..L : full[i] = full[1 + i - 1]
    BY <1>1
  <2>4. L = IF L > M THEN M ELSE L
    BY <1>1, <1>4
  <2> HIDE DEF c, h
  <2> QED BY <2>1, <2>2, <2>3, <2>4 DEF c, h
<1>5. CASE L > M
  <2> DEFINE from(i) == CASE i - h < 1 -> 1 [] i - h > last -> last [] OTHER -> i - h
             idx == CHOOSE i \in DOMAIN full : full[i] = best
             start == from(at)
  <2>1. c = SubSeq(full, start, start + M - 1)
    <3>1. ~(L <= M)
      BY <1>1, <1>5
    <3>2. c = SubSeq(full, from(idx), from(idx) + M - 1)
      BY <3>1, Zenon DEF LimitContext
    <3>3. idx = at
      BY <1>3
    <3> HIDE DEF c, from, idx
    <3> QED BY <3>2, <3>3
  <2>2. /\ start \in 1..L /\ start + M - 1 <= L
        /\ at - start + 1 \in 1..M
        /\ at - start < h => start = 1
    <3>1. \/ start = 1 /\ at - h < 1
          \/ start = L - M + 1 /\ at - h > L - M + 1
          \/ start = at - h /\ ~(at - h < 1) /\ ~(at - h > L - M + 1)
      <4> HIDE DEF h
      <4>1. CASE at - h < 1
        BY <1>1, <1>5, <4>1
      <4>2. CASE ~(at - h < 1) /\ at - h > last
        BY <1>1, <4>2
      <4>3. CASE ~(at - h < 1) /\ ~(at - h > last)
        BY <1>1, <4>3
      <4> QED BY <4>1, <4>2, <4>3
    <3> HIDE DEF start, h, L, M
    <3> QED BY <1>1, <1>5, <3>1, StartFacts
  <2> HIDE DEF start, c, h
  <2>3. /\ SubSeq(full, start, start + M - 1) \in Seq(Int)
        /\ Len(SubSeq(full, start, start + M - 1)) = M
        /\ \A i \in 1..M : SubSeq(full, start, start + M - 1)[i] = full[start + i - 1]
    <3> DEFINE n == start + M - 1
    <3>1. start \in 1..L + 1 /\ n \in start - 1..L /\ start <= n /\ n - start + 1 = M
      BY <1>1, <2>2
    <3>2. /\ SubSeq(full, start, n) \in Seq(Int)
          /\ Len(SubSeq(full, start, n)) = IF start <= n THEN n - start + 1 ELSE 0
          /\ \A i \in 1..n - start + 1 : SubSeq(full, start, n)[i] = full[start + i - 1]
      <4> HIDE DEF n
      <4> QED BY <3>1, SubSeqProperties
    <3> QED BY <3>1, <3>2
  <2>4. c \in Seq(Int) /\ Len(c) = M /\ \A i \in 1..M : c[i] = full[start + i - 1]
    BY <2>1, <2>3
  <2>5. M = IF L > M THEN M ELSE L
    BY <1>5
  <2> QED BY <2>2, <2>4, <2>5 DEF c, h
<1> QED BY <1>1, <1>4, <1>5
\* The ids of the parsed context are numbers.
LEMMA ContextType ==
  ASSUME NEW q \in Choice
  PROVE  ParseQuote(q).context \in Seq(Int)
<1> DEFINE K == {i \in DOMAIN q.context : IntLike(q.context[i]) # {}}
           readable == SelectAt(q.context, K)
           ids == [i \in DOMAIN readable |-> Half(readable[i].half)]
<1>1. q.context \in Seq(Tokens)
  BY DEF Choice
<1>2. K \subseteq DOMAIN q.context
  OBVIOUS
<1>3. ParseQuote(q).context = ids
  BY DEF ParseQuote
<1> HIDE DEF K
<1>4. readable \in Seq(Tokens)
  BY <1>1, <1>2, Selects
<1> HIDE DEF readable
<1>5. \A i \in DOMAIN readable : Half(readable[i].half) \in Int
  <2>1. \A i \in DOMAIN readable : readable[i] \in Tokens
    BY <1>4
  <2> QED BY <2>1, TokenFacts
<1>6. ids \in [1..Len(readable) -> Int] /\ Len(readable) \in Nat
  BY <1>4, <1>5
<1>7. ids \in Seq(Int)
  <2> HIDE DEF ids
  <2> QED BY <1>6
<1> QED BY <1>3, <1>7

\* The selection holds the quote, no message twice and none from outside the day.
LEMMA SelectionFacts ==
  ASSUME NEW msgs \in Seq(Message), NEW q, q.context \in Seq(Int), NEW best \in Ids(msgs)
  PROVE  /\ Selection(msgs, q, best) \in Seq(Int)
         /\ IsInjective(Selection(msgs, q, best))
         /\ \A i \in DOMAIN Selection(msgs, q, best) : Selection(msgs, q, best)[i] \in Ids(msgs)
         /\ \E at \in 1..Len(Selection(msgs, q, best)) : Selection(msgs, q, best)[at] = best
         /\ \A i \in DOMAIN Selection(msgs, q, best) :
              Selection(msgs, q, best)[i] = best \/ Selection(msgs, q, best)[i] \in Range(q.context)
<1> DEFINE ids == q.context
           K == {i \in Firsts(ids) : ids[i] \in Ids(msgs)}
           n == Cardinality(K)
           chosen == SelectAt(ids, K)
           full == Selection(msgs, q, best)
<1>1. best \in Int
  BY IdsArePositive
<1>2. K \subseteq DOMAIN ids
  BY DEF Firsts
<1>3. \A k1, k2 \in K : k1 < k2 => ids[k1] # ids[k2]
  <2> SUFFICES ASSUME NEW k1 \in K, NEW k2 \in K, k1 < k2 PROVE ids[k1] # ids[k2]
    OBVIOUS
  <2>1. k1 \in 1..k2 - 1 /\ k2 \in Firsts(ids)
    <3>1. k1 \in DOMAIN ids /\ k2 \in DOMAIN ids /\ DOMAIN ids = 1..Len(ids) /\ Len(ids) \in Nat
      BY <1>2
    <3> QED BY <3>1
  <2> QED BY <2>1 DEF Firsts
<1>4. \A k \in K : ids[k] \in Ids(msgs)
  OBVIOUS
<1>5. full = IF best \in Range(chosen) THEN chosen ELSE Append(chosen, best)
  BY DEF Selection
<1> HIDE DEF K
<1>6. chosen \in Seq(Int) /\ Len(chosen) = n /\ DOMAIN chosen = 1..n /\ n \in Nat
  BY <1>2, Selects
<1>7. PICK pos \in [1..n -> K] :
        /\ \A m1, m2 \in 1..n : m1 < m2 => pos[m1] < pos[m2]
        /\ \A m \in 1..n : chosen[m] = ids[pos[m]]
  <2>1. PICK pos : Keeps(ids, K, pos)
    <3> HIDE DEF ids
    <3>1. ids \in Seq(Int) /\ K \subseteq DOMAIN ids
      BY <1>2 DEF ids
    <3> QED BY <3>1, Selects
  <2> QED BY <2>1 DEF Keeps
<1> HIDE DEF chosen, n
<1>8. \A m \in 1..n : chosen[m] \in Ids(msgs) /\ chosen[m] \in Int
  <2>1. \A m \in 1..n : pos[m] \in K
    BY <1>7
  <2>2. \A m \in 1..n : chosen[m] \in Int
    BY <1>6
  <2> QED BY <1>4, <1>7, <2>1, <2>2
<1>9. \A m1, m2 \in 1..n : m1 < m2 => chosen[m1] # chosen[m2]
  BY <1>3, <1>7
<1>10. \A m1, m2 \in 1..n : chosen[m1] = chosen[m2] => m1 = m2
  <2>1. \A m1, m2 \in 1..n : m1 = m2 \/ m1 < m2 \/ m2 < m1
    BY <1>6
  <2> QED BY <1>9, <2>1
<1>11. \A m \in 1..n : chosen[m] \in Range(ids)
  <2>1. \A m \in 1..n : pos[m] \in DOMAIN ids
    BY <1>2, <1>7
  <2> QED BY <1>7, <2>1 DEF Range
<1>12. CASE best \in Range(chosen)
  <2>1. full = chosen
    BY <1>5, <1>12
  <2>2. \E at \in 1..n : chosen[at] = best
    BY <1>6, <1>12 DEF Range
  <2> HIDE DEF full
  <2>3. IsInjective(full) /\ DOMAIN full = 1..n /\ Len(full) = n /\ full \in Seq(Int)
    BY <1>6, <1>10, <2>1 DEF IsInjective
  <2> QED BY <1>8, <1>11, <2>1, <2>2, <2>3 DEF full
<1>13. CASE best \notin Range(chosen)
  <2>1. full = Append(chosen, best)
    BY <1>5, <1>13
  <2> HIDE DEF full
  <2>2. /\ full \in Seq(Int) /\ Len(full) = n + 1 /\ DOMAIN full = 1..n + 1
        /\ \A m \in 1..n : full[m] = chosen[m]
        /\ full[n + 1] = best
    BY <1>1, <1>6, <2>1, AppendProperties
  <2>3. \A m \in 1..n : chosen[m] # best
    BY <1>6, <1>13 DEF Range
  <2>4. \A m \in 1..n + 1 : m \in 1..n \/ m = n + 1
    BY <1>6
  <2>5. IsInjective(full)
    BY <1>10, <2>2, <2>3, <2>4 DEF IsInjective
  <2>6. \A m \in 1..n + 1 : full[m] \in Ids(msgs)
    BY <1>8, <2>2, <2>4
  <2>7. n + 1 \in 1..n + 1
    BY <1>6
  <2>8. \A m \in 1..n + 1 : full[m] = best \/ full[m] \in Range(ids)
    BY <1>11, <2>2, <2>4
  <2> QED BY <2>2, <2>5, <2>6, <2>7, <2>8 DEF full
<1> QED BY <1>12, <1>13

\* The window of the post shows the quote.
LEMMA WindowShows ==
  ASSUME NEW msgs, NEW full \in Seq(Int), IsInjective(full), NEW best,
         \A i \in DOMAIN full : full[i] \in Ids(msgs),
         \E at \in 1..Len(full) : full[at] = best
  PROVE  /\ Shows(msgs, full, LimitContext(full, best), best)
         /\ \A i \in DOMAIN LimitContext(full, best) :
              \E j \in DOMAIN full : LimitContext(full, best)[i] = full[j]
<1> DEFINE c == LimitContext(full, best)  L == Len(full)  n == Len(c)
           At(s) == {i \in DOMAIN s : s[i] = best}
           Before(s) == CHOOSE m \in 0..Len(s) : m + 1 \in At(s)
<1>1. PICK at \in 1..L : full[at] = best
  OBVIOUS
<1>2. PICK start \in 1..L :
        /\ c \in Seq(Int)
        /\ n = IF L > MaxContext THEN MaxContext ELSE L
        /\ start + n - 1 <= L
        /\ \A i \in 1..n : c[i] = full[start + i - 1]
        /\ at - start + 1 \in 1..n
        /\ at - start < MaxContext \div 2 => start = 1
  BY <1>1, WindowFacts
<1> HIDE DEF c, n, L
<1>3. n = Len(c) /\ L = Len(full)
  BY DEF n, L
<1>4. L \in Nat /\ n \in Nat /\ DOMAIN full = 1..L /\ DOMAIN c = 1..n
  <2>1. c \in Seq(Int)
    BY <1>2
  <2> QED BY <2>1 DEF L, n
<1>5. start \in Nat /\ start >= 1 /\ start <= L /\ at \in Nat /\ at >= 1 /\ at <= L
  BY <1>1, <1>2, <1>4
<1>6. start + n - 1 <= L /\ at - start + 1 >= 1 /\ at - start + 1 <= n
  BY <1>2, <1>4, <1>5
<1>7. \A i \in 1..n : start + i - 1 \in 1..L
  BY <1>4, <1>5, <1>6
<1>8. IsInjective(c)
  <2> SUFFICES ASSUME NEW i \in 1..n, NEW j \in 1..n, c[i] = c[j] PROVE i = j
    BY <1>4 DEF IsInjective
  <2>1. full[start + i - 1] = full[start + j - 1]
    BY <1>2
  <2>2. start + i - 1 = start + j - 1
    BY <1>4, <1>7, <2>1 DEF IsInjective
  <2> QED BY <1>2, <2>2
<1>9. Range(c) \subseteq Ids(msgs)
  <2>1. \A i \in 1..n : c[i] \in Ids(msgs)
    BY <1>2, <1>4, <1>7
  <2> QED BY <1>4, <2>1 DEF Range
<1>10. At(full) = {at}
  BY <1>1, <1>4 DEF IsInjective
<1>11. At(c) = {at - start + 1}
  <2> DEFINE p == at - start + 1
  <2>1. p \in 1..n /\ start + p - 1 = at
    BY <1>4, <1>5, <1>6
  <2>2. c[p] = best
    BY <1>1, <1>2, <2>1
  <2> HIDE DEF p
  <2>3. \A i \in 1..n : c[i] = best => i = p
    BY <1>4, <1>8, <2>1, <2>2 DEF IsInjective
  <2> QED BY <1>4, <2>1, <2>2, <2>3 DEF p
<1>12. Cardinality(At(c)) = 1
  BY <1>11, FS_Singleton
<1>13. Before(full) = at - 1
  <2>1. at - 1 \in 0..L /\ (at - 1) + 1 \in At(full)
    BY <1>4, <1>10, <1>5
  <2>2. \A m \in 0..L : m + 1 \in At(full) => m = at - 1
    BY <1>4, <1>10, <1>5
  <2>3. Before(full) = CHOOSE m \in 0..L : m + 1 \in At(full)
    BY <1>3
  <2> HIDE DEF At, Before
  <2> QED BY <2>1, <2>2, <2>3
<1>14. Before(c) = at - start
  <2>1. at - start \in 0..n /\ (at - start) + 1 \in At(c)
    BY <1>4, <1>11, <1>5, <1>6
  <2>2. \A m \in 0..n : m + 1 \in At(c) => m = at - start
    BY <1>4, <1>11, <1>5, <1>6
  <2>3. Before(c) = CHOOSE m \in 0..n : m + 1 \in At(c)
    BY <1>3
  <2> HIDE DEF At, Before
  <2> QED BY <2>1, <2>2, <2>3
<1>15. Before(c) < MaxContext \div 2 => Before(c) = Before(full)
  BY <1>1, <1>2, <1>13, <1>14
<1>16. \E k \in 0..L : \A i \in DOMAIN c : c[i] = full[k + i]
  <2> DEFINE k == start - 1
  <2>1. k \in 0..L /\ \A i \in 1..n : start + i - 1 = k + i
    BY <1>4, <1>5
  <2>2. \A i \in 1..n : c[i] = full[k + i]
    BY <1>2, <2>1
  <2> HIDE DEF k
  <2> QED BY <1>4, <2>1, <2>2
<1>17. Len(c) = IF Len(full) > MaxContext THEN MaxContext ELSE Len(full)
  BY <1>2 DEF n, L
<1> HIDE DEF At
<1>18. Shows(msgs, full, c, best)
  BY <1>3, <1>8, <1>9, <1>12, <1>15, <1>16, <1>17, Zenon DEF Shows, At
<1>19. \A i \in DOMAIN c : \E j \in DOMAIN full : c[i] = full[j]
  BY <1>2, <1>4, <1>7
<1> QED BY <1>18, <1>19 DEF c
\* Pick: the context of the post shows the quote, and holds only the quote and what the
\* model chose.
LEMMA PickShowsQuote ==
  ASSUME NEW msgs \in Seq(Message), NEW answer \in AnswerType,
         \A p, q \in answer.quote : p = q, NormalizeScores(msgs, answer.entries).ok,
         NEW res, res = ParsedAnswer(msgs, answer),
         NEW context, context = Picked(msgs, res).context, context # <<>>
  PROVE  /\ \E q \in res.quote : \E id \in Best(msgs, res) :
              Shows(msgs, Selection(msgs, q, id), context, id)
         /\ \A i \in DOMAIN context :
              /\ context[i] \in Ids(msgs)
              /\ context[i] \in Best(msgs, res) \/ InContext(res.quote, context[i])
<1> DEFINE best == Best(msgs, res)
           id == CHOOSE i \in best : TRUE
           q == CHOOSE p \in res.quote : TRUE
           full == Selection(msgs, q, id)
<1>1. best # {} /\ context = ValidContext(msgs, res.quote, id)
  <2>1. CASE best = {}
    BY <2>1 DEF Picked, NoPick
  <2>2. CASE best # {}
    BY <2>2 DEF Picked
  <2> QED BY <2>1, <2>2
<1>2. id \in best /\ best \subseteq Ids(msgs) /\ id \in Ids(msgs)
  BY <1>1, PickIsBest
<1> HIDE DEF id, best
<1>3. q \in res.quote /\ context = LimitContext(full, id)
  <2>1. CASE \E p \in res.quote : p.context # <<>> \/ p.needed
    BY <1>1, <2>1 DEF ValidContext
  <2>2. CASE ~\E p \in res.quote : p.context # <<>> \/ p.needed
    BY <1>1, <2>2 DEF ValidContext
  <2> QED BY <2>1, <2>2
<1> HIDE DEF q
<1>4. q.context \in Seq(Int)
  <2>1. PICK p \in answer.quote : q = ParseQuote(p)
    BY <1>3 DEF ParsedAnswer
  <2>2. p \in Choice
    BY DEF AnswerType
  <2> QED BY <2>1, <2>2, ContextType
<1>5. /\ full \in Seq(Int) /\ IsInjective(full)
      /\ \A i \in DOMAIN full : full[i] \in Ids(msgs)
      /\ \E at \in 1..Len(full) : full[at] = id
      /\ \A i \in DOMAIN full : full[i] = id \/ full[i] \in Range(q.context)
  BY <1>2, <1>4, SelectionFacts
<1> HIDE DEF full
<1>6. /\ Shows(msgs, full, LimitContext(full, id), id)
      /\ \A i \in DOMAIN LimitContext(full, id) :
           \E j \in DOMAIN full : LimitContext(full, id)[i] = full[j]
  BY <1>5, WindowShows
<1>7. Shows(msgs, Selection(msgs, q, id), context, id)
  BY <1>3, <1>6 DEF full
<1>8. \A i \in DOMAIN context :
        /\ context[i] \in Ids(msgs)
        /\ context[i] = id \/ context[i] \in Range(q.context)
  BY <1>3, <1>5, <1>6
<1>9. \A i \in DOMAIN context :
        /\ context[i] \in Ids(msgs)
        /\ context[i] \in best \/ InContext(res.quote, context[i])
  BY <1>2, <1>3, <1>8 DEF InContext
<1> QED BY <1>2, <1>3, <1>7, <1>9 DEF best

(***************************************************************************)
(* The rows of the report                                                  *)
(***************************************************************************)
LEMMA ScoreType ==
  ASSUME NEW scores \in Seq(Score), NEW id
  PROVE  ScoreOf(scores, id, 0) \in Int
<1>1. \A i \in DOMAIN scores : scores[i].value \in Int
  <2>1. \A i \in DOMAIN scores : scores[i] \in Score
    OBVIOUS
  <2>2. \A x \in Score : x.value \in Int
    BY DEF Score
  <2> QED BY <2>1, <2>2
<1> DEFINE at == Position(scores, id)
           k == CHOOSE i \in at : TRUE
<1>2. CASE at = {}
  <2>1. ScoreOf(scores, id, 0) = 0
    BY <1>2 DEF ScoreOf
  <2> QED BY <2>1
<1>3. CASE at # {}
  <2>1. k \in at
    BY <1>3
  <2>2. k \in DOMAIN scores
    BY <2>1 DEF Position
  <2>3. ScoreOf(scores, id, 0) = scores[k].value
    BY <1>3 DEF ScoreOf
  <2> QED BY <1>1, <2>2, <2>3
<1> QED BY <1>2, <1>3

\* The table of an accepted answer holds what the answer says of a message of the day.
LEMMA ScoreIsListed ==
  ASSUME NEW msgs \in Seq(Message), NEW entries \in Seq(Entry), NEW scores \in Seq(Score),
         TableOf(msgs, entries, Len(entries), scores), NEW id \in Ids(msgs), NEW absent
  PROVE  /\ Position(scores, id) # {} <=> Listed(entries, id) # {}
         /\ ScoreOf(scores, id, absent) =
              IF Listed(entries, id) = {} THEN absent ELSE LastScore(entries, id)
<1> DEFINE at == Position(scores, id)
           k == CHOOSE i \in at : TRUE
<1>1. /\ \A i \in DOMAIN scores : /\ Listed(entries, scores[i].id) # {}
                                 /\ LastScore(entries, scores[i].id) = scores[i].value
      /\ Listed(entries, id) # {} => \E i \in DOMAIN scores : scores[i].id = id
  BY WholeAnswer
<1>2. \A i : i \in at <=> i \in DOMAIN scores /\ scores[i].id = id
  BY DEF Position
<1>3. at # {} <=> Listed(entries, id) # {}
  BY <1>1, <1>2
<1>4. CASE at = {}
  BY <1>3, <1>4 DEF ScoreOf
<1>5. CASE at # {}
  <2>1. k \in at
    BY <1>5
  <2>2. ScoreOf(scores, id, absent) = scores[k].value
    BY <1>5 DEF ScoreOf
  <2>3. scores[k].value = LastScore(entries, id)
    BY <1>1, <1>2, <2>1
  <2> QED BY <1>3, <1>5, <2>2, <2>3
<1> QED BY <1>3, <1>4, <1>5

\* The rows and the quote of one answer carry its scores.
LEMMA ScoresAgree ==
  ASSUME NEW msgs \in Seq(Message), NEW answer, answer.entries \in Seq(Entry),
         NEW res, res.scores \in Seq(Score),
         TableOf(msgs, answer.entries, Len(answer.entries), res.scores),
         NEW pick, pick.best \subseteq Ids(msgs),
         \A id \in pick.best : pick.score = ScoreOf(res.scores, id, 10)
  PROVE  ScoresMatch(msgs, answer, RowsOf(msgs, res, pick), pick)
<1> DEFINE K == {i \in DOMAIN msgs : Recorded(res, pick, msgs[i])}
           kept == SelectAt(msgs, K)
           n == Cardinality(K)
           table == RowsOf(msgs, res, pick)
<1>1. K \subseteq DOMAIN msgs
  OBVIOUS
<1>2. \A id \in Ids(msgs) : Position(res.scores, id) # {} => \E k \in K : msgs[k].id = id
  BY DEF Ids, Recorded
<1>3. table = [i \in DOMAIN kept |->
                 [id |-> kept[i].id,
                  score |-> ScoreOf(res.scores, kept[i].id, 0),
                  rank |-> Cardinality(Above(res.scores, kept, i)) + 1,
                  primary |-> kept[i].id \in pick.best,
                  inContext |-> InContext(res.quote, kept[i].id)]]
  BY DEF RowsOf
<1>4. \A k \in K : msgs[k].id \in Ids(msgs)
  BY DEF Ids
<1> HIDE DEF K
<1>5. DOMAIN kept = 1..n
  BY <1>1, Selects
<1>6. PICK pos : Keeps(msgs, K, pos)
  BY <1>1, Selects
<1>7. /\ \A k \in K : \E i \in 1..n : kept[i] = msgs[k]
      /\ \A i \in 1..n : kept[i].id \in Ids(msgs)
  BY <1>4, <1>6 DEF Keeps
<1> HIDE DEF kept, n
<1>8. \A i \in 1..n : /\ table[i].id = kept[i].id
                      /\ table[i].score = ScoreOf(res.scores, kept[i].id, 0)
  BY <1>3, <1>5
<1>9. DOMAIN table = 1..n
  BY <1>3, <1>5
<1> HIDE DEF table
<1>10. Range(table) = {table[i] : i \in 1..n}
  BY <1>9 DEF Range
<1>11. ASSUME NEW id \in Ids(msgs), Listed(answer.entries, id) # {}
       PROVE  \E r \in Range(table) : r.id = id
  <2>1. Position(res.scores, id) # {}
    BY <1>11, ScoreIsListed
  <2>2. PICK k \in K : msgs[k].id = id
    BY <1>2, <2>1
  <2>3. PICK i \in 1..n : kept[i] = msgs[k]
    BY <1>7
  <2> QED BY <1>8, <1>10, <2>2, <2>3
<1>12. ASSUME NEW i \in 1..n
       PROVE  table[i].score = ScoreInAnswer(answer, table[i].id, 0)
  <2>1. ScoreOf(res.scores, kept[i].id, 0) = ScoreInAnswer(answer, kept[i].id, 0)
    BY <1>7, ScoreIsListed DEF ScoreInAnswer
  <2> QED BY <1>8, <2>1
<1>13. ASSUME NEW id \in pick.best
       PROVE  pick.score = ScoreInAnswer(answer, id, 10)
  BY ScoreIsListed DEF ScoreInAnswer
<1>14. ScoresMatch(msgs, answer, table, pick)
  BY <1>10, <1>11, <1>12, <1>13 DEF ScoresMatch
<1> QED BY <1>14 DEF table

LEMMA RowsAgree ==
  ASSUME NEW msgs \in Seq(Message), NEW res, res.scores \in Seq(Score),
         NEW pick, pick.best \subseteq Ids(msgs),
         \A i \in DOMAIN pick.context :
           /\ pick.context[i] \in Ids(msgs)
           /\ pick.context[i] \in pick.best \/ InContext(res.quote, pick.context[i])
  PROVE  RowsMatch(RowsOf(msgs, res, pick), pick)
<1> DEFINE K == {i \in DOMAIN msgs : Recorded(res, pick, msgs[i])}
           kept == SelectAt(msgs, K)
           n == Cardinality(K)
           w == [i \in 1..n |-> ScoreOf(res.scores, kept[i].id, 0)]
           table == RowsOf(msgs, res, pick)
<1>1. K \subseteq DOMAIN msgs
  OBVIOUS
<1>2. \A id \in Ids(msgs) :
        id \in pick.best \/ InContext(res.quote, id) => \E k \in K : msgs[k].id = id
  BY DEF Ids, Recorded
<1>3. table = [i \in DOMAIN kept |->
                 [id |-> kept[i].id,
                  score |-> ScoreOf(res.scores, kept[i].id, 0),
                  rank |-> Cardinality(Above(res.scores, kept, i)) + 1,
                  primary |-> kept[i].id \in pick.best,
                  inContext |-> InContext(res.quote, kept[i].id)]]
  BY DEF RowsOf
<1> HIDE DEF K
<1>4. kept \in Seq(Message) /\ DOMAIN kept = 1..n /\ n \in Nat
  BY <1>1, Selects
<1>5. PICK pos : Keeps(msgs, K, pos)
  BY <1>1, Selects
<1>6. \A k \in K : \E i \in 1..n : kept[i] = msgs[k]
  BY <1>5 DEF Keeps
<1> HIDE DEF kept, n
<1>7. \A i \in 1..n :
        /\ table[i].id = kept[i].id
        /\ table[i].score = w[i]
        /\ table[i].rank = Cardinality(Above(res.scores, kept, i)) + 1
        /\ table[i].primary = (kept[i].id \in pick.best)
        /\ table[i].inContext = InContext(res.quote, kept[i].id)
  BY <1>3, <1>4
<1>8. DOMAIN table = 1..n
  BY <1>3, <1>4
<1>9. w \in [1..n -> Int] /\ \A i \in 1..n : w[i] = ScoreOf(res.scores, kept[i].id, 0)
  BY ScoreType
<1> HIDE DEF w
<1>10. \A i \in 1..n : Above(res.scores, kept, i) = Ahead(1..n, w, i)
  BY <1>4, <1>9 DEF Above, Ahead
<1> HIDE DEF table
<1>11. Range(table) = {table[i] : i \in 1..n}
  BY <1>8 DEF Range
<1>12. {r.id : r \in {r \in Range(table) : r.primary}} = pick.best
  <2>1. ASSUME NEW id \in pick.best
        PROVE  \E i \in 1..n : table[i].primary /\ table[i].id = id
    <3>1. PICK k \in K : msgs[k].id = id
      BY <1>2
    <3>2. PICK i \in 1..n : kept[i] = msgs[k]
      BY <1>6
    <3> QED BY <1>7, <3>1, <3>2
  <2>2. \A i \in 1..n : table[i].primary => table[i].id \in pick.best
    BY <1>7
  <2> QED BY <1>11, <2>1, <2>2
<1>13. \A j \in DOMAIN pick.context :
         \E r \in Range(table) : r.id = pick.context[j] /\ (r.inContext \/ r.primary)
  <2> SUFFICES ASSUME NEW j \in DOMAIN pick.context
               PROVE  \E i \in 1..n : /\ table[i].id = pick.context[j]
                                      /\ table[i].inContext \/ table[i].primary
    BY <1>11
  <2>1. PICK k \in K : msgs[k].id = pick.context[j]
    BY <1>2
  <2>2. PICK i \in 1..n : kept[i] = msgs[k]
    BY <1>6
  <2>3. table[i].id = pick.context[j] /\ (table[i].inContext \/ table[i].primary)
    BY <1>7, <2>1, <2>2
  <2> QED BY <2>3
<1>14. /\ 1..n \in SUBSET Int /\ IsFiniteSet(1..n) /\ Cardinality(1..n) = n
  <2>1. IsFiniteSet(1..n) /\ Cardinality(1..n) = IF 1 > n THEN 0 ELSE n - 1 + 1
    BY <1>4, FS_Interval
  <2> QED BY <1>4, <2>1
<1>15. /\ \A i \in 1..n : Cardinality(Ahead(1..n, w, i)) \in 0..(n - 1)
       /\ \A i, j \in 1..n : Cardinality(Ahead(1..n, w, i)) < Cardinality(Ahead(1..n, w, j)) =>
            w[i] > w[j] \/ (w[i] = w[j] /\ i < j)
       /\ \A m \in 1..n : \E i \in 1..n : Cardinality(Ahead(1..n, w, i)) = m - 1
  <2> DEFINE S == 1..n
  <2>1. S \in SUBSET Int /\ IsFiniteSet(S) /\ Cardinality(S) = n /\ w \in [S -> Int]
    BY <1>9, <1>14
  <2> HIDE DEF S
  <2>2. /\ \A i \in S : Cardinality(Ahead(S, w, i)) \in 0..(n - 1)
        /\ \A i, j \in S : Cardinality(Ahead(S, w, i)) < Cardinality(Ahead(S, w, j)) =>
             w[i] > w[j] \/ (w[i] = w[j] /\ i < j)
        /\ \A m \in 1..n : \E i \in S : Cardinality(Ahead(S, w, i)) = m - 1
    BY <2>1, Ranked
  <2> QED BY <2>2 DEF S
<1> DEFINE d == [i \in 1..n |-> Cardinality(Ahead(1..n, w, i))]
<1>16. /\ \A i \in 1..n : d[i] \in 0..(n - 1)
       /\ \A i, j \in 1..n : d[i] < d[j] => w[i] > w[j] \/ (w[i] = w[j] /\ i < j)
       /\ \A m \in 1..n : \E i \in 1..n : d[i] = m - 1
       /\ \A i \in 1..n : table[i].rank = d[i] + 1
  BY <1>7, <1>10, <1>15
<1> HIDE DEF d
<1>17. {r.rank : r \in Range(table)} = DOMAIN table
  <2>1. \A i \in 1..n : table[i].rank \in 1..n
    <3> SUFFICES ASSUME NEW i \in 1..n PROVE table[i].rank \in 1..n
      OBVIOUS
    <3>1. d[i] \in 0..(n - 1) /\ table[i].rank = d[i] + 1
      BY <1>16
    <3> QED BY <1>4, <3>1
  <2>2. ASSUME NEW m \in 1..n
        PROVE  \E i \in 1..n : table[i].rank = m
    <3>1. PICK i \in 1..n : d[i] = m - 1
      BY <1>16
    <3>2. table[i].rank = (m - 1) + 1
      BY <1>16, <3>1
    <3>3. m \in Int
      OBVIOUS
    <3> QED BY <3>2, <3>3
  <2> QED BY <1>8, <1>11, <2>1, <2>2
<1>18. ASSUME NEW i \in 1..n, NEW j \in 1..n, table[i].rank < table[j].rank
       PROVE  table[i].score > table[j].score \/ (table[i].score = table[j].score /\ i < j)
  <2>1. /\ d[i] \in 0..(n - 1) /\ table[i].rank = d[i] + 1
        /\ d[j] \in 0..(n - 1) /\ table[j].rank = d[j] + 1
    BY <1>16
  <2>2. d[i] < d[j]
    BY <1>4, <1>18, <2>1
  <2>3. w[i] > w[j] \/ (w[i] = w[j] /\ i < j)
    BY <1>16, <2>2
  <2> QED BY <1>7, <2>3
<1>19. RowsMatch(table, pick)
  BY <1>8, <1>12, <1>13, <1>17, <1>18 DEF RowsMatch
<1> QED BY <1>19 DEF table

(***************************************************************************)
(* The behaviours                                                          *)
(***************************************************************************)
\* The inductive invariant: every stage is made from the window and the answer by the
\* steps before it, and an answer that goes on was accepted.
AnswersInv ==
  /\ source \in Sources /\ reply \in Replies /\ day = Prepare(source)
  /\ stage \in {"asked", "failed", "parsed", "picked", "recorded"}
  /\ stage \in {"parsed", "picked", "recorded"} =>
       NormalizeScores(day, reply.entries).ok /\ result = ParsedAnswer(day, reply)
  /\ stage \in {"asked", "failed", "parsed"} => picked = NoPick
  /\ stage \in {"picked", "recorded"} => picked = Picked(day, result)
  /\ stage = "recorded" => rows = RowsOf(day, result, picked)

LEMMA DayType ==
  ASSUME NEW msgs \in Sources
  PROVE  Prepare(msgs) \in Seq(Message)
<1> DEFINE K == {i \in DOMAIN msgs : ~msgs[i].tagged}
           kept == SelectAt(msgs, K)
           n == Len(kept) - MaxMessages + 1
<1>1. msgs \in Seq(Message) /\ MaxMessages \in Nat /\ MaxMessages >= 1 /\ K \subseteq DOMAIN msgs
  BY AnswersAssumption
<1>2. Prepare(msgs) = IF Len(kept) > MaxMessages THEN SubSeq(kept, n, Len(kept)) ELSE kept
  BY DEF Prepare
<1> HIDE DEF K
<1>3. kept \in Seq(Message)
  BY <1>1, Selects
<1> HIDE DEF kept
<1>4. Len(kept) > MaxMessages => SubSeq(kept, n, Len(kept)) \in Seq(Message)
  <2> SUFFICES ASSUME Len(kept) > MaxMessages PROVE SubSeq(kept, n, Len(kept)) \in Seq(Message)
    OBVIOUS
  <2>1. n \in 1..Len(kept) + 1 /\ Len(kept) \in n - 1..Len(kept)
    BY <1>1, <1>3
  <2> HIDE DEF n
  <2> QED BY <1>3, <2>1, SubSeqProperties
<1> QED BY <1>2, <1>3, <1>4

LEMMA AnswersInvariant == AnswersSpec => []AnswersInv
<1>1. AnswersInit => AnswersInv
  BY DEF AnswersInit, AnswersInv
<1>2. AnswersInv /\ [AnswersNext]_answersVars => AnswersInv'
  <2> SUFFICES ASSUME AnswersInv, [AnswersNext]_answersVars
               PROVE  AnswersInv'
    OBVIOUS
  <2>1. CASE ParseEvaluation
    BY <2>1 DEF AnswersInv, ParseEvaluation
  <2>2. CASE Pick
    BY <2>2 DEF AnswersInv, Pick
  <2>3. CASE ScoreRows
    BY <2>3 DEF AnswersInv, ScoreRows
  <2>4. CASE UNCHANGED answersVars
    BY <2>4 DEF AnswersInv, answersVars
  <2> QED BY <2>1, <2>2, <2>3, <2>4 DEF AnswersNext
<1> QED BY <1>1, <1>2, PTL DEF AnswersSpec

\* What the lemmas about Pick and the rows need.
LEMMA AnswersTypes ==
  ASSUME AnswersInv
  PROVE  /\ day \in Seq(Message) /\ reply \in AnswerType
         /\ \A p, q \in reply.quote : p = q
         /\ stage \in {"parsed", "picked", "recorded"} =>
              NormalizeScores(day, reply.entries).ok /\ result.scores \in Seq(Score)
<1>1. day \in Seq(Message)
  BY DayType DEF AnswersInv
<1>2. reply \in AnswerType /\ \A p, q \in reply.quote : p = q
  BY AnswersAssumption DEF AnswersInv, AnswerType
<1>3. ASSUME stage \in {"parsed", "picked", "recorded"}
      PROVE  NormalizeScores(day, reply.entries).ok /\ result.scores \in Seq(Score)
  <2>1. NormalizeScores(day, reply.entries).ok /\ result = ParsedAnswer(day, reply)
    BY <1>3 DEF AnswersInv
  <2>2. reply.entries \in Seq(Entry)
    BY <1>2 DEF AnswerType
  <2>3. NormalizeScores(day, reply.entries).scores \in Seq(Score)
    BY <1>1, <2>1, <2>2, ParserIsRight
  <2>4. result.scores = NormalizeScores(day, reply.entries).scores
    BY <2>1 DEF ParsedAnswer
  <2> QED BY <2>1, <2>3, <2>4
<1> QED BY <1>1, <1>2, <1>3

LEMMA QuoteFollows ==
  ASSUME AnswersInv
  PROVE  QuoteIsBest
<1> SUFFICES ASSUME stage \in {"picked", "recorded"}
             PROVE  BestOfAnswer(day, reply, picked.best)
  BY DEF QuoteIsBest
<1>1. picked = Picked(day, result) /\ result = ParsedAnswer(day, reply)
  BY DEF AnswersInv
<1>2. BestOfAnswer(day, reply, Picked(day, ParsedAnswer(day, reply)).best)
  BY AnswersTypes, PickIsBest
<1> QED BY <1>1, <1>2

LEMMA ReportFollows ==
  ASSUME AnswersInv
  PROVE  ReportAgrees
<1> DEFINE chosen == stage \in {"picked", "recorded"}
           best == Best(day, result)
<1>1. chosen => /\ picked = Picked(day, result) /\ result = ParsedAnswer(day, reply)
                /\ NormalizeScores(day, reply.entries).ok
  BY DEF AnswersInv
<1>2. chosen => picked.best = best /\ best \subseteq Ids(day)
  <2> SUFFICES ASSUME chosen PROVE picked.best = best /\ best \subseteq Ids(day)
    OBVIOUS
  <2>1. /\ Picked(day, ParsedAnswer(day, reply)).best = Best(day, ParsedAnswer(day, reply))
        /\ Best(day, ParsedAnswer(day, reply)) \subseteq Ids(day)
    BY <1>1, AnswersTypes, PickIsBest
  <2> QED BY <1>1, <2>1
<1>3. ASSUME chosen, picked.context # <<>>
      PROVE  /\ \E q \in result.quote : \E id \in best :
                  Shows(day, Selection(day, q, id), picked.context, id)
             /\ \A i \in DOMAIN picked.context :
                  /\ picked.context[i] \in Ids(day)
                  /\ picked.context[i] \in best \/ InContext(result.quote, picked.context[i])
  <2>1. picked.context = Picked(day, result).context
    BY <1>1, <1>3
  <2> QED BY <1>1, <1>3, <2>1, AnswersTypes, PickShowsQuote
<1>4. ContextAroundQuote
  <2> SUFFICES ASSUME picked.context # <<>>
               PROVE  \E q \in result.quote : \E id \in picked.best :
                        Shows(day, Selection(day, q, id), picked.context, id)
    BY DEF ContextAroundQuote
  <2>1. chosen
    BY DEF AnswersInv, NoPick
  <2> QED BY <1>2, <1>3, <2>1
<1>5. ReportMatchesQuote
  <2> SUFFICES ASSUME stage = "recorded"
               PROVE  RowsMatch(rows, picked) /\ ScoresMatch(day, reply, rows, picked)
    BY DEF ReportMatchesQuote
  <2>1. chosen /\ rows = RowsOf(day, result, picked)
    BY DEF AnswersInv
  <2>2. \A i \in DOMAIN picked.context :
          /\ picked.context[i] \in Ids(day)
          /\ picked.context[i] \in picked.best \/ InContext(result.quote, picked.context[i])
    <3>1. CASE picked.context = <<>>
      BY <3>1
    <3>2. CASE picked.context # <<>>
      BY <1>2, <1>3, <2>1, <3>2
    <3> QED BY <3>1, <3>2
  <2>3. day \in Seq(Message) /\ result.scores \in Seq(Score) /\ picked.best \subseteq Ids(day)
    BY <1>2, <2>1, AnswersTypes
  <2>4. RowsMatch(rows, picked)
    BY <2>1, <2>2, <2>3, RowsAgree
  <2>5. reply.entries \in Seq(Entry) /\ NormalizeScores(day, reply.entries).ok
    BY <1>1, <2>1, AnswersTypes DEF AnswerType
  <2>6. result.scores = NormalizeScores(day, reply.entries).scores
    BY <1>1, <2>1 DEF ParsedAnswer
  <2>7. TableOf(day, reply.entries, Len(reply.entries), result.scores)
    BY <2>3, <2>5, <2>6, ParserIsRight
  <2>8. \A id \in picked.best : picked.score = ScoreOf(result.scores, id, 10)
    <3> SUFFICES ASSUME NEW id \in best PROVE picked.score = ScoreOf(result.scores, id, 10)
      BY <1>2, <2>1
    <3> DEFINE c == CHOOSE i \in best : TRUE
    <3>1. picked.score = ScoreOf(result.scores, c, 10)
      BY <1>1, <2>1 DEF Picked
    <3>2. \A one, other \in best : one = other
      BY <1>1, <2>1, AnswersTypes, PickIsBest
    <3>3. c = id
      BY <3>2
    <3> QED BY <3>1, <3>3
  <2>9. ScoresMatch(day, reply, rows, picked)
    BY <2>1, <2>3, <2>5, <2>7, <2>8, ScoresAgree
  <2> QED BY <2>4, <2>9
<1> QED BY <1>4, <1>5 DEF ReportAgrees

\* Whatever the window and the answer, the quote is the one that Pick promises: the
\* model's own if it can be the quote, else the best of those the answer scores
\* (parse.go:106, scoring.go:208).
THEOREM QuoteAlwaysBest == AnswersSpec => []QuoteIsBest
<1>1. AnswersInv => QuoteIsBest
  BY QuoteFollows
<1> QED BY <1>1, AnswersInvariant, PTL

\* Whatever the window and the answer, the context of the post shows the quote, and the
\* rows of the report agree with the post and with the scores of the answer, but for the
\* score of a quote the answer does not score (scoring.go:302, pgreports.go:308).
THEOREM ReportAlwaysAgrees == AnswersSpec => []ReportAgrees
<1>1. AnswersInv => ReportAgrees
  BY ReportFollows
<1> QED BY <1>1, AnswersInvariant, PTL
================================================================================
