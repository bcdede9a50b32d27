--------------------------- MODULE LlmTurnProofs ---------------------------
(***************************************************************************)
(* What holds of LlmTurn for any set of processes, tracks and memory, and  *)
(* whatever the model answers.                                             *)
(***************************************************************************)
EXTENDS LlmTurn, Integers, FiniteSetTheorems, TLAPS

-----------------------------------------------------------------------------
\* Sorting.

StrictOrder(S, R) ==
    /\ \A x \in S : <<x, x>> \notin R
    /\ \A x, y, z \in S : <<x, y>> \in R /\ <<y, z>> \in R => <<x, z>> \in R
    /\ \A x, y \in S : x # y => <<x, y>> \in R \/ <<y, x>> \in R

Below(S, R, x) == {y \in S : <<y, x>> \in R}

LEMMA BelowCounts ==
    ASSUME NEW S, IsFiniteSet(S), NEW R, StrictOrder(S, R)
    PROVE  /\ \A x \in S : /\ IsFiniteSet(Below(S, R, x))
                           /\ Cardinality(Below(S, R, x)) \in 0..(Cardinality(S) - 1)
           /\ \A x, y \in S : <<x, y>> \in R =>
                 Cardinality(Below(S, R, x)) < Cardinality(Below(S, R, y))
  <1>0. Cardinality(S) \in Nat
    BY FS_CardinalityType
  <1>1. ASSUME NEW x \in S
        PROVE  /\ IsFiniteSet(Below(S, R, x))
               /\ Cardinality(Below(S, R, x)) \in 0..(Cardinality(S) - 1)
    <2>1. Below(S, R, x) \subseteq S \ {x}
      BY DEF Below, StrictOrder
    <2>2. IsFiniteSet(S \ {x}) /\ Cardinality(S \ {x}) = Cardinality(S) - 1
      BY FS_RemoveElement
    <2>3. /\ IsFiniteSet(Below(S, R, x))
          /\ Cardinality(Below(S, R, x)) <= Cardinality(S) - 1
      BY <2>1, <2>2, FS_Subset
    <2>4. Cardinality(Below(S, R, x)) \in Nat
      BY <2>3, FS_CardinalityType
    <2>5. QED
      BY <1>0, <2>3, <2>4
  <1>2. ASSUME NEW x \in S, NEW y \in S, <<x, y>> \in R
        PROVE  Cardinality(Below(S, R, x)) < Cardinality(Below(S, R, y))
    <2>1. Below(S, R, x) \subseteq Below(S, R, y)
      BY <1>2 DEF Below, StrictOrder
    <2>2. Below(S, R, x) # Below(S, R, y)
      BY <1>2 DEF Below, StrictOrder
    <2>3. Cardinality(Below(S, R, x)) <= Cardinality(Below(S, R, y))
          /\ Cardinality(Below(S, R, x)) # Cardinality(Below(S, R, y))
      BY <1>1, <2>1, <2>2, FS_Subset
    <2>4. QED
      BY <1>1, <2>3
  <1>3. QED
    BY <1>1, <1>2

\* InOrder lists every member once, in the order.
LEMMA InOrderSorts ==
    ASSUME NEW S, IsFiniteSet(S), NEW R, StrictOrder(S, R),
           NEW s, s = InOrder(S, R)
    PROVE  /\ s \in Seq(S)
           /\ Len(s) = Cardinality(S)
           /\ DOMAIN s = 1..Cardinality(S)
           /\ ToSet(s) = S
           /\ \A i, j \in DOMAIN s : i < j => s[i] # s[j] /\ <<s[i], s[j]>> \in R
  <1> DEFINE n == Cardinality(S)
             rank == [x \in S |-> Cardinality(Below(S, R, x)) + 1]
  <1>0. n \in Nat
    BY FS_CardinalityType
  <1>1. /\ \A x \in S : Cardinality(Below(S, R, x)) \in 0..(n - 1)
        /\ \A x, y \in S : <<x, y>> \in R =>
              Cardinality(Below(S, R, x)) < Cardinality(Below(S, R, y))
    BY BelowCounts
  <1>2. rank \in [S -> 1..n] /\ \A x, y \in S : <<x, y>> \in R => rank[x] < rank[y]
    BY <1>0, <1>1
  <1>3. rank \in Injection(S, 1..n)
    <2>1. \A x, y \in S : rank[x] = rank[y] => x = y
      <3> SUFFICES ASSUME NEW x \in S, NEW y \in S, x # y PROVE rank[x] # rank[y]
        OBVIOUS
      <3>1. <<x, y>> \in R \/ <<y, x>> \in R
        BY DEF StrictOrder
      <3> HIDE DEF rank
      <3>2. QED
        BY <1>2, <3>1
    <2> HIDE DEF rank
    <2>2. QED
      BY <1>2, <2>1 DEF Injection, IsInjective
  <1>4. rank \in Surjection(S, 1..n)
    <2>1. IsFiniteSet(1..n) /\ Cardinality(1..n) = n
      BY <1>0, FS_Interval
    <2> HIDE DEF rank
    <2>2. QED
      BY <1>3, <2>1, FS_Injection
  <1>5. \A i \in 1..n : \E x \in S : Cardinality(Below(S, R, x)) = i - 1
    <2> SUFFICES ASSUME NEW i \in 1..n
                 PROVE  \E x \in S : Cardinality(Below(S, R, x)) = i - 1
      OBVIOUS
    <2>1. PICK x \in S : rank[x] = i
      BY <1>4 DEF Surjection
    <2>2. QED
      BY <1>1, <2>1
  <1>6. /\ s = [i \in 1..n |-> CHOOSE x \in S : Cardinality(Below(S, R, x)) = i - 1]
        /\ DOMAIN s = 1..n
    BY DEF InOrder, Below
  <1>7. \A i \in 1..n : s[i] \in S /\ Cardinality(Below(S, R, s[i])) = i - 1
    BY <1>5, <1>6
  <1>8. s \in Seq(S) /\ Len(s) = n
    BY <1>0, <1>6, <1>7
  <1>9. \A i \in 1..n : rank[s[i]] = i
    BY <1>7
  <1>10. ToSet(s) = S
    <2>1. \A x \in S : rank[x] \in 1..n
      BY <1>2
    <2>2. \A x \in S : s[rank[x]] = x
      <3> SUFFICES ASSUME NEW x \in S PROVE s[rank[x]] = x
        OBVIOUS
      <3>1. rank[s[rank[x]]] = rank[x] /\ s[rank[x]] \in S
        BY <1>7, <1>9, <2>1
      <3> HIDE DEF rank
      <3>2. QED
        BY <1>3, <3>1 DEF Injection, IsInjective
    <2> HIDE DEF rank
    <2>3. QED
      BY <1>6, <1>7, <2>1, <2>2 DEF ToSet
  <1>11. \A i, j \in 1..n : i < j => s[i] # s[j] /\ <<s[i], s[j]>> \in R
    <2> SUFFICES ASSUME NEW i \in 1..n, NEW j \in 1..n, i < j
                 PROVE  s[i] # s[j] /\ <<s[i], s[j]>> \in R
      OBVIOUS
    <2>1. s[i] \in S /\ s[j] \in S /\ rank[s[i]] = i /\ rank[s[j]] = j
      BY <1>7, <1>9
    <2> HIDE DEF rank
    <2>2. s[i] # s[j] /\ <<s[j], s[i]>> \notin R
      BY <1>0, <1>2, <2>1
    <2>3. QED
      BY <2>1, <2>2 DEF StrictOrder
  <1>12. QED
    BY <1>6, <1>8, <1>10, <1>11

-----------------------------------------------------------------------------
\* The lists of the contracts.

LEMMA Positions ==
    ASSUME NEW P, NEW n \in Nat, P \subseteq 1..n,
           NEW R, R = {p \in P \X P : p[1] < p[2]}
    PROVE  /\ IsFiniteSet(P)
           /\ Cardinality(P) \in 0..n
           /\ StrictOrder(P, R)
  <1>1. IsFiniteSet(1..n) /\ Cardinality(1..n) = n
    BY FS_Interval
  <1>2. IsFiniteSet(P) /\ Cardinality(P) <= n
    BY <1>1, FS_Subset
  <1>3. Cardinality(P) \in Nat
    BY <1>2, FS_CardinalityType
  <1>4. \A x, y \in P : <<x, y>> \in R <=> x < y
    OBVIOUS
  <1>5. QED
    BY <1>2, <1>3, <1>4 DEF StrictOrder

\* AtPositions keeps the values at the positions, in their order.
LEMMA PositionsKept ==
    ASSUME NEW T, NEW s \in Seq(T), NEW P, P \subseteq DOMAIN s,
           NEW q, q = AtPositions(s, P)
    PROVE  /\ q \in Seq(T)
           /\ Len(q) = Cardinality(P)
           /\ DOMAIN q = 1..Cardinality(P)
           /\ ToSet(q) = {s[i] : i \in P}
           /\ \E kept \in [DOMAIN q -> P] :
                 /\ \A i \in DOMAIN q : q[i] = s[kept[i]]
                 /\ \A i, j \in DOMAIN q : i < j => kept[i] < kept[j]
  <1> DEFINE R == {p \in P \X P : p[1] < p[2]}
  <1>1. P \subseteq 1..Len(s) /\ Len(s) \in Nat
    OBVIOUS
  <1>2. IsFiniteSet(P) /\ Cardinality(P) \in Nat /\ StrictOrder(P, R)
    <2>1. PICK n \in Nat : P \subseteq 1..n
      BY <1>1
    <2>2. PICK order : order = R
      OBVIOUS
    <2>3. IsFiniteSet(P) /\ Cardinality(P) \in 0..n /\ StrictOrder(P, order)
      BY <2>1, <2>2, Positions
    <2>4. QED
      BY <2>2, <2>3
  <1>3. PICK kept : kept = InOrder(P, R)
    OBVIOUS
  <1>4. q = [i \in DOMAIN kept |-> s[kept[i]]]
    BY <1>3 DEF AtPositions
  <1> HIDE DEF R
  <1>5. /\ kept \in Seq(P)
        /\ Len(kept) = Cardinality(P)
        /\ DOMAIN kept = 1..Cardinality(P)
        /\ ToSet(kept) = P
        /\ \A i, j \in DOMAIN kept : i < j => <<kept[i], kept[j]>> \in R
    BY <1>2, <1>3, InOrderSorts
  <1>6. DOMAIN q = 1..Cardinality(P)
    BY <1>4, <1>5
  <1>7. kept \in [1..Cardinality(P) -> P] /\ \A i \in DOMAIN q : s[kept[i]] \in T
    BY <1>1, <1>5, <1>6
  <1>8. q \in Seq(T) /\ Len(q) = Cardinality(P)
    BY <1>2, <1>4, <1>5, <1>7
  <1>9. ToSet(q) = {s[i] : i \in P}
    BY <1>4, <1>5, <1>6 DEF ToSet
  <1>10. \A i, j \in DOMAIN q : i < j => kept[i] < kept[j]
    BY <1>5, <1>6 DEF R
  <1>11. QED
    BY <1>4, <1>6, <1>7, <1>8, <1>9, <1>10

\* A value of a list has a first position.
LEMMA FirstPosition ==
    ASSUME NEW T, NEW s \in Seq(T), NEW x \in ToSet(s)
    PROVE  \E i \in DOMAIN s : s[i] = x /\ \A j \in 1..(i - 1) : s[j] # x
  <1> DEFINE P == {i \in DOMAIN s : s[i] = x}
             R == {p \in P \X P : p[1] < p[2]}
  <1>1. P \subseteq 1..Len(s) /\ Len(s) \in Nat /\ P # {}
    BY DEF ToSet
  <1>2. IsFiniteSet(P) /\ Cardinality(P) \in Nat /\ StrictOrder(P, R)
    <2>1. PICK n \in Nat : P \subseteq 1..n
      BY <1>1
    <2>2. PICK order : order = R
      OBVIOUS
    <2> HIDE DEF P
    <2>3. IsFiniteSet(P) /\ Cardinality(P) \in 0..n /\ StrictOrder(P, order)
      BY <2>1, <2>2, Positions
    <2>4. QED
      BY <2>2, <2>3
  <1>3. PICK kept : kept = InOrder(P, R)
    OBVIOUS
  <1>4. /\ DOMAIN kept = 1..Cardinality(P)
        /\ ToSet(kept) = P
        /\ \A i, j \in DOMAIN kept : i < j => <<kept[i], kept[j]>> \in R
    <2> HIDE DEF P, R
    <2> QED
      BY <1>2, <1>3, InOrderSorts
  <1>5. Cardinality(P) # 0
    <2> HIDE DEF P
    <2> QED
      BY <1>1, <1>2, FS_EmptySet
  <1>6. 1 \in DOMAIN kept
    BY <1>2, <1>4, <1>5
  <1>7. kept[1] \in P
    <2> HIDE DEF P
    <2> QED
      BY <1>4, <1>6 DEF ToSet
  <1>8. \A y \in P : kept[1] <= y
    <2> SUFFICES ASSUME NEW y \in P PROVE kept[1] <= y
      OBVIOUS
    <2>1. PICK j \in DOMAIN kept : kept[j] = y
      BY <1>4 DEF ToSet
    <2>2. CASE j = 1
      BY <1>1, <1>7, <2>1, <2>2
    <2>3. CASE j # 1
      <3>1. <<kept[1], kept[j]>> \in R
        BY <1>2, <1>4, <1>6, <2>3
      <3>2. QED
        BY <1>1, <1>7, <2>1, <3>1
    <2>4. QED
      BY <2>2, <2>3
  <1>9. \A j \in 1..(kept[1] - 1) : s[j] # x
    <2> SUFFICES ASSUME NEW j \in 1..(kept[1] - 1), s[j] = x PROVE FALSE
      OBVIOUS
    <2>1. j \in P /\ j < kept[1] /\ kept[1] \in Nat
      BY <1>1, <1>7
    <2>2. QED
      BY <1>1, <1>8, <2>1
  <1>10. QED
    BY <1>7, <1>9

IsFirst(s, i) == \A j \in 1..(i - 1) : s[j] # s[i]

\* `q` holds the values of first positions of `s`, in their order.
FromFirsts(q, s) ==
    \E kept \in [DOMAIN q -> DOMAIN s] :
       /\ \A i \in DOMAIN q : q[i] = s[kept[i]] /\ IsFirst(s, kept[i])
       /\ \A i, j \in DOMAIN q : i < j => kept[i] < kept[j]

\* Dedupe keeps every value once, by first position.
LEMMA DedupeKeeps ==
    ASSUME NEW T, NEW s \in Seq(T), NEW q, q = Dedupe(s)
    PROVE  /\ q \in Seq(T)
           /\ ToSet(q) = ToSet(s)
           /\ \A i, j \in DOMAIN q : i # j => q[i] # q[j]
           /\ FromFirsts(q, s)
  <1> DEFINE P == {i \in DOMAIN s : IsFirst(s, i)}
  <1>1. q = AtPositions(s, P)
    BY DEF Dedupe, IsFirst
  <1>2. P \subseteq DOMAIN s /\ \A i \in P : i \in 1..Len(s) /\ IsFirst(s, i)
    OBVIOUS
  <1>3. ToSet(s) = {s[i] : i \in P}
    <2>1. ASSUME NEW x \in ToSet(s) PROVE \E i \in P : s[i] = x
      BY <2>1, FirstPosition DEF IsFirst
    <2>2. QED
      BY <1>2, <2>1 DEF ToSet
  <1> HIDE DEF P
  <1>4. /\ q \in Seq(T)
        /\ ToSet(q) = {s[i] : i \in P}
    BY <1>1, <1>2, PositionsKept
  <1>5. PICK kept \in [DOMAIN q -> P] :
           /\ \A i \in DOMAIN q : q[i] = s[kept[i]]
           /\ \A i, j \in DOMAIN q : i < j => kept[i] < kept[j]
    BY <1>1, <1>2, PositionsKept
  <1>6. \A i, j \in DOMAIN q : i < j => q[i] # q[j]
    <2> SUFFICES ASSUME NEW i \in DOMAIN q, NEW j \in DOMAIN q, i < j PROVE q[i] # q[j]
      OBVIOUS
    <2>1. kept[i] \in 1..Len(s) /\ kept[j] \in 1..Len(s) /\ kept[i] < kept[j]
      BY <1>2, <1>5
    <2>2. IsFirst(s, kept[j])
      BY <1>2, <1>5
    <2>3. QED
      BY <1>5, <2>1, <2>2 DEF IsFirst
  <1>7. \A i, j \in DOMAIN q : i # j => q[i] # q[j]
    BY <1>4, <1>6
  <1>8. kept \in [DOMAIN q -> DOMAIN s] /\ \A i \in DOMAIN q : IsFirst(s, kept[i])
    BY <1>2, <1>5
  <1>9. QED
    BY <1>3, <1>4, <1>5, <1>7, <1>8 DEF FromFirsts

-----------------------------------------------------------------------------
\* The repair of the dialogue acts.

First(raw, a) == CHOOSE i \in DOMAIN raw : raw[i] = a /\ \A j \in 1..(i - 1) : raw[j] # a

Repaired(acts, raw) ==
    /\ acts # <<>> /\ ToSet(acts) \subseteq Stage0DialogueAct
    /\ \A i, j \in DOMAIN acts : i # j => acts[i] # acts[j]
    /\ ToSet(raw) \cap Stage0DialogueAct \subseteq ToSet(acts)
    /\ ToSet(acts) \subseteq ToSet(raw) \cup {"other"}
    /\ "other" \in ToSet(acts) <=>
           raw = <<>> \/ ~(ToSet(raw) \subseteq Stage0DialogueAct \ {"other"})
    /\ \A i, j \in DOMAIN acts :
           i < j /\ "other" \notin {acts[i], acts[j]} => First(raw, acts[i]) < First(raw, acts[j])

\* A list without values is empty.
LEMMA EmptyList ==
    ASSUME NEW T, NEW s \in Seq(T)
    PROVE  ToSet(s) = {} <=> s = <<>>
  <1>1. ToSet(s) = {} <=> DOMAIN s = {}
    BY DEF ToSet
  <1>2. DOMAIN s = 1..Len(s) /\ Len(s) \in Nat
    OBVIOUS
  <1>3. DOMAIN s = {} <=> Len(s) = 0
    <2>1. Len(s) # 0 => 1 \in DOMAIN s
      BY <1>2
    <2>2. Len(s) = 0 => DOMAIN s = {}
      BY <1>2
    <2>3. QED
      BY <2>1, <2>2
  <1>4. Len(s) = 0 <=> s = <<>>
    OBVIOUS
  <1>5. QED
    BY <1>1, <1>3, <1>4

\* The first position of a value is the only one.
LEMMA FirstIs ==
    ASSUME NEW T, NEW raw \in Seq(T), NEW i \in DOMAIN raw, IsFirst(raw, i)
    PROVE  First(raw, raw[i]) = i
  <1>1. \A j \in DOMAIN raw : raw[j] = raw[i] /\ (\A m \in 1..(j - 1) : raw[m] # raw[i]) => j = i
    <2> SUFFICES ASSUME NEW j \in DOMAIN raw, raw[j] = raw[i],
                        \A m \in 1..(j - 1) : raw[m] # raw[i],
                        j # i
                 PROVE  FALSE
      OBVIOUS
    <2>1. i \in 1..(j - 1) \/ j \in 1..(i - 1)
      OBVIOUS
    <2>2. QED
      BY <2>1 DEF IsFirst
  <1>2. QED
    BY <1>1 DEF First, IsFirst

LEMMA ActsAreRepaired ==
    ASSUME NEW p \in Stage0Payloads
    PROVE  /\ p.dialogue_acts \in Seq(STRING)
           /\ RepairedActs(p) \in Seq(Stage0DialogueAct)
           /\ Repaired(RepairedActs(p), p.dialogue_acts)
  <1>1. PICK raw \in Seq(STRING) : raw = p.dialogue_acts /\ (p.strings \/ raw = <<>>)
    BY PayloadsAssumption DEF Stage0Payload
  <1> DEFINE Known(a) == IF a \in Stage0DialogueAct THEN a ELSE "other"
  <1>2. PICK mapped : mapped = [i \in DOMAIN raw |-> Known(raw[i])]
    OBVIOUS
  <1>3. "other" \in Stage0DialogueAct
    BY DEF Stage0DialogueAct
  <1>4. /\ mapped \in Seq(Stage0DialogueAct)
        /\ DOMAIN mapped = DOMAIN raw
        /\ \A i \in DOMAIN raw : mapped[i] = Known(raw[i])
        /\ ToSet(mapped) = {Known(raw[i]) : i \in DOMAIN raw}
    BY <1>2, <1>3 DEF ToSet
  <1>5. PICK kept0 : kept0 = Dedupe(mapped)
    OBVIOUS
  <1>6. /\ kept0 \in Seq(Stage0DialogueAct)
        /\ ToSet(kept0) = ToSet(mapped)
        /\ \A i, j \in DOMAIN kept0 : i # j => kept0[i] # kept0[j]
    BY <1>4, <1>5, DedupeKeeps
  <1>7. RepairedActs(p) = IF p.strings /\ kept0 # <<>> THEN kept0 ELSE <<"other">>
    BY <1>1, <1>2, <1>5 DEF RepairedActs
  <1>8. kept0 = <<>> <=> raw = <<>>
    <2>1. ToSet(mapped) = {} <=> DOMAIN raw = {}
      BY <1>4
    <2>2. DOMAIN raw = {} <=> raw = <<>>
      OBVIOUS
    <2>3. QED
      BY <1>6, <2>1, <2>2, EmptyList
  <1>9. CASE raw = <<>>
    <2>1. RepairedActs(p) = <<"other">>
      BY <1>7, <1>8, <1>9
    <2>2. ToSet(<<"other">>) = {"other"} /\ ToSet(raw) = {}
      BY <1>9 DEF ToSet
    <2>3. Repaired(<<"other">>, raw)
      BY <1>3, <1>9, <2>2 DEF Repaired
    <2>4. QED
      BY <1>1, <1>3, <2>1, <2>3
  <1>10. CASE raw # <<>>
    <2>1. RepairedActs(p) = kept0 /\ kept0 # <<>>
      BY <1>1, <1>7, <1>8, <1>10
    <2>2. \A a \in Stage0DialogueAct \ {"other"} : a \in ToSet(kept0) <=> a \in ToSet(raw)
      BY <1>4, <1>6 DEF ToSet
    <2>3. "other" \in ToSet(kept0) <=> ~(ToSet(raw) \subseteq Stage0DialogueAct \ {"other"})
      BY <1>3, <1>4, <1>6 DEF ToSet
    <2>4. ToSet(kept0) \subseteq Stage0DialogueAct
      BY <1>3, <1>4, <1>6
    <2>5. "other" \in ToSet(raw) => "other" \in ToSet(kept0)
      BY <2>3
    <2>6. ASSUME NEW i \in DOMAIN kept0, NEW j \in DOMAIN kept0, i < j,
                 "other" \notin {kept0[i], kept0[j]}
          PROVE  First(raw, kept0[i]) < First(raw, kept0[j])
      <3>1. PICK kept \in [DOMAIN kept0 -> DOMAIN mapped] :
               /\ \A m \in DOMAIN kept0 : kept0[m] = mapped[kept[m]] /\ IsFirst(mapped, kept[m])
               /\ \A m, n \in DOMAIN kept0 : m < n => kept[m] < kept[n]
        <4>1. FromFirsts(kept0, mapped)
          BY <1>4, <1>5, DedupeKeeps
        <4>2. QED
          BY <4>1 DEF FromFirsts
      <3>2. ASSUME NEW m \in DOMAIN kept0, kept0[m] # "other"
            PROVE  First(raw, kept0[m]) = kept[m]
        <4>1. kept[m] \in DOMAIN raw /\ kept[m] \in 1..Len(raw)
          BY <1>4, <3>1
        <4>2. raw[kept[m]] = kept0[m] /\ kept0[m] \in Stage0DialogueAct
          BY <1>4, <3>1, <3>2, <4>1
        <4>3. IsFirst(raw, kept[m])
          <5> SUFFICES ASSUME NEW n \in 1..(kept[m] - 1), raw[n] = raw[kept[m]] PROVE FALSE
            BY DEF IsFirst
          <5>1. n \in DOMAIN raw
            BY <4>1
          <5>2. mapped[n] = mapped[kept[m]]
            BY <1>4, <4>1, <5>1
          <5>3. QED
            BY <3>1, <5>2 DEF IsFirst
        <4>4. QED
          BY <4>1, <4>2, <4>3, FirstIs
      <3>3. QED
        BY <2>6, <3>1, <3>2
    <2>7. Repaired(kept0, raw)
      BY <1>6, <1>10, <2>1, <2>2, <2>3, <2>4, <2>5, <2>6 DEF Repaired
    <2>8. QED
      BY <1>1, <1>6, <2>1, <2>7
  <1>11. QED
    BY <1>9, <1>10

-----------------------------------------------------------------------------
\* Rows are only added, and every stamp is new.

Turn(c) == [track : Tracks, role : {"user", "assistant"}, at : 1..c]
Analysis(n, c) == [turn : 1..n, summary : BOOLEAN, at : 1..c]

RowsTyped ==
    /\ clock \in Nat
    /\ whole \in 0..clock
    /\ turns \in Seq(Turn(clock))
    /\ analyses \in Seq(Analysis(Len(turns), clock))

Places == {"idle", "recent", "analysis", "signal", "nlu", "stage1", "select", "stage2",
           "stamp", "save"}

LocalsTyped ==
    /\ pc \in [Runs -> Places]
    /\ stage \in [Runs -> {1, 2}]
    /\ userTurn \in [Runs -> Nat]
    /\ recent \in [Runs -> Seq(Nat)]
    /\ previous \in [Runs -> Nat]
    /\ frame \in [Runs -> [raw : Seq(STRING), acts : Seq(Stage0DialogueAct)]]
    /\ decision1 \in [Runs -> Decision]
    /\ decision2 \in [Runs -> Decision]
    /\ chosen \in [Runs -> Seq(MemoryIds)]
    /\ rejected \in [Runs -> Seq(MemoryIds)]
    /\ stamp \in [Runs -> Nat]

\* It remembers nothing.
Blank(r) ==
    /\ pc[r] = "idle" /\ stage[r] = 1 /\ userTurn[r] = 0 /\ recent[r] = <<>>
    /\ previous[r] = 0 /\ frame[r] = NoFrame /\ decision1[r] = NoDecision
    /\ decision2[r] = NoDecision /\ chosen[r] = <<>> /\ rejected[r] = <<>> /\ stamp[r] = 0

\* What a process holds points at rows that are there.
Holds(r) ==
    /\ userTurn[r] \in 0..Len(turns)
    /\ pc[r] = "idle" <=> userTurn[r] = 0
    /\ userTurn[r] # 0 => turns[userTurn[r]].role = "user"
    /\ recent[r] \in Seq(1..Len(turns))
    /\ previous[r] \in 0..Len(analyses)
    /\ stamp[r] \in 0..clock
    /\ pc[r] = "save" => stamp[r] # 0
    /\ pc[r] = "idle" => Blank(r)

StampsDistinct ==
    /\ \A m, n \in DOMAIN turns : m # n => turns[m].at # turns[n].at
    /\ \A r \in Runs : pc[r] = "save" =>
          /\ \A n \in DOMAIN turns : turns[n].at # stamp[r]
          /\ \A v \in Runs : pc[v] = "save" /\ v # r => stamp[v] # stamp[r]
    /\ \A i, j \in DOMAIN analyses : i < j => analyses[i].at < analyses[j].at

Shape == RowsTyped /\ LocalsTyped /\ StampsDistinct /\ \A r \in Runs : Holds(r)

\* A process keeps all that it remembers.
Kept(r) ==
    /\ pc'[r] = pc[r] /\ stage'[r] = stage[r] /\ userTurn'[r] = userTurn[r]
    /\ recent'[r] = recent[r] /\ previous'[r] = previous[r] /\ frame'[r] = frame[r]
    /\ decision1'[r] = decision1[r] /\ decision2'[r] = decision2[r]
    /\ chosen'[r] = chosen[r] /\ rejected'[r] = rejected[r] /\ stamp'[r] = stamp[r]

Moves(r) == RunStep(r) \/ LlmCrash(r) \/ \E t \in Tracks : SaveUserTurn(r, t)

Grows ==
    /\ clock' \in Nat /\ clock <= clock' /\ whole' \in 0..clock'
    /\ whole' = whole \/ (whole = 0 /\ whole' > clock)
    /\ Len(turns) <= Len(turns') /\ \A n \in DOMAIN turns : turns'[n] = turns[n]
    /\ Len(analyses) <= Len(analyses') /\ \A i \in DOMAIN analyses : analyses'[i] = analyses[i]

LEMMA Appended ==
    ASSUME NEW X, NEW Y, X \subseteq Y, NEW s \in Seq(X), NEW e \in Y, NEW q, q = Append(s, e)
    PROVE  /\ q \in Seq(Y)
           /\ Len(q) = Len(s) + 1
           /\ DOMAIN q = 1..(Len(s) + 1)
           /\ \A i \in DOMAIN s : q[i] = s[i]
           /\ q[Len(s) + 1] = e
  OBVIOUS

LEMMA Wider ==
    ASSUME NEW X, NEW Y, X \subseteq Y, NEW s \in Seq(X)
    PROVE  s \in Seq(Y)
  OBVIOUS

LEMMA Stamped ==
    ASSUME clock \in Nat, whole \in 0..clock, NEW s, server_now(s)
    PROVE  /\ s = clock + 1 /\ clock' = clock + 1 /\ whole' \in 0..clock'
           /\ whole' = whole \/ (whole = 0 /\ whole' > clock)
  BY DEF server_now, Stamps

LEMMA TurnsWider ==
    ASSUME NEW c \in Nat, NEW d \in Nat, c <= d, NEW m \in Nat, NEW n \in Nat, m <= n
    PROVE  Turn(c) \subseteq Turn(d) /\ Analysis(m, c) \subseteq Analysis(n, d)
  BY DEF Turn, Analysis

LEMMA TurnMade ==
    ASSUME NEW c \in Nat, NEW t \in Tracks, NEW role \in {"user", "assistant"}, NEW s \in 1..c
    PROVE  [track |-> t, role |-> role, at |-> s] \in Turn(c)
  BY DEF Turn

LEMMA AnalysisMade ==
    ASSUME NEW c \in Nat, NEW n \in Nat, NEW m \in 1..n, NEW s \in 1..c, NEW b \in BOOLEAN
    PROVE  [turn |-> m, at |-> s, summary |-> b] \in Analysis(n, c)
  BY DEF Analysis

LEMMA RowsNext ==
    ASSUME Shape, [LlmNext]_vars
    PROVE  RowsTyped' /\ Grows
  <1> USE DEF Shape
  <1>0. /\ clock \in Nat /\ whole \in 0..clock
        /\ turns \in Seq(Turn(clock)) /\ Len(turns) \in Nat /\ DOMAIN turns = 1..Len(turns)
        /\ analyses \in Seq(Analysis(Len(turns), clock)) /\ Len(analyses) \in Nat
        /\ DOMAIN analyses = 1..Len(analyses)
    BY DEF RowsTyped
  <1>1. ASSUME UNCHANGED <<turns, analyses, clock, whole>> PROVE RowsTyped' /\ Grows
    BY <1>0, <1>1 DEF RowsTyped, Grows
  <1>2. ASSUME NEW r \in Runs, NEW t \in Tracks, SaveUserTurn(r, t) PROVE RowsTyped' /\ Grows
    <2>1. PICK s : /\ server_now(s)
                   /\ turns' = Append(turns, [track |-> t, role |-> "user", at |-> s])
                   /\ analyses' = analyses
      BY <1>2 DEF SaveUserTurn, AppendTurn
    <2>2. /\ s = clock + 1 /\ clock' = clock + 1 /\ whole' \in 0..clock'
          /\ whole' = whole \/ (whole = 0 /\ whole' > clock)
      BY <1>0, <2>1, Stamped
    <2>3. PICK e \in Turn(clock') : e = [track |-> t, role |-> "user", at |-> s]
      <3>1. clock' \in Nat /\ s \in 1..clock' /\ "user" \in {"user", "assistant"}
        BY <1>0, <2>2
      <3>2. [track |-> t, role |-> "user", at |-> s] \in Turn(clock')
        BY <3>1, TurnMade
      <3>3. QED
        BY <3>2
    <2>4. Turn(clock) \subseteq Turn(clock')
      BY <1>0, <2>2, TurnsWider
    <2>5. /\ turns' \in Seq(Turn(clock'))
          /\ Len(turns') = Len(turns) + 1
          /\ \A n \in DOMAIN turns : turns'[n] = turns[n]
      BY <1>0, <2>1, <2>3, <2>4, Appended
    <2>6. Analysis(Len(turns), clock) \subseteq Analysis(Len(turns'), clock')
      BY <1>0, <2>2, <2>5, TurnsWider
    <2>7. analyses' \in Seq(Analysis(Len(turns'), clock'))
      BY <1>0, <2>1, <2>6, Wider
    <2>8. QED
      BY <1>0, <2>1, <2>2, <2>5, <2>7 DEF RowsTyped, Grows
  <1>3. ASSUME NEW r \in Runs, StampAnswer(r) PROVE RowsTyped' /\ Grows
    <2>1. PICK s : server_now(s) /\ turns' = turns /\ analyses' = analyses
      BY <1>3 DEF StampAnswer, rows
    <2>2. /\ s = clock + 1 /\ clock' = clock + 1 /\ whole' \in 0..clock'
          /\ whole' = whole \/ (whole = 0 /\ whole' > clock)
      BY <1>0, <2>1, Stamped
    <2>3. /\ Turn(clock) \subseteq Turn(clock')
          /\ Analysis(Len(turns), clock) \subseteq Analysis(Len(turns'), clock')
      BY <1>0, <2>1, <2>2, TurnsWider
    <2>4. turns' \in Seq(Turn(clock')) /\ analyses' \in Seq(Analysis(Len(turns'), clock'))
      BY <1>0, <2>1, <2>3, Wider
    <2>5. QED
      BY <1>0, <2>1, <2>2, <2>4 DEF RowsTyped, Grows
  <1>4. ASSUME NEW r \in Runs, SaveAnswer(r) PROVE RowsTyped' /\ Grows
    <2>1. PICK s : /\ server_now(s)
                   /\ turns' = Append(turns, [track |-> TrackOf(r), role |-> "assistant",
                                              at |-> stamp[r]])
                   /\ analyses' = Append(analyses,
                         [turn |-> Len(turns) + 1, at |-> s,
                          summary |-> decision1[r].summary \/ decision2[r].summary])
      BY <1>4 DEF SaveAnswer, AppendTurn
    <2>2. /\ s = clock + 1 /\ clock' = clock + 1 /\ whole' \in 0..clock'
          /\ whole' = whole \/ (whole = 0 /\ whole' > clock)
      BY <1>0, <2>1, Stamped
    <2>3. stamp[r] \in 1..clock /\ userTurn[r] \in 1..Len(turns)
      BY <1>0, <1>4 DEF SaveAnswer, At, Holds
    <2>4. TrackOf(r) \in Tracks
      <3>1. turns[userTurn[r]] \in Turn(clock)
        BY <1>0, <2>3
      <3>2. QED
        BY <3>1 DEF TrackOf, Turn
    <2>5. PICK e \in Turn(clock') : e = [track |-> TrackOf(r), role |-> "assistant",
                                         at |-> stamp[r]]
      <3>1. clock' \in Nat /\ stamp[r] \in 1..clock' /\ "assistant" \in {"user", "assistant"}
        BY <1>0, <2>2, <2>3
      <3>2. [track |-> TrackOf(r), role |-> "assistant", at |-> stamp[r]] \in Turn(clock')
        BY <2>4, <3>1, TurnMade
      <3>3. QED
        BY <3>2
    <2>6. Turn(clock) \subseteq Turn(clock')
      BY <1>0, <2>2, TurnsWider
    <2>7. /\ turns' \in Seq(Turn(clock'))
          /\ Len(turns') = Len(turns) + 1
          /\ \A n \in DOMAIN turns : turns'[n] = turns[n]
      BY <1>0, <2>1, <2>5, <2>6, Appended
    <2>8. PICK b \in BOOLEAN : b = (decision1[r].summary \/ decision2[r].summary)
      OBVIOUS
    <2>9. PICK a \in Analysis(Len(turns'), clock') :
             a = [turn |-> Len(turns) + 1, at |-> s, summary |-> b]
      <3>1. /\ clock' \in Nat /\ s \in 1..clock'
            /\ Len(turns') \in Nat /\ Len(turns) + 1 \in 1..Len(turns')
        BY <1>0, <2>2, <2>7
      <3>2. [turn |-> Len(turns) + 1, at |-> s, summary |-> b] \in Analysis(Len(turns'), clock')
        BY <3>1, AnalysisMade
      <3>3. QED
        BY <3>2
    <2>10. Analysis(Len(turns), clock) \subseteq Analysis(Len(turns'), clock')
      BY <1>0, <2>2, <2>7, TurnsWider
    <2>11. /\ analyses' \in Seq(Analysis(Len(turns'), clock'))
           /\ Len(analyses') = Len(analyses) + 1
           /\ \A i \in DOMAIN analyses : analyses'[i] = analyses[i]
      BY <1>0, <2>1, <2>8, <2>9, <2>10, Appended
    <2>12. QED
      BY <1>0, <2>2, <2>7, <2>11 DEF RowsTyped, Grows
  <1>5. ASSUME NEW r \in Runs,
               \/ ReadRecent(r) \/ ReadAnalysis(r) \/ CaptureSignal(r) \/ RunNlu(r)
               \/ ProviderFails(r) \/ TimesOut(r) \/ Stage1(r) \/ SelectMemory(r) \/ Stage2(r)
               \/ SaveRaises(r) \/ LlmCrash(r)
        PROVE  UNCHANGED <<turns, analyses, clock, whole>>
    BY <1>5 DEF ReadRecent, ReadAnalysis, CaptureSignal, RunNlu, ProviderFails, TimesOut,
         Stage1, SelectMemory, Stage2, SaveRaises, LlmCrash, FailTurn, Escape, rows, clockVars
  <1>6. ASSUME NEW m \in Memories, WriteMemoryItem(m)
        PROVE  UNCHANGED <<turns, analyses, clock, whole>>
    BY <1>6 DEF WriteMemoryItem, clockVars
  <1>7. CASE UNCHANGED vars
    BY <1>1, <1>7 DEF vars, rows, clockVars
  <1> HIDE DEF Shape
  <1>8. QED
    BY <1>1, <1>2, <1>3, <1>4, <1>5, <1>6, <1>7 DEF LlmNext, RunStep

-----------------------------------------------------------------------------
\* What the contexts are read from.

TurnBefore(m, n) == SortsBefore(turns[m].at, turns[n].at)

LEMMA TurnFields ==
    ASSUME RowsTyped, NEW n \in DOMAIN turns
    PROVE  /\ turns[n].track \in Tracks
           /\ turns[n].role \in {"user", "assistant"}
           /\ turns[n].at \in 1..clock
           /\ n \in 1..Len(turns)
  <1>1. turns[n] \in Turn(clock) /\ n \in 1..Len(turns)
    BY DEF RowsTyped
  <1>2. QED
    BY <1>1 DEF Turn

LEMMA AnalysisFields ==
    ASSUME RowsTyped, NEW i \in DOMAIN analyses
    PROVE  /\ analyses[i].turn \in DOMAIN turns
           /\ analyses[i].summary \in BOOLEAN
           /\ analyses[i].at \in 1..clock
           /\ i \in 1..Len(analyses)
  <1>1. analyses[i] \in Analysis(Len(turns), clock) /\ i \in 1..Len(analyses)
    BY DEF RowsTyped
  <1>2. DOMAIN turns = 1..Len(turns)
    BY DEF RowsTyped
  <1>3. QED
    BY <1>1, <1>2 DEF Analysis

LEMMA StampsOrder ==
    ASSUME RowsTyped, StampsDistinct, NEW S, S \subseteq DOMAIN turns,
           NEW R, R = {p \in S \X S : SortsBefore(turns[p[1]].at, turns[p[2]].at)}
    PROVE  StrictOrder(S, R) /\ IsFiniteSet(S)
  <1>1. \A m, n \in S : <<m, n>> \in R <=> SortsBefore(turns[m].at, turns[n].at)
    OBVIOUS
  <1>2. \A m \in S : turns[m].at \in Nat
    BY TurnFields DEF RowsTyped
  <1>3. \A m, n \in S : m # n => turns[m].at # turns[n].at
    BY DEF StampsDistinct
  <1>4. whole \in Nat
    BY DEF RowsTyped
  <1>5. StrictOrder(S, R)
    BY <1>1, <1>2, <1>3, <1>4 DEF StrictOrder, SortsBefore
  <1>6. S \subseteq 1..Len(turns) /\ Len(turns) \in Nat
    BY DEF RowsTyped
  <1>7. IsFiniteSet(S)
    BY <1>6, FS_Interval, FS_Subset
  <1>8. QED
    BY <1>5, <1>7

LEMMA TrackSorted ==
    ASSUME RowsTyped, StampsDistinct, NEW r \in Runs, NEW s, s = OfTrack(r)
    PROVE  /\ s \in Seq(1..Len(turns))
           /\ ToSet(s) = {n \in DOMAIN turns : turns[n].track = TrackOf(r) /\ n # userTurn[r]}
           /\ \A i, j \in DOMAIN s : i < j => TurnBefore(s[i], s[j])
  <1> DEFINE S == {n \in DOMAIN turns : turns[n].track = TrackOf(r) /\ n # userTurn[r]}
  <1>1. PICK R : R = {p \in S \X S : SortsBefore(turns[p[1]].at, turns[p[2]].at)}
    OBVIOUS
  <1>2. s = InOrder(S, R)
    BY <1>1 DEF OfTrack
  <1>3. S \subseteq DOMAIN turns /\ S \subseteq 1..Len(turns)
    BY DEF RowsTyped
  <1> HIDE DEF S
  <1>4. StrictOrder(S, R) /\ IsFiniteSet(S)
    BY <1>1, <1>3, StampsOrder
  <1>5. /\ s \in Seq(S)
        /\ ToSet(s) = S
        /\ \A i, j \in DOMAIN s : i < j => <<s[i], s[j]>> \in R
    BY <1>2, <1>4, InOrderSorts
  <1>6. s \in Seq(1..Len(turns))
    BY <1>3, <1>5, Wider
  <1>7. \A i, j \in DOMAIN s : i < j => TurnBefore(s[i], s[j])
    BY <1>1, <1>5 DEF TurnBefore
  <1>8. QED
    BY <1>5, <1>6, <1>7 DEF S

\* `q` is what is left of `s` when values are taken from its front.
TailOf(q, s) ==
    \E a \in 0..Len(s) : /\ Len(q) = Len(s) - a
                         /\ \A i \in 1..Len(q) : q[i] = s[i + a]

LEMMA Tails ==
    ASSUME NEW T, NEW s \in Seq(T), NEW a \in 1..(Len(s) + 1), NEW q, q = SubSeq(s, a, Len(s))
    PROVE  /\ q \in Seq(T)
           /\ Len(q) = Len(s) + 1 - a
           /\ TailOf(q, s)
  <1>1. /\ q \in Seq(T)
        /\ Len(q) = Len(s) + 1 - a
        /\ \A i \in 1..Len(q) : q[i] = s[i + (a - 1)]
    OBVIOUS
  <1>2. a - 1 \in 0..Len(s) /\ Len(q) = Len(s) - (a - 1)
    BY <1>1
  <1>3. QED
    BY <1>1, <1>2 DEF TailOf

LEMMA LastTaken ==
    ASSUME NEW T, NEW s \in Seq(T), NEW q, q = TakeLast(s)
    PROVE  q \in Seq(T) /\ Len(q) <= LLM_CONTEXT_LAST_MESSAGES /\ TailOf(q, s)
  <1> DEFINE a == IF Len(s) > LLM_CONTEXT_LAST_MESSAGES
                  THEN Len(s) - LLM_CONTEXT_LAST_MESSAGES + 1 ELSE 1
  <1>1. LLM_CONTEXT_LAST_MESSAGES \in Nat
    BY LimitsAssumption
  <1>2. a \in 1..(Len(s) + 1) /\ Len(s) + 1 - a <= LLM_CONTEXT_LAST_MESSAGES
    BY <1>1
  <1>3. q = SubSeq(s, a, Len(s))
    BY DEF TakeLast
  <1> HIDE DEF a
  <1>4. QED
    BY <1>2, <1>3, Tails

LEMMA Overflows ==
    ASSUME NEW T, NEW s \in Seq(T), NEW q \in Overflow(s)
    PROVE  q \in Seq(T) /\ Len(q) <= Len(s) /\ TailOf(q, s)
  <1>1. PICK a \in 1..(Len(s) + 1) : q = SubSeq(s, a, Len(s))
    <2>1. CASE q = <<>>
      <3>1. SubSeq(s, Len(s) + 1, Len(s)) = <<>>
        OBVIOUS
      <3>2. QED
        BY <2>1, <3>1
    <2>2. CASE \E a \in 1..Len(s) : q = SubSeq(s, a, Len(s))
      BY <2>2
    <2>3. QED
      BY <2>1, <2>2 DEF Overflow, Suffixes
  <1>2. q \in Seq(T) /\ Len(q) = Len(s) + 1 - a /\ TailOf(q, s)
    BY <1>1, Tails
  <1>3. Len(s) \in Nat /\ Len(s) + 1 - a <= Len(s)
    OBVIOUS
  <1>4. QED
    BY <1>2, <1>3

\* The latest analysis of a track sorts after all the others.
LEMMA LatestIs ==
    ASSUME RowsTyped, StampsDistinct, NEW t, NEW latest, latest = Latest(t)
    PROVE  /\ AnalysesOf(t) = {} => latest = 0
           /\ AnalysesOf(t) # {} =>
                 /\ latest \in AnalysesOf(t)
                 /\ \A j \in AnalysesOf(t) \ {latest} :
                       SortsBefore(analyses[j].at, analyses[latest].at)
           /\ latest \in 0..Len(analyses)
  <1> DEFINE A == AnalysesOf(t)
             R == {p \in A \X A : SortsBefore(analyses[p[1]].at, analyses[p[2]].at)}
  <1>0. A \subseteq 1..Len(analyses) /\ A \subseteq DOMAIN analyses /\ Len(analyses) \in Nat
    BY DEF AnalysesOf, RowsTyped
  <1>1. CASE A = {}
    BY <1>0, <1>1 DEF Latest
  <1>2. CASE A # {}
    <2>1. StrictOrder(A, R)
      <3>1. \A i, j \in A : <<i, j>> \in R <=> SortsBefore(analyses[i].at, analyses[j].at)
        OBVIOUS
      <3>2. \A i \in A : analyses[i].at \in Nat
        BY <1>0, AnalysisFields DEF RowsTyped
      <3>3. \A i, j \in A : i # j => analyses[i].at # analyses[j].at
        <4> SUFFICES ASSUME NEW i \in A, NEW j \in A, i # j PROVE analyses[i].at # analyses[j].at
          OBVIOUS
        <4>1. i < j \/ j < i
          BY <1>0
        <4>2. QED
          BY <1>0, <3>2, <4>1 DEF StampsDistinct
      <3>4. whole \in Nat
        BY DEF RowsTyped
      <3> HIDE DEF A, R
      <3>5. QED
        BY <3>1, <3>2, <3>3, <3>4 DEF StrictOrder, SortsBefore
    <2>2. IsFiniteSet(A)
      BY <1>0, FS_Interval, FS_Subset
    <2>3. Cardinality(A) \in Nat \ {0}
      <3> HIDE DEF A
      <3> QED
        BY <1>2, <2>2, FS_EmptySet, FS_CardinalityType
    <2>4. PICK s : s = InOrder(A, R)
      OBVIOUS
    <2>5. /\ DOMAIN s = 1..Cardinality(A)
          /\ ToSet(s) = A
          /\ \A i, j \in DOMAIN s : i < j => <<s[i], s[j]>> \in R
      <3> HIDE DEF A, R
      <3> QED
        BY <2>1, <2>2, <2>4, InOrderSorts
    <2>6. PICK last \in A : last = s[Cardinality(A)]
      <3> HIDE DEF A, R
      <3> QED
        BY <2>3, <2>5 DEF ToSet
    <2>7. ASSUME NEW j \in A, j # last PROVE SortsBefore(analyses[j].at, analyses[last].at)
      <3>1. PICK i \in DOMAIN s : s[i] = j
        BY <2>5, <2>7 DEF ToSet
      <3>2. i < Cardinality(A) /\ Cardinality(A) \in DOMAIN s
        <4> HIDE DEF A, R
        <4> QED
          BY <2>3, <2>5, <2>6, <2>7, <3>1
      <3>3. <<j, last>> \in R
        BY <2>5, <2>6, <3>1, <3>2
      <3>4. QED
        BY <3>3
    <2>8. latest \in A /\ \A j \in A \ {latest} : SortsBefore(analyses[j].at, analyses[latest].at)
      <3>1. latest = CHOOSE i \in A : \A j \in A \ {i} : SortsBefore(analyses[j].at, analyses[i].at)
        BY <1>2 DEF Latest
      <3> HIDE DEF A, R
      <3>2. QED
        BY <2>6, <2>7, <3>1
    <2>9. QED
      BY <1>0, <1>2, <2>8
  <1>3. QED
    BY <1>1, <1>2

-----------------------------------------------------------------------------
\* What a step leaves of the memory of the processes.

LEMMA Stage1Made ==
    ASSUME NEW p \in Stage1Payloads, NEW d, d = Stage1Decision(p)
    PROVE  /\ d \in Decision
           /\ d.text = p.draft_answer /\ d.summary = p.summary
           /\ \A i, j \in DOMAIN d.selected : i # j => d.selected[i] # d.selected[j]
  <1>1. p \in Stage1Payload
    BY PayloadsAssumption
  <1>2. /\ p.memory_candidates \in SUBSET RawCandidate
        /\ p.summary \in BOOLEAN
        /\ p.selected_memory_ids \in Seq(MemoryIds)
        /\ p.draft_answer \in Text
    BY <1>1 DEF Stage1Payload
  <1>3. PICK ids : ids = Dedupe(p.selected_memory_ids)
    OBVIOUS
  <1>4. ids \in Seq(MemoryIds) /\ \A i, j \in DOMAIN ids : i # j => ids[i] # ids[j]
    BY <1>2, <1>3, DedupeKeeps
  <1>5. d = [memory_candidates |-> p.memory_candidates, summary |-> p.summary,
             text |-> p.draft_answer, selected |-> ids]
    BY <1>3 DEF Stage1Decision
  <1>6. QED
    BY <1>2, <1>4, <1>5 DEF Decision

LEMMA Stage2Made ==
    ASSUME NEW p \in Stage2Payloads, NEW d, d = Stage2Decision(p)
    PROVE  d \in Decision /\ d.text = p.final_answer /\ d.summary = p.summary
  <1>1. p \in Stage2Payload
    BY PayloadsAssumption
  <1>2. /\ p.memory_candidates \in SUBSET RawCandidate
        /\ p.summary \in BOOLEAN
        /\ p.final_answer \in Text
    BY <1>1 DEF Stage2Payload
  <1>3. d = [memory_candidates |-> p.memory_candidates, summary |-> p.summary,
             text |-> p.final_answer, selected |-> <<>>]
    BY DEF Stage2Decision
  <1>4. QED
    BY <1>2, <1>3 DEF Decision

LEMMA Nothing ==
    /\ NoDecision \in Decision
    /\ NoDecision.selected = <<>> /\ NoDecision.summary = FALSE
    /\ NoFrame \in [raw : Seq(STRING), acts : Seq(Stage0DialogueAct)]
    /\ <<>> \in Seq(MemoryIds) /\ <<>> \in Seq(Nat)
  BY DEF NoDecision, NoFrame, Decision, Text

LEMMA SelectionTyped ==
    ASSUME NEW ids \in Seq(MemoryIds)
    PROVE  /\ Limited(ids) \in Seq(MemoryIds)
           /\ Chooses(ids) \in Seq(MemoryIds)
           /\ Rejects(ids) \in Seq(MemoryIds)
  <1>1. SELECTED_MEMORY_MAX_ITEMS \in Nat
    BY LimitsAssumption
  <1>2. PICK limited : limited = Limited(ids)
    OBVIOUS
  <1>3. limited \in Seq(MemoryIds)
    BY <1>1, <1>2 DEF Limited
  <1>4. Chooses(ids) \in Seq(MemoryIds)
    <2>1. PICK P : P = {i \in DOMAIN limited : ids[i] \in items}
      OBVIOUS
    <2>2. P \subseteq DOMAIN limited /\ Chooses(ids) = AtPositions(limited, P)
      BY <1>2, <2>1 DEF Chooses
    <2>3. QED
      BY <1>3, <2>2, PositionsKept
  <1>5. Rejects(ids) \in Seq(MemoryIds)
    <2>1. PICK P : P = {i \in DOMAIN ids : ids[i] \notin items \cap ToSet(limited)}
      OBVIOUS
    <2>2. P \subseteq DOMAIN ids /\ Rejects(ids) = AtPositions(ids, P)
      BY <1>2, <2>1 DEF Rejects
    <2>3. QED
      BY <2>2, PositionsKept
  <1>6. QED
    BY <1>2, <1>3, <1>4, <1>5

\* A process that ends remembers nothing; the others go on as they were.
LEMMA Exits ==
    ASSUME LocalsTyped, NEW r \in Runs, Exit(r)
    PROVE  LocalsTyped' /\ Blank(r)' /\ \A v \in Runs \ {r} : Kept(v)
  <1>1. LocalsTyped'
    BY Nothing DEF LocalsTyped, Exit, Goto, Places
  <1>2. Blank(r)'
    BY DEF LocalsTyped, Exit, Goto, Blank
  <1>3. \A v \in Runs \ {r} : Kept(v)
    BY DEF LocalsTyped, Exit, Goto, Kept
  <1>4. QED
    BY <1>1, <1>2, <1>3

\* The steps that end a process.
Ends(r) == ProviderFails(r) \/ TimesOut(r) \/ SaveAnswer(r) \/ SaveRaises(r) \/ LlmCrash(r)

LEMMA EndsExit ==
    ASSUME NEW r, Ends(r)
    PROVE  Exit(r)
  BY DEF Ends, ProviderFails, TimesOut, SaveAnswer, SaveRaises, LlmCrash, FailTurn, Escape

\* Whatever the signal hook raises, the process goes on.
LEMMA SignalCaught ==
    ASSUME NEW r, CaptureSignal(r)
    PROVE  /\ pc[r] = "signal" /\ pc' = [pc EXCEPT ![r] = "nlu"]
           /\ UNCHANGED <<turns, lastTurn, analyses, candidates, items, userTurn, stage, recent,
                          previous, chosen, rejected, frame, decision1, decision2, stamp,
                          answers, failures, escaped, died, clock, whole>>
  <1>1. \A raised \in HookError \cup {"none"} : raised \in Caught \cup {"none"}
    BY DEF Caught
  <1>2. At(r, "signal") /\ Goto(r, "nlu") /\ UNCHANGED <<rows, userTurn, context, results>>
        /\ UNCHANGED <<outcome, clockVars>>
    BY <1>1 DEF CaptureSignal
  <1>3. QED
    BY <1>2 DEF At, Goto, rows, context, results, outcome, clockVars

LEMMA LocalsNext ==
    ASSUME Shape, NEW r \in Runs, Moves(r)
    PROVE  LocalsTyped' /\ \A v \in Runs \ {r} : Kept(v)
  <1> DEFINE Goal == LocalsTyped' /\ \A v \in Runs \ {r} : Kept(v)
  <1>0. LocalsTyped
    BY DEF Shape
  <1>1. ASSUME Exit(r) PROVE Goal
    BY <1>0, <1>1, Exits
  <1>2. ASSUME NEW t \in Tracks, SaveUserTurn(r, t) PROVE Goal
    <2>1. Len(turns) + 1 \in Nat
      BY DEF Shape, RowsTyped
    <2>2. /\ pc' = [pc EXCEPT ![r] = "recent"]
          /\ userTurn' = [userTurn EXCEPT ![r] = Len(turns) + 1]
          /\ UNCHANGED <<stage, recent, previous, frame, decision1, decision2, chosen,
                         rejected, stamp>>
      BY <1>2 DEF SaveUserTurn, Goto, context, results
    <2>3. QED
      BY <1>0, <2>1, <2>2 DEF LocalsTyped, Kept, Places
  <1>3. CASE ReadRecent(r)
    <2>1. /\ pc' = [pc EXCEPT ![r] = "analysis"]
          /\ recent' = [recent EXCEPT ![r] = TakeLast(OfTrack(r))]
          /\ UNCHANGED <<stage, userTurn, previous, frame, decision1, decision2, chosen,
                         rejected, stamp>>
      BY <1>3 DEF ReadRecent, Goto, results
    <2>2. PICK s : s = OfTrack(r)
      OBVIOUS
    <2>3. s \in Seq(1..Len(turns)) /\ Len(turns) \in Nat
      BY <2>2, TrackSorted DEF Shape, RowsTyped
    <2>4. s \in Seq(Nat)
      BY <2>3
    <2>5. TakeLast(OfTrack(r)) \in Seq(Nat)
      BY <2>2, <2>4, LastTaken
    <2>6. QED
      BY <1>0, <2>1, <2>5 DEF LocalsTyped, Kept, Places
  <1>4. CASE ReadAnalysis(r)
    <2>1. CASE FailTurn(r, "summary")
      BY <1>1, <2>1 DEF FailTurn
    <2>2. CASE ~FailTurn(r, "summary")
      <3>0. PICK latest : latest = Latest(TrackOf(r))
        OBVIOUS
      <3>1. PICK kept \in Overflow(recent[r]), next \in {"signal", "stage2"} :
               /\ pc' = [pc EXCEPT ![r] = next]
               /\ recent' = [recent EXCEPT ![r] = kept]
               /\ previous' = [previous EXCEPT ![r] = latest]
               /\ UNCHANGED <<stage, userTurn, frame, decision1, decision2, chosen,
                              rejected, stamp>>
        BY <1>4, <2>2, <3>0 DEF ReadAnalysis, Goto, results
      <3>2. latest \in Nat
        <4>1. latest \in 0..Len(analyses) /\ Len(analyses) \in Nat
          BY <3>0, LatestIs DEF Shape, RowsTyped
        <4>2. QED
          BY <4>1
      <3>3. kept \in Seq(Nat)
        <4>1. recent[r] \in Seq(Nat)
          BY <1>0 DEF LocalsTyped
        <4>2. QED
          BY <3>1, <4>1, Overflows
      <3>4. QED
        BY <1>0, <3>1, <3>2, <3>3 DEF LocalsTyped, Kept, Places
    <2>3. QED
      BY <2>1, <2>2
  <1>5. CASE CaptureSignal(r)
    <2>1. /\ pc' = [pc EXCEPT ![r] = "nlu"]
          /\ UNCHANGED <<stage, userTurn, recent, previous, frame, decision1, decision2, chosen,
                         rejected, stamp>>
      BY <1>5, SignalCaught
    <2>2. QED
      BY <1>0, <2>1 DEF LocalsTyped, Kept, Places
  <1>6. CASE RunNlu(r)
    <2>1. PICK p \in Stage0Payloads :
             IF FrameFits(p)
             THEN /\ frame' = [frame EXCEPT ![r] = [raw |-> p.dialogue_acts,
                                                    acts |-> RepairedActs(p)]]
                  /\ pc' = [pc EXCEPT ![r] = "stage1"]
                  /\ UNCHANGED <<stage, userTurn, recent, previous, decision1, decision2, chosen,
                                 rejected, stamp>>
             ELSE FailTurn(r, "provider")
      BY <1>6 DEF RunNlu, Goto, context
    <2>2. CASE FrameFits(p)
      <3>1. PICK f \in [raw : Seq(STRING), acts : Seq(Stage0DialogueAct)] :
               f = [raw |-> p.dialogue_acts, acts |-> RepairedActs(p)]
        BY ActsAreRepaired
      <3>2. /\ frame' = [frame EXCEPT ![r] = f]
            /\ pc' = [pc EXCEPT ![r] = "stage1"]
            /\ UNCHANGED <<stage, userTurn, recent, previous, decision1, decision2, chosen,
                           rejected, stamp>>
        BY <2>1, <2>2, <3>1
      <3>3. QED
        BY <1>0, <3>2 DEF LocalsTyped, Kept, Places
    <2>3. CASE ~FrameFits(p)
      BY <1>1, <2>1, <2>3 DEF FailTurn
    <2>4. QED
      BY <2>2, <2>3
  <1>7. CASE Stage1(r)
    <2>1. PICK p \in Stage1Payloads, next \in {"stamp", "select"} :
             \/ FailTurn(r, "provider")
             \/ /\ decision1' = [decision1 EXCEPT ![r] = Stage1Decision(p)]
                /\ frame' = [frame EXCEPT ![r] = NoFrame]
                /\ pc' = [pc EXCEPT ![r] = next]
                /\ recent' = [recent EXCEPT ![r] = <<>>]
                /\ previous' = [previous EXCEPT ![r] = 0]
                /\ UNCHANGED <<stage, userTurn, decision2, chosen, rejected, stamp>>
      BY <1>7 DEF Stage1, DropContext, Goto
    <2>2. CASE FailTurn(r, "provider")
      BY <1>1, <2>2 DEF FailTurn
    <2>3. CASE ~FailTurn(r, "provider")
      <3>1. PICK d \in Decision : d = Stage1Decision(p)
        BY Stage1Made
      <3>2. PICK none \in [raw : Seq(STRING), acts : Seq(Stage0DialogueAct)] : none = NoFrame
        BY Nothing
      <3>3. /\ decision1' = [decision1 EXCEPT ![r] = d]
            /\ frame' = [frame EXCEPT ![r] = none]
            /\ pc' = [pc EXCEPT ![r] = next]
            /\ recent' = [recent EXCEPT ![r] = <<>>]
            /\ previous' = [previous EXCEPT ![r] = 0]
            /\ UNCHANGED <<stage, userTurn, decision2, chosen, rejected, stamp>>
        BY <2>1, <2>3, <3>1, <3>2
      <3>4. QED
        BY <1>0, <3>3, Nothing DEF LocalsTyped, Kept, Places
    <2>4. QED
      BY <2>2, <2>3
  <1>8. CASE SelectMemory(r)
    <2>1. /\ pc' = [pc EXCEPT ![r] = "recent"]
          /\ stage' = [stage EXCEPT ![r] = 2]
          /\ chosen' = [chosen EXCEPT ![r] = Chooses(decision1[r].selected)]
          /\ rejected' = [rejected EXCEPT ![r] = Rejects(decision1[r].selected)]
          /\ UNCHANGED <<userTurn, recent, previous, frame, decision1, decision2, stamp>>
      BY <1>8 DEF SelectMemory, Goto, results
    <2>2. decision1[r].selected \in Seq(MemoryIds)
      BY <1>0 DEF LocalsTyped, Decision
    <2>3. /\ Chooses(decision1[r].selected) \in Seq(MemoryIds)
          /\ Rejects(decision1[r].selected) \in Seq(MemoryIds)
      BY <2>2, SelectionTyped
    <2>4. QED
      BY <1>0, <2>1, <2>3 DEF LocalsTyped, Kept, Places
  <1>9. CASE Stage2(r)
    <2>1. PICK p \in Stage2Payloads :
             \/ FailTurn(r, "provider")
             \/ /\ decision2' = [decision2 EXCEPT ![r] = Stage2Decision(p)]
                /\ pc' = [pc EXCEPT ![r] = "stamp"]
                /\ recent' = [recent EXCEPT ![r] = <<>>]
                /\ previous' = [previous EXCEPT ![r] = 0]
                /\ UNCHANGED <<stage, userTurn, frame, decision1, chosen, rejected, stamp>>
      BY <1>9 DEF Stage2, DropContext, Goto
    <2>2. CASE FailTurn(r, "provider")
      BY <1>1, <2>2 DEF FailTurn
    <2>3. CASE ~FailTurn(r, "provider")
      <3>1. PICK d \in Decision : d = Stage2Decision(p)
        BY Stage2Made
      <3>2. /\ decision2' = [decision2 EXCEPT ![r] = d]
            /\ pc' = [pc EXCEPT ![r] = "stamp"]
            /\ recent' = [recent EXCEPT ![r] = <<>>]
            /\ previous' = [previous EXCEPT ![r] = 0]
            /\ UNCHANGED <<stage, userTurn, frame, decision1, chosen, rejected, stamp>>
        BY <2>1, <2>3, <3>1
      <3>3. QED
        BY <1>0, <3>2, Nothing DEF LocalsTyped, Kept, Places
    <2>4. QED
      BY <2>2, <2>3
  <1>10. CASE StampAnswer(r)
    <2>1. PICK s : /\ server_now(s)
                   /\ stamp' = [stamp EXCEPT ![r] = s]
                   /\ pc' = [pc EXCEPT ![r] = "save"]
                   /\ UNCHANGED <<stage, userTurn, recent, previous, frame, decision1, decision2,
                                  chosen, rejected>>
      BY <1>10 DEF StampAnswer, Goto, context
    <2>2. s \in Nat
      BY <2>1, Stamped DEF Shape, RowsTyped
    <2>3. QED
      BY <1>0, <2>1, <2>2 DEF LocalsTyped, Kept, Places
  <1>11. CASE Ends(r)
    BY <1>1, <1>11, EndsExit
  <1>12. QED
    BY <1>2, <1>3, <1>4, <1>5, <1>6, <1>7, <1>8, <1>9, <1>10, <1>11
       DEF Moves, RunStep, Ends

-----------------------------------------------------------------------------
\* The steps, by what they do to the rows.

LEMMA UserTurnSaved ==
    ASSUME Shape, NEW r \in Runs, NEW t \in Tracks, SaveUserTurn(r, t)
    PROVE  /\ clock' = clock + 1
           /\ Len(turns') = Len(turns) + 1
           /\ DOMAIN turns' = DOMAIN turns \cup {Len(turns) + 1}
           /\ Len(turns) + 1 \notin DOMAIN turns
           /\ \A n \in DOMAIN turns : turns'[n] = turns[n]
           /\ turns'[Len(turns) + 1].track = t
           /\ turns'[Len(turns) + 1].role = "user"
           /\ turns'[Len(turns) + 1].at = clock + 1
           /\ pc[r] = "idle" /\ pc'[r] = "recent" /\ userTurn'[r] = Len(turns) + 1
           /\ UNCHANGED <<analyses, candidates, items, stage, recent, previous, frame, decision1,
                          decision2, chosen, rejected, stamp, answers, failures, escaped, died>>
  <1>1. /\ clock \in Nat /\ whole \in 0..clock
        /\ turns \in Seq(Turn(clock)) /\ Len(turns) \in Nat /\ DOMAIN turns = 1..Len(turns)
        /\ pc \in [Runs -> Places] /\ userTurn \in [Runs -> Nat]
    BY DEF Shape, RowsTyped, LocalsTyped
  <1>2. PICK s, e : /\ server_now(s)
                    /\ e = [track |-> t, role |-> "user", at |-> s]
                    /\ turns' = Append(turns, e)
    BY DEF SaveUserTurn, AppendTurn
  <1>3. s = clock + 1 /\ clock' = clock + 1
    BY <1>1, <1>2, Stamped
  <1>4. e \in Turn(clock')
    <2>1. clock' \in Nat /\ s \in 1..clock' /\ "user" \in {"user", "assistant"}
      BY <1>1, <1>3
    <2>2. QED
      BY <1>2, <2>1, TurnMade
  <1>5. Turn(clock) \subseteq Turn(clock')
    BY <1>1, <1>3, TurnsWider
  <1>6. /\ Len(turns') = Len(turns) + 1 /\ DOMAIN turns' = 1..(Len(turns) + 1)
        /\ \A n \in DOMAIN turns : turns'[n] = turns[n]
        /\ turns'[Len(turns) + 1] = e
    BY <1>1, <1>2, <1>4, <1>5, Appended
  <1>7. /\ pc[r] = "idle" /\ pc'[r] = "recent" /\ userTurn'[r] = Len(turns) + 1
        /\ UNCHANGED <<analyses, candidates, items, stage, recent, previous, frame, decision1,
                       decision2, chosen, rejected, stamp, answers, failures, escaped, died>>
    BY <1>1 DEF SaveUserTurn, At, Goto, context, results, outcome
  <1>8. e.track = t /\ e.role = "user" /\ e.at = clock + 1
    BY <1>2, <1>3
  <1>9. /\ DOMAIN turns' = DOMAIN turns \cup {Len(turns) + 1}
        /\ Len(turns) + 1 \notin DOMAIN turns
    BY <1>1, <1>6
  <1>10. QED
    BY <1>3, <1>6, <1>7, <1>8, <1>9

LEMMA AnswerSaved ==
    ASSUME Shape, NEW r \in Runs, SaveAnswer(r)
    PROVE  /\ clock' = clock + 1
           /\ Len(turns') = Len(turns) + 1
           /\ DOMAIN turns' = DOMAIN turns \cup {Len(turns) + 1}
           /\ Len(turns) + 1 \notin DOMAIN turns
           /\ \A n \in DOMAIN turns : turns'[n] = turns[n]
           /\ turns'[Len(turns) + 1].track = TrackOf(r)
           /\ turns'[Len(turns) + 1].role = "assistant"
           /\ turns'[Len(turns) + 1].at = stamp[r]
           /\ Len(analyses') = Len(analyses) + 1
           /\ DOMAIN analyses' = DOMAIN analyses \cup {Len(analyses) + 1}
           /\ Len(analyses) + 1 \notin DOMAIN analyses
           /\ \A i \in DOMAIN analyses : analyses'[i] = analyses[i]
           /\ analyses'[Len(analyses) + 1].turn = Len(turns) + 1
           /\ analyses'[Len(analyses) + 1].at = clock + 1
           /\ analyses'[Len(analyses) + 1].summary
                 = (decision1[r].summary \/ decision2[r].summary)
           /\ pc[r] = "save" /\ userTurn[r] \in DOMAIN turns
  <1>1. /\ clock \in Nat /\ whole \in 0..clock
        /\ turns \in Seq(Turn(clock)) /\ Len(turns) \in Nat /\ DOMAIN turns = 1..Len(turns)
        /\ analyses \in Seq(Analysis(Len(turns), clock)) /\ Len(analyses) \in Nat
        /\ DOMAIN analyses = 1..Len(analyses)
    BY DEF Shape, RowsTyped
  <1> DEFINE sum == decision1[r].summary \/ decision2[r].summary
  <1>0. PICK s : /\ server_now(s)
                 /\ turns' = Append(turns, [track |-> TrackOf(r), role |-> "assistant",
                                            at |-> stamp[r]])
                 /\ analyses' = Append(analyses, [turn |-> Len(turns) + 1, at |-> s,
                                                  summary |-> sum])
    BY DEF SaveAnswer, AppendTurn
  <1>b. PICK b \in BOOLEAN : b = sum
    OBVIOUS
  <1>e. PICK e : e = [track |-> TrackOf(r), role |-> "assistant", at |-> stamp[r]]
    OBVIOUS
  <1>a. PICK a : a = [turn |-> Len(turns) + 1, at |-> s, summary |-> b]
    OBVIOUS
  <1>2. /\ server_now(s)
        /\ turns' = Append(turns, e)
        /\ analyses' = Append(analyses, a)
    BY <1>0, <1>b, <1>e, <1>a
  <1>3. s = clock + 1 /\ clock' = clock + 1
    BY <1>1, <1>2, Stamped
  <1>4. pc[r] = "save" /\ stamp[r] \in 1..clock /\ userTurn[r] \in 1..Len(turns)
    BY <1>1 DEF SaveAnswer, At, Shape, Holds
  <1>5. TrackOf(r) \in Tracks
    BY <1>1, <1>4, TurnFields DEF Shape, TrackOf
  <1>6. e \in Turn(clock')
    <2>1. clock' \in Nat /\ stamp[r] \in 1..clock' /\ "assistant" \in {"user", "assistant"}
      BY <1>1, <1>3, <1>4
    <2>2. QED
      BY <1>e, <1>5, <2>1, TurnMade
  <1>7. Turn(clock) \subseteq Turn(clock')
    BY <1>1, <1>3, TurnsWider
  <1>8. /\ Len(turns') = Len(turns) + 1 /\ DOMAIN turns' = 1..(Len(turns) + 1)
        /\ \A n \in DOMAIN turns : turns'[n] = turns[n]
        /\ turns'[Len(turns) + 1] = e
    BY <1>1, <1>2, <1>6, <1>7, Appended
  <1>9. a \in Analysis(Len(turns'), clock')
    <2>1. /\ clock' \in Nat /\ s \in 1..clock'
          /\ Len(turns') \in Nat /\ Len(turns) + 1 \in 1..Len(turns')
      BY <1>1, <1>3, <1>8
    <2>2. QED
      BY <1>a, <2>1, AnalysisMade
  <1>10. Analysis(Len(turns), clock) \subseteq Analysis(Len(turns'), clock')
    BY <1>1, <1>3, <1>8, TurnsWider
  <1>11. /\ Len(analyses') = Len(analyses) + 1 /\ DOMAIN analyses' = 1..(Len(analyses) + 1)
         /\ \A i \in DOMAIN analyses : analyses'[i] = analyses[i]
         /\ analyses'[Len(analyses) + 1] = a
    BY <1>1, <1>2, <1>9, <1>10, Appended
  <1>12. /\ e.track = TrackOf(r) /\ e.role = "assistant" /\ e.at = stamp[r]
         /\ a.turn = Len(turns) + 1 /\ a.at = s
         /\ a.summary = (decision1[r].summary \/ decision2[r].summary)
    BY <1>b, <1>e, <1>a
  <1>13. /\ DOMAIN turns' = DOMAIN turns \cup {Len(turns) + 1}
         /\ Len(turns) + 1 \notin DOMAIN turns
         /\ DOMAIN analyses' = DOMAIN analyses \cup {Len(analyses) + 1}
         /\ Len(analyses) + 1 \notin DOMAIN analyses
    BY <1>1, <1>8, <1>11
  <1>14. QED
    BY <1>1, <1>3, <1>4, <1>8, <1>11, <1>12, <1>13

\* The others write no turn and no analysis.
Quiet(r) ==
    \/ ReadRecent(r) \/ ReadAnalysis(r) \/ CaptureSignal(r) \/ RunNlu(r)
    \/ ProviderFails(r) \/ TimesOut(r) \/ Stage1(r) \/ SelectMemory(r) \/ Stage2(r)
    \/ StampAnswer(r) \/ SaveRaises(r) \/ LlmCrash(r)

LEMMA RowsStay ==
    ASSUME NEW r, Quiet(r)
    PROVE  UNCHANGED rows
  BY DEF Quiet, ReadRecent, ReadAnalysis, CaptureSignal, RunNlu, ProviderFails, TimesOut,
         Stage1, SelectMemory, Stage2, StampAnswer, SaveRaises, LlmCrash, FailTurn, Escape, rows

\* No process moves.
Aside == \/ \E m \in Memories : WriteMemoryItem(m)
         \/ UNCHANGED vars

LEMMA AsideKeeps ==
    ASSUME Aside
    PROVE  /\ \A r \in Runs : Kept(r)
           /\ UNCHANGED <<turns, lastTurn, analyses, candidates, answers, failures, escaped, died,
                          pc, stage, userTurn, recent, previous, frame, decision1, decision2,
                          chosen, rejected, stamp, clock, whole>>
           /\ items \subseteq items'
  <1>1. /\ UNCHANGED <<turns, lastTurn, analyses, candidates, answers, failures, escaped, died,
                       pc, stage, userTurn, recent, previous, frame, decision1, decision2,
                       chosen, rejected, stamp, clock, whole>>
        /\ items \subseteq items'
    BY DEF Aside, WriteMemoryItem, context, results, outcome, clockVars, vars, rows
  <1>2. QED
    BY <1>1 DEF Kept

\* Every step is one of four.
LEMMA StepIs ==
    ASSUME [LlmNext]_vars
    PROVE  \/ \E r \in Runs, t \in Tracks : SaveUserTurn(r, t)
           \/ \E r \in Runs : SaveAnswer(r)
           \/ \E r \in Runs : Quiet(r)
           \/ Aside
  BY DEF LlmNext, RunStep, Quiet, Aside

\* So a process moves alone, or none does.
LEMMA OneMoves ==
    ASSUME [LlmNext]_vars
    PROVE  (\E r \in Runs : Moves(r)) \/ Aside
  BY StepIs DEF Moves, RunStep, Quiet

-----------------------------------------------------------------------------
\* The shape of a state: pointers point at rows, and no stamp is used twice.

\* An ended process holds nothing.
LEMMA BlankHolds ==
    ASSUME RowsTyped, NEW r, Blank(r)
    PROVE  Holds(r)
  <1>1. Len(turns) \in Nat /\ Len(analyses) \in Nat /\ clock \in Nat
    BY DEF RowsTyped
  <1>2. QED
    BY <1>1 DEF Holds, Blank

LEMMA ShapeInit ==
    ASSUME Init
    PROVE  Shape
  <1>1. clock = 0 /\ whole = 0 /\ turns = <<>> /\ analyses = <<>>
    BY DEF Init, ClockInit
  <1>2. RowsTyped
    BY <1>1 DEF RowsTyped
  <1>3. LocalsTyped
    BY Nothing DEF Init, LocalsTyped, Places
  <1>4. \A r \in Runs : Blank(r)
    BY DEF Init, Blank
  <1>5. \A r \in Runs : Holds(r)
    BY <1>2, <1>4, BlankHolds
  <1>6. StampsDistinct
    BY <1>1, <1>4 DEF StampsDistinct, Blank
  <1>7. QED
    BY <1>2, <1>3, <1>5, <1>6 DEF Shape

LEMMA OthersHold ==
    ASSUME Shape, RowsTyped', Grows, NEW v \in Runs, Kept(v)
    PROVE  Holds(v)'
  <1>1. /\ Len(turns) \in Nat /\ Len(turns') \in Nat /\ Len(turns) <= Len(turns')
        /\ DOMAIN turns = 1..Len(turns)
        /\ Len(analyses) \in Nat /\ Len(analyses') \in Nat /\ Len(analyses) <= Len(analyses')
        /\ clock \in Nat /\ clock' \in Nat /\ clock <= clock'
    BY DEF Shape, RowsTyped, Grows
  <1>2. Holds(v)
    BY DEF Shape
  <1>3. /\ userTurn'[v] \in 0..Len(turns')
        /\ previous'[v] \in 0..Len(analyses')
        /\ stamp'[v] \in 0..clock'
    BY <1>1, <1>2 DEF Holds, Kept
  <1>4. userTurn'[v] # 0 => turns'[userTurn'[v]].role = "user"
    <2>1. userTurn[v] # 0 => userTurn[v] \in DOMAIN turns
      BY <1>1, <1>2 DEF Holds
    <2>2. QED
      BY <1>2, <2>1 DEF Holds, Kept, Grows
  <1>5. recent'[v] \in Seq(1..Len(turns'))
    <2>1. 1..Len(turns) \subseteq 1..Len(turns')
      BY <1>1
    <2>2. recent[v] \in Seq(1..Len(turns)) /\ recent'[v] = recent[v]
      BY <1>2 DEF Holds, Kept
    <2>3. QED
      BY <2>1, <2>2, Wider
  <1>6. /\ pc'[v] = "idle" <=> userTurn'[v] = 0
        /\ pc'[v] = "save" => stamp'[v] # 0
        /\ pc'[v] = "idle" => Blank(v)'
    BY <1>2 DEF Holds, Kept, Blank
  <1>7. QED
    BY <1>3, <1>4, <1>5, <1>6 DEF Holds

\* A step that goes on with the same message, and is neither a stamp nor a read.
Onward(r) ==
    /\ pc[r] \notin {"idle", "save"} /\ pc'[r] \in Places \ {"idle", "save"}
    /\ userTurn'[r] = userTurn[r]

LEMMA OnwardHolds ==
    ASSUME Shape, RowsTyped', Grows, NEW r \in Runs, Onward(r),
           recent'[r] \in Seq(1..Len(turns)), previous'[r] \in 0..Len(analyses),
           stamp'[r] = stamp[r]
    PROVE  Holds(r)'
  <1>1. /\ Len(turns) \in Nat /\ Len(turns') \in Nat /\ Len(turns) <= Len(turns')
        /\ DOMAIN turns = 1..Len(turns)
        /\ Len(analyses) \in Nat /\ Len(analyses') \in Nat /\ Len(analyses) <= Len(analyses')
        /\ clock \in Nat /\ clock' \in Nat /\ clock <= clock'
    BY DEF Shape, RowsTyped, Grows
  <1>2. Holds(r)
    BY DEF Shape
  <1>3. /\ userTurn'[r] \in 0..Len(turns')
        /\ previous'[r] \in 0..Len(analyses')
        /\ stamp'[r] \in 0..clock'
    BY <1>1, <1>2, SMTT(30) DEF Holds, Onward
  <1>4. userTurn'[r] # 0 => turns'[userTurn'[r]].role = "user"
    <2>1. userTurn[r] # 0 => userTurn[r] \in DOMAIN turns
      BY <1>1, <1>2 DEF Holds
    <2>2. QED
      BY <1>2, <2>1 DEF Holds, Onward, Grows
  <1>5. recent'[r] \in Seq(1..Len(turns'))
    <2>1. 1..Len(turns) \subseteq 1..Len(turns')
      BY <1>1
    <2>2. QED
      BY <2>1, Wider
  <1>6. /\ pc'[r] = "idle" <=> userTurn'[r] = 0
        /\ pc'[r] # "save" /\ pc'[r] # "idle"
    BY <1>2 DEF Holds, Onward, Places
  <1>7. QED
    BY <1>3, <1>4, <1>5, <1>6 DEF Holds

LEMMA ReadsRecent ==
    ASSUME Shape, NEW r \in Runs, ReadRecent(r)
    PROVE  /\ recent'[r] = TakeLast(OfTrack(r))
           /\ recent'[r] \in Seq(1..Len(turns))
           /\ pc[r] = "recent" /\ pc'[r] = "analysis" /\ Onward(r)
           /\ previous'[r] = previous[r] /\ stamp'[r] = stamp[r]
  <1>0. recent \in [Runs -> Seq(Nat)] /\ pc \in [Runs -> Places]
    BY DEF Shape, LocalsTyped
  <1>1. /\ recent'[r] = TakeLast(OfTrack(r))
        /\ pc[r] = "recent" /\ pc'[r] = "analysis" /\ Onward(r)
        /\ previous'[r] = previous[r] /\ stamp'[r] = stamp[r]
    BY <1>0 DEF ReadRecent, At, Goto, Onward, Places, results
  <1>2. PICK s : s = OfTrack(r)
    OBVIOUS
  <1>3. s \in Seq(1..Len(turns))
    BY <1>2, TrackSorted DEF Shape
  <1>4. QED
    BY <1>1, <1>2, <1>3, LastTaken

\* What ReadAnalysis leaves of a process that goes on.
LEMMA ReadsAnalysis ==
    ASSUME Shape, NEW r \in Runs, ReadAnalysis(r), ~Exit(r)
    PROVE  /\ previous'[r] = Latest(TrackOf(r))
           /\ previous'[r] \in 0..Len(analyses)
           /\ recent'[r] \in Overflow(recent[r])
           /\ recent'[r] \in Seq(1..Len(turns))
           /\ pc[r] = "analysis" /\ pc'[r] = (IF stage[r] = 1 THEN "signal" ELSE "stage2")
           /\ Onward(r) /\ stamp'[r] = stamp[r]
  <1>0. recent \in [Runs -> Seq(Nat)] /\ previous \in [Runs -> Nat] /\ pc \in [Runs -> Places]
    BY DEF Shape, LocalsTyped
  <1>a. PICK latest : latest = Latest(TrackOf(r))
    OBVIOUS
  <1>b. ~FailTurn(r, "summary")
    BY DEF FailTurn
  <1>1. PICK kept \in Overflow(recent[r]) :
           /\ previous' = [previous EXCEPT ![r] = latest]
           /\ recent' = [recent EXCEPT ![r] = kept]
           /\ pc[r] = "analysis"
           /\ pc' = [pc EXCEPT ![r] = IF stage[r] = 1 THEN "signal" ELSE "stage2"]
           /\ UNCHANGED <<userTurn, stamp>>
    BY <1>a, <1>b DEF ReadAnalysis, At, Goto, results
  <1>2. latest \in 0..Len(analyses)
    BY <1>a, LatestIs DEF Shape
  <1>3. recent[r] \in Seq(1..Len(turns))
    BY DEF Shape, Holds
  <1>4. kept \in Seq(1..Len(turns))
    BY <1>1, <1>3, Overflows
  <1>5. QED
    BY <1>0, <1>a, <1>1, <1>2, <1>4 DEF Onward, Places

\* The steps that go on and read neither; an answer of the model ends its
\* context.
Plain(r) == CaptureSignal(r) \/ RunNlu(r) \/ Stage1(r) \/ SelectMemory(r) \/ Stage2(r)

LEMMA GoesOn ==
    ASSUME Shape, NEW r \in Runs, Plain(r), ~Exit(r)
    PROVE  /\ Onward(r) /\ stamp'[r] = stamp[r]
           /\ \/ recent'[r] = recent[r] /\ previous'[r] = previous[r]
              \/ recent'[r] = <<>> /\ previous'[r] = 0
  <1>0. /\ pc \in [Runs -> Places]
        /\ recent \in [Runs -> Seq(Nat)] /\ previous \in [Runs -> Nat]
    BY DEF Shape, LocalsTyped
  <1>1. CASE CaptureSignal(r)
    BY <1>0, <1>1, SignalCaught DEF Onward, Places
  <1>2. CASE RunNlu(r)
    <2>1. /\ pc[r] = "nlu" /\ pc' = [pc EXCEPT ![r] = "stage1"]
          /\ UNCHANGED <<userTurn, recent, previous, stamp>>
      BY <1>2 DEF RunNlu, FailTurn, At, Goto, context
    <2>2. QED
      BY <1>0, <2>1 DEF Onward, Places
  <1>3. CASE Stage1(r)
    <2>1. PICK next \in {"stamp", "select"} :
             /\ pc[r] = "stage1" /\ pc' = [pc EXCEPT ![r] = next]
             /\ recent' = [recent EXCEPT ![r] = <<>>]
             /\ previous' = [previous EXCEPT ![r] = 0]
             /\ UNCHANGED <<userTurn, stamp>>
      BY <1>3 DEF Stage1, DropContext, FailTurn, At, Goto
    <2>2. QED
      BY <1>0, <2>1 DEF Onward, Places
  <1>4. CASE SelectMemory(r)
    <2>1. /\ pc[r] = "select" /\ pc' = [pc EXCEPT ![r] = "recent"]
          /\ UNCHANGED <<userTurn, recent, previous, stamp>>
      BY <1>4 DEF SelectMemory, At, Goto, results
    <2>2. QED
      BY <1>0, <2>1 DEF Onward, Places
  <1>5. CASE Stage2(r)
    <2>1. /\ pc[r] = "stage2" /\ pc' = [pc EXCEPT ![r] = "stamp"]
          /\ recent' = [recent EXCEPT ![r] = <<>>]
          /\ previous' = [previous EXCEPT ![r] = 0]
          /\ UNCHANGED <<userTurn, stamp>>
      BY <1>5 DEF Stage2, DropContext, FailTurn, At, Goto
    <2>2. QED
      BY <1>0, <2>1 DEF Onward, Places
  <1>6. QED
    BY <1>1, <1>2, <1>3, <1>4, <1>5 DEF Plain

LEMMA StampsAnswer ==
    ASSUME Shape, NEW r \in Runs, StampAnswer(r)
    PROVE  /\ clock' = clock + 1 /\ stamp'[r] = clock + 1
           /\ pc[r] = "stamp" /\ pc'[r] = "save" /\ userTurn'[r] = userTurn[r]
           /\ recent'[r] = recent[r] /\ previous'[r] = previous[r]
  <1>1. PICK s : /\ server_now(s)
                 /\ stamp' = [stamp EXCEPT ![r] = s]
                 /\ pc[r] = "stamp" /\ pc' = [pc EXCEPT ![r] = "save"]
                 /\ UNCHANGED <<userTurn, recent, previous>>
    BY DEF StampAnswer, At, Goto, context
  <1>2. s = clock + 1 /\ clock' = clock + 1
    BY <1>1, Stamped DEF Shape, RowsTyped
  <1>3. QED
    BY <1>1, <1>2 DEF Shape, LocalsTyped

LEMMA MoverHolds ==
    ASSUME Shape, RowsTyped', Grows, NEW r \in Runs, Moves(r)
    PROVE  Holds(r)'
  <1>1. CASE Exit(r)
    <2>1. Blank(r)'
      BY <1>1, Exits DEF Shape
    <2>2. QED
      BY <2>1 DEF RowsTyped, Holds, Blank
  <1>2. CASE \E t \in Tracks : SaveUserTurn(r, t)
    <2>1. PICK t \in Tracks : SaveUserTurn(r, t)
      BY <1>2
    <2>2. /\ Len(turns') = Len(turns) + 1
          /\ turns'[Len(turns) + 1].role = "user"
          /\ pc[r] = "idle" /\ pc'[r] = "recent" /\ userTurn'[r] = Len(turns) + 1
          /\ UNCHANGED <<analyses, recent, previous, stamp>>
      BY <2>1, UserTurnSaved
    <2>3. Blank(r) /\ Len(turns) \in Nat /\ Len(analyses) \in Nat /\ clock' \in Nat
      BY <2>2 DEF Shape, Holds, RowsTyped, Grows
    <2>4. QED
      BY <2>2, <2>3 DEF Holds, Blank
  <1>3. CASE ReadRecent(r)
    <2>1. previous[r] \in 0..Len(analyses)
      BY DEF Shape, Holds
    <2>2. QED
      BY <1>3, <2>1, ReadsRecent, OnwardHolds
  <1>4. CASE ReadAnalysis(r) /\ ~Exit(r)
    BY <1>4, ReadsAnalysis, OnwardHolds
  <1>5. CASE Plain(r) /\ ~Exit(r)
    <2>1. /\ previous[r] \in 0..Len(analyses) /\ 0 \in 0..Len(analyses)
          /\ recent[r] \in Seq(1..Len(turns)) /\ <<>> \in Seq(1..Len(turns))
      BY DEF Shape, RowsTyped, Holds
    <2>2. /\ previous'[r] \in 0..Len(analyses) /\ recent'[r] \in Seq(1..Len(turns))
          /\ Onward(r) /\ stamp'[r] = stamp[r]
      BY <1>5, <2>1, GoesOn
    <2>3. QED
      BY <2>2, OnwardHolds
  <1>6. CASE StampAnswer(r)
    <2>1. /\ stamp'[r] = clock + 1 /\ clock' = clock + 1
          /\ pc[r] = "stamp" /\ pc'[r] = "save" /\ userTurn'[r] = userTurn[r]
          /\ recent'[r] = recent[r] /\ previous'[r] = previous[r]
      BY <1>6, StampsAnswer
    <2>2. Holds(r) /\ turns' = turns /\ analyses' = analyses /\ clock \in Nat
      BY <1>6, RowsStay DEF Shape, RowsTyped, rows, Quiet
    <2>3. QED
      BY <2>1, <2>2 DEF Holds
  <1>7. CASE Ends(r)
    BY <1>1, <1>7, EndsExit
  <1>8. QED
    BY <1>1, <1>2, <1>3, <1>4, <1>5, <1>6, <1>7 DEF Moves, RunStep, Plain, Ends

LEMMA QuietSaves ==
    ASSUME Shape, NEW r \in Runs, Quiet(r)
    PROVE  /\ turns' = turns /\ analyses' = analyses
           /\ pc'[r] = "save" => stamp'[r] = clock + 1
           /\ \A v \in Runs \ {r} : Kept(v)
  <1>1. turns' = turns /\ analyses' = analyses
    BY RowsStay DEF rows
  <1>2. Moves(r)
    BY DEF Quiet, Moves, RunStep
  <1>3. pc'[r] = "save" => StampAnswer(r)
    <2>1. CASE Exit(r)
      BY <2>1, Exits DEF Shape, Blank
    <2>2. CASE ~Exit(r) /\ ~StampAnswer(r)
      <3>1. ReadRecent(r) \/ ReadAnalysis(r) \/ Plain(r) \/ Ends(r)
        BY <2>2 DEF Quiet, Plain, Ends
      <3>2. Onward(r)
        BY <2>2, <3>1, ReadsRecent, ReadsAnalysis, GoesOn, EndsExit
      <3>3. QED
        BY <3>2 DEF Onward
    <2>3. QED
      BY <2>1, <2>2
  <1>4. QED
    BY <1>1, <1>2, <1>3, LocalsNext, StampsAnswer

LEMMA StampsNext ==
    ASSUME Shape, [LlmNext]_vars
    PROVE  StampsDistinct'
  <1>0. /\ clock \in Nat
        /\ Len(turns) \in Nat /\ DOMAIN turns = 1..Len(turns)
        /\ Len(analyses) \in Nat /\ DOMAIN analyses = 1..Len(analyses)
        /\ \A n \in DOMAIN turns : turns[n].at \in 1..clock
        /\ \A i \in DOMAIN analyses : analyses[i].at \in 1..clock
        /\ \A v \in Runs : stamp[v] \in 0..clock
    BY TurnFields, AnalysisFields DEF Shape, RowsTyped, Holds
  <1>1. /\ \A m, n \in DOMAIN turns : m # n => turns[m].at # turns[n].at
        /\ \A v \in Runs : pc[v] = "save" =>
              /\ \A n \in DOMAIN turns : turns[n].at # stamp[v]
              /\ \A w \in Runs : pc[w] = "save" /\ w # v => stamp[w] # stamp[v]
        /\ \A i, j \in DOMAIN analyses : i < j => analyses[i].at < analyses[j].at
    BY DEF Shape, StampsDistinct
  <1>2. ASSUME NEW r \in Runs, NEW t \in Tracks, SaveUserTurn(r, t) PROVE StampsDistinct'
    <2>1. /\ DOMAIN turns' = DOMAIN turns \cup {Len(turns) + 1} /\ analyses' = analyses
          /\ \A n \in DOMAIN turns : turns'[n] = turns[n]
          /\ turns'[Len(turns) + 1].at = clock + 1
          /\ pc'[r] # "save"
      BY <1>2, UserTurnSaved
    <2>2. \A v \in Runs \ {r} : pc'[v] = pc[v] /\ stamp'[v] = stamp[v]
      BY <1>2, LocalsNext DEF Moves, Kept
    <2>3. \A n \in DOMAIN turns' : \/ n \in DOMAIN turns /\ turns'[n] = turns[n]
                                   \/ n = Len(turns) + 1 /\ n \notin DOMAIN turns
      BY <1>0, <2>1
    <2>4. \A m, n \in DOMAIN turns' : m # n => turns'[m].at # turns'[n].at
      BY <1>0, <1>1, <2>1, <2>3
    <2>5. \A v \in Runs : pc'[v] = "save" =>
              /\ \A n \in DOMAIN turns' : turns'[n].at # stamp'[v]
              /\ \A w \in Runs : pc'[w] = "save" /\ w # v => stamp'[w] # stamp'[v]
      BY <1>0, <1>1, <2>1, <2>2, <2>3
    <2>6. QED
      BY <1>1, <2>1, <2>4, <2>5 DEF StampsDistinct
  <1>3. ASSUME NEW r \in Runs, SaveAnswer(r) PROVE StampsDistinct'
    <2>1. /\ DOMAIN turns' = DOMAIN turns \cup {Len(turns) + 1}
          /\ \A n \in DOMAIN turns : turns'[n] = turns[n]
          /\ turns'[Len(turns) + 1].at = stamp[r]
          /\ DOMAIN analyses' = DOMAIN analyses \cup {Len(analyses) + 1}
          /\ \A i \in DOMAIN analyses : analyses'[i] = analyses[i]
          /\ analyses'[Len(analyses) + 1].at = clock + 1
          /\ pc[r] = "save"
      BY <1>3, AnswerSaved
    <2>2. pc'[r] # "save" /\ \A v \in Runs \ {r} : pc'[v] = pc[v] /\ stamp'[v] = stamp[v]
      <3>1. Exit(r)
        BY <1>3 DEF SaveAnswer
      <3>2. QED
        BY <3>1, Exits DEF Shape, Blank, Kept
    <2>3. \A n \in DOMAIN turns' : \/ n \in DOMAIN turns /\ turns'[n] = turns[n]
                                   \/ n = Len(turns) + 1 /\ n \notin DOMAIN turns
      BY <1>0, <2>1
    <2>4. \A m, n \in DOMAIN turns' : m # n => turns'[m].at # turns'[n].at
      BY <1>0, <1>1, <2>1, <2>3
    <2>5. \A v \in Runs : pc'[v] = "save" =>
              /\ \A n \in DOMAIN turns' : turns'[n].at # stamp'[v]
              /\ \A w \in Runs : pc'[w] = "save" /\ w # v => stamp'[w] # stamp'[v]
      BY <1>0, <1>1, <2>1, <2>2, <2>3
    <2>6. \A i, j \in DOMAIN analyses' : i < j => analyses'[i].at < analyses'[j].at
      <3> SUFFICES ASSUME NEW i \in DOMAIN analyses', NEW j \in DOMAIN analyses', i < j
                   PROVE  analyses'[i].at < analyses'[j].at
        OBVIOUS
      <3>1. i \in DOMAIN analyses /\ (j \in DOMAIN analyses \/ j = Len(analyses) + 1)
        BY <1>0, <2>1
      <3>2. analyses[i].at \in 1..clock /\ analyses'[i].at = analyses[i].at
        BY <1>0, <2>1, <3>1
      <3>3. QED
        BY <1>0, <1>1, <2>1, <3>1, <3>2
    <2>7. QED
      BY <2>4, <2>5, <2>6 DEF StampsDistinct
  <1>4. ASSUME NEW r \in Runs, Quiet(r) PROVE StampsDistinct'
    <2>1. /\ turns' = turns /\ analyses' = analyses
          /\ pc'[r] = "save" => stamp'[r] = clock + 1
          /\ \A v \in Runs \ {r} : pc'[v] = pc[v] /\ stamp'[v] = stamp[v]
      BY <1>4, QuietSaves DEF Kept
    <2>2. \A v \in Runs : pc'[v] = "save" =>
              /\ \A n \in DOMAIN turns : turns[n].at # stamp'[v]
              /\ \A w \in Runs : pc'[w] = "save" /\ w # v => stamp'[w] # stamp'[v]
      BY <1>0, <1>1, <2>1
    <2>3. QED
      BY <1>1, <2>1, <2>2 DEF StampsDistinct
  <1>5. CASE Aside
    BY <1>5, AsideKeeps DEF Shape, StampsDistinct
  <1>6. QED
    BY <1>2, <1>3, <1>4, <1>5, StepIs

LEMMA ShapeNext ==
    ASSUME Shape, [LlmNext]_vars
    PROVE  Shape'
  <1>1. RowsTyped' /\ Grows /\ StampsDistinct'
    BY RowsNext, StampsNext
  <1>2. CASE \E r \in Runs : Moves(r)
    <2>1. PICK r \in Runs : Moves(r)
      BY <1>2
    <2>2. LocalsTyped' /\ \A v \in Runs \ {r} : Kept(v)
      BY <2>1, LocalsNext
    <2>3. \A v \in Runs : Holds(v)'
      BY <1>1, <2>1, <2>2, MoverHolds, OthersHold
    <2>4. QED
      BY <1>1, <2>2, <2>3 DEF Shape
  <1>3. CASE Aside
    <2>1. LocalsTyped' /\ \A v \in Runs : Kept(v)
      BY <1>3, AsideKeeps DEF Shape, LocalsTyped
    <2>2. \A v \in Runs : Holds(v)'
      BY <1>1, <2>1, OthersHold
    <2>3. QED
      BY <1>1, <2>1, <2>2 DEF Shape
  <1>4. QED
    BY <1>2, <1>3, OneMoves

LEMMA ShapeAlways == LlmSpec => []Shape
  BY ShapeInit, ShapeNext, PTL DEF LlmSpec

-----------------------------------------------------------------------------
\* Types.

\* How a process ends that saves no answer, or goes on.
GoesAhead(r) ==
    ~Exit(r) /\ userTurn'[r] = userTurn[r] /\ UNCHANGED <<failures, escaped, died>>
FailsFor(r, cause) ==
    /\ failures' = failures \cup {[user |-> userTurn[r], cause |-> cause]}
    /\ Exit(r) /\ UNCHANGED <<escaped, died>>
Escapes(r, cause) ==
    /\ escaped' = escaped \cup {[user |-> userTurn[r], cause |-> cause]}
    /\ Exit(r) /\ UNCHANGED <<failures, died>>
Dies(r) ==
    died' = TRUE /\ Exit(r) /\ UNCHANGED <<failures, escaped>>

LEMMA QuietEnds ==
    ASSUME Shape, NEW r \in Runs, Quiet(r)
    PROVE  /\ userTurn[r] \in DOMAIN turns /\ pc[r] # "idle"
           /\ UNCHANGED <<rows, answers>>
           /\ \/ GoesAhead(r) \/ FailsFor(r, "provider") \/ Dies(r)
              \/ Escapes(r, "timeout") \/ Escapes(r, "candidate")
              \/ /\ FailsFor(r, "summary") /\ Latest(TrackOf(r)) # 0
                 /\ analyses[Latest(TrackOf(r))].summary
  <1>1. pc[r] # "idle"
    BY DEF Quiet, ReadRecent, ReadAnalysis, CaptureSignal, RunNlu, ProviderFails, TimesOut,
         Stage1, SelectMemory, Stage2, StampAnswer, SaveRaises, LlmCrash, At
  <1>2. userTurn[r] \in DOMAIN turns
    BY <1>1 DEF Shape, RowsTyped, Holds
  <1>3. UNCHANGED <<rows, answers>>
    BY RowsStay DEF Quiet, ReadRecent, ReadAnalysis, CaptureSignal, RunNlu, ProviderFails,
       TimesOut, Stage1, SelectMemory, Stage2, StampAnswer, SaveRaises, LlmCrash, FailTurn,
       Escape, outcome
  <1>4. CASE ~Exit(r)
    <2>1. UNCHANGED outcome
      BY <1>4 DEF Quiet, ReadRecent, ReadAnalysis, CaptureSignal, RunNlu, ProviderFails,
         TimesOut, Stage1, SelectMemory, Stage2, StampAnswer, SaveRaises, LlmCrash, FailTurn,
         Escape
    <2>2. ReadRecent(r) \/ ReadAnalysis(r) \/ Plain(r) \/ StampAnswer(r)
      BY <1>4, EndsExit DEF Quiet, Plain, Ends
    <2>3. userTurn'[r] = userTurn[r]
      BY <1>4, <2>2, ReadsRecent, ReadsAnalysis, GoesOn, StampsAnswer DEF Onward
    <2>4. QED
      BY <1>1, <1>2, <1>3, <1>4, <2>1, <2>3 DEF GoesAhead, outcome
  <1>5. CASE Exit(r)
    <2>1. CASE FailTurn(r, "provider")
      BY <1>1, <1>2, <1>3, <2>1 DEF FailTurn, FailsFor
    <2>2. CASE TimesOut(r)
      BY <1>1, <1>2, <1>3, <2>2 DEF TimesOut, Escape, Escapes
    <2>r. CASE SaveRaises(r)
      BY <1>1, <1>2, <1>3, <2>r DEF SaveRaises, Escape, Escapes
    <2>3. CASE LlmCrash(r)
      BY <1>1, <1>2, <1>3, <2>3 DEF LlmCrash, Dies
    <2>4. ASSUME ReadRecent(r) \/ CaptureSignal(r) \/ SelectMemory(r) \/ StampAnswer(r)
          PROVE  FALSE
      <3>1. pc'[r] # "idle"
        BY <2>4, ReadsRecent, SignalCaught, StampsAnswer
           DEF Shape, LocalsTyped, SelectMemory, Goto
      <3>2. QED
        BY <1>5, <3>1, Exits DEF Shape, Blank
    <2>5. CASE ReadAnalysis(r)
      <3>1. CASE FailTurn(r, "summary")
        <4>1. Latest(TrackOf(r)) # 0 /\ analyses[Latest(TrackOf(r))].summary
          <5>1. CASE ~(Latest(TrackOf(r)) # 0 /\ analyses[Latest(TrackOf(r))].summary)
            <6>1. PICK next \in {"signal", "stage2"} : pc' = [pc EXCEPT ![r] = next]
              BY <2>5, <5>1 DEF ReadAnalysis, Goto
            <6>2. QED
              BY <1>5, <6>1, Exits DEF Shape, LocalsTyped, Blank
          <5>2. QED
            BY <5>1
        <4>2. QED
          BY <1>1, <1>2, <1>3, <3>1, <4>1 DEF FailTurn, FailsFor
      <3>2. CASE ~FailTurn(r, "summary")
        <4>1. PICK next \in {"signal", "stage2"} : pc' = [pc EXCEPT ![r] = next]
          BY <2>5, <3>2 DEF ReadAnalysis, Goto
        <4>2. QED
          BY <1>5, <4>1, Exits DEF Shape, LocalsTyped, Blank
      <3>3. QED
        BY <3>1, <3>2
    <2>6. CASE (RunNlu(r) \/ Stage1(r) \/ Stage2(r)) /\ ~FailTurn(r, "provider")
      <3>1. PICK next \in {"stage1", "stamp", "select"} : pc' = [pc EXCEPT ![r] = next]
        BY <2>6 DEF RunNlu, Stage1, Stage2, Goto
      <3>2. QED
        BY <1>5, <3>1, Exits DEF Shape, LocalsTyped, Blank
    <2>7. QED
      BY <2>1, <2>2, <2>r, <2>3, <2>4, <2>5, <2>6 DEF Quiet, ProviderFails
  <1>6. QED
    BY <1>4, <1>5

RestTyped ==
    /\ lastTurn \in [Tracks -> 0..Len(turns)]
    /\ candidates \subseteq [turn : 1..Len(turns), dedupe_key : DedupeKeys]
    /\ items \subseteq Memories
    /\ answers \subseteq [user : 1..Len(turns), assistant : 1..Len(turns), text : Text]
    /\ failures \subseteq [user : 1..Len(turns), cause : Cause]
    /\ escaped \subseteq [user : 1..Len(turns), cause : EscapeCause]
    /\ died \in BOOLEAN

LEMMA RestInit ==
    ASSUME Init
    PROVE  RestTyped
  <1>1. Len(turns) = 0
    BY DEF Init
  <1>2. lastTurn \in [Tracks -> 0..0]
    BY DEF Init
  <1>3. /\ candidates = {} /\ items = {} /\ answers = {}
        /\ failures = {} /\ escaped = {} /\ died = FALSE
    BY DEF Init
  <1>4. QED
    BY <1>1, <1>2, <1>3 DEF RestTyped

LEMMA NewKeysTyped ==
    ASSUME LocalsTyped, NEW r \in Runs
    PROVE  NewKeys(r) \subseteq DedupeKeys /\ Answer(r).text \in Text
  <1>1. decision1[r] \in Decision /\ decision2[r] \in Decision
    BY DEF LocalsTyped
  <1>2. /\ decision1[r].memory_candidates \subseteq RawCandidate
        /\ decision2[r].memory_candidates \subseteq RawCandidate
        /\ decision1[r].text \in Text /\ decision2[r].text \in Text
    BY <1>1 DEF Decision
  <1>3. NewKeys(r) \subseteq DedupeKeys
    BY <1>2 DEF NewKeys, Proposed, RawCandidate
  <1>4. QED
    BY <1>2, <1>3 DEF Answer

LEMMA RestNext ==
    ASSUME Shape, RestTyped, [LlmNext]_vars
    PROVE  RestTyped'
  <1>0. Len(turns) \in Nat /\ DOMAIN turns = 1..Len(turns)
    BY DEF Shape, RowsTyped
  <1>1. ASSUME Len(turns') = Len(turns) + 1
        PROVE  /\ candidates \subseteq [turn : 1..Len(turns'), dedupe_key : DedupeKeys]
               /\ answers \subseteq [user : 1..Len(turns'), assistant : 1..Len(turns'),
                                     text : Text]
               /\ failures \subseteq [user : 1..Len(turns'), cause : Cause]
               /\ escaped \subseteq [user : 1..Len(turns'), cause : EscapeCause]
               /\ \A t \in Tracks : [lastTurn EXCEPT ![t] = Len(turns) + 1]
                                       \in [Tracks -> 0..Len(turns')]
               /\ 1..Len(turns) \subseteq 1..Len(turns')
    BY <1>0, <1>1 DEF RestTyped
  <1>2. ASSUME NEW r \in Runs, NEW t \in Tracks, SaveUserTurn(r, t) PROVE RestTyped'
    <2>1. /\ Len(turns') = Len(turns) + 1
          /\ UNCHANGED <<candidates, items, answers, failures, escaped, died>>
      BY <1>2, UserTurnSaved
    <2>2. lastTurn' = [lastTurn EXCEPT ![t] = Len(turns) + 1]
      BY <1>2 DEF SaveUserTurn, AppendTurn
    <2>3. QED
      BY <1>1, <2>1, <2>2 DEF RestTyped
  <1>3. ASSUME NEW r \in Runs, SaveAnswer(r) PROVE RestTyped'
    <2>1. /\ Len(turns') = Len(turns) + 1
          /\ userTurn[r] \in DOMAIN turns
      BY <1>3, AnswerSaved
    <2>2. /\ lastTurn' = [lastTurn EXCEPT ![TrackOf(r)] = Len(turns) + 1]
          /\ candidates' = candidates
                \cup {[turn |-> userTurn[r], dedupe_key |-> d] : d \in NewKeys(r)}
          /\ answers' = answers \cup {Answer(r)}
          /\ UNCHANGED <<items, failures, escaped, died>>
      BY <1>3 DEF SaveAnswer, AppendTurn
    <2>3. TrackOf(r) \in Tracks
      BY <2>1, TurnFields DEF Shape, TrackOf
    <2>4. userTurn[r] \in 1..Len(turns') /\ Len(turns) + 1 \in 1..Len(turns')
      BY <1>0, <2>1
    <2>5. NewKeys(r) \subseteq DedupeKeys /\ Answer(r).text \in Text
      BY NewKeysTyped DEF Shape
    <2>6. candidates' \subseteq [turn : 1..Len(turns'), dedupe_key : DedupeKeys]
      BY <1>1, <2>1, <2>2, <2>4, <2>5
    <2>7. Answer(r) \in [user : 1..Len(turns'), assistant : 1..Len(turns'), text : Text]
      BY <2>4, <2>5 DEF Answer
    <2>8. QED
      BY <1>1, <2>1, <2>2, <2>3, <2>6, <2>7 DEF RestTyped
  <1>4. ASSUME NEW r \in Runs, Quiet(r) PROVE RestTyped'
    <2>1. /\ userTurn[r] \in 1..Len(turns)
          /\ UNCHANGED <<turns, lastTurn, candidates, items, answers>>
      BY <1>0, <1>4, QuietEnds DEF rows
    <2>2. PICK cause \in Cause, thrown \in EscapeCause :
             GoesAhead(r) \/ FailsFor(r, cause) \/ Escapes(r, thrown) \/ Dies(r)
      <3>1. /\ "provider" \in Cause /\ "summary" \in Cause
            /\ "timeout" \in EscapeCause /\ "candidate" \in EscapeCause
        BY DEF Cause, EscapeCause
      <3>2. QED
        BY <1>4, <3>1, QuietEnds
    <2>3. /\ [user |-> userTurn[r], cause |-> cause] \in [user : 1..Len(turns), cause : Cause]
          /\ [user |-> userTurn[r], cause |-> thrown]
                \in [user : 1..Len(turns), cause : EscapeCause]
      BY <2>1, <2>2
    <2>4. QED
      BY <2>1, <2>2, <2>3 DEF RestTyped, GoesAhead, FailsFor, Escapes, Dies
  <1>5. CASE Aside
    <2>1. items' \subseteq Memories
      BY <1>5 DEF Aside, WriteMemoryItem, vars, rows, RestTyped
    <2>2. QED
      BY <1>5, <2>1, AsideKeeps DEF RestTyped
  <1>6. QED
    BY <1>2, <1>3, <1>4, <1>5, StepIs

LEMMA TypesFollow ==
    ASSUME Shape, RestTyped
    PROVE  LlmTypeOK
  <1>1. /\ turns \in Seq([track : Tracks, role : {"user", "assistant"}, at : 1..clock])
        /\ analyses \in Seq([turn : 1..Len(turns), summary : BOOLEAN, at : 1..clock])
    BY DEF Shape, RowsTyped, Turn, Analysis
  <1>2. /\ userTurn \in [Runs -> 0..Len(turns)]
        /\ previous \in [Runs -> 0..Len(analyses)]
        /\ stamp \in [Runs -> 0..clock]
        /\ \A r \in Runs : recent[r] \in Seq(1..Len(turns))
    BY DEF Shape, LocalsTyped, Holds
  <1>3. /\ pc \in [Runs -> {"idle", "recent", "analysis", "signal", "nlu", "stage1",
                            "select", "stage2", "stamp", "save"}]
        /\ stage \in [Runs -> {1, 2}]
        /\ \A r \in Runs : {decision1[r], decision2[r]} \subseteq Decision
        /\ \A r \in Runs : {chosen[r], rejected[r]} \subseteq Seq(MemoryIds)
    BY DEF Shape, LocalsTyped, Places
  <1>4. QED
    BY <1>1, <1>2, <1>3 DEF RestTyped, LlmTypeOK

(* The rows and what each process remembers have their types in every      *)
(* state: a pointer of a process points at a row that is there.            *)
THEOREM LlmTypes == LlmSpec => []LlmTypeOK
  <1>1. Shape /\ RestTyped /\ [LlmNext]_vars => RestTyped'
    BY RestNext
  <1>2. Init => RestTyped
    BY RestInit
  <1>3. Shape /\ RestTyped => LlmTypeOK
    BY TypesFollow
  <1>4. QED
    BY <1>1, <1>2, <1>3, ShapeAlways, PTL DEF LlmSpec

-----------------------------------------------------------------------------
\* What a process remembers agrees with where it is.

NoneTwice(s) == \A i, j \in DOMAIN s : i # j => s[i] # s[j]

LEMMA ListCounts ==
    ASSUME NEW T, NEW s \in Seq(T), NoneTwice(s)
    PROVE  Cardinality(ToSet(s)) = Len(s)
  <1> DEFINE at == [i \in 1..Len(s) |-> s[i]]
  <1>1. DOMAIN s = 1..Len(s) /\ Len(s) \in Nat
    OBVIOUS
  <1>2. at \in Bijection(1..Len(s), ToSet(s))
    <2>1. at \in [1..Len(s) -> ToSet(s)]
      BY <1>1 DEF ToSet
    <2>2. \A i, j \in 1..Len(s) : i # j => at[i] # at[j]
      BY <1>1 DEF NoneTwice
    <2>3. \A x \in ToSet(s) : \E i \in 1..Len(s) : at[i] = x
      BY <1>1 DEF ToSet
    <2> HIDE DEF at
    <2>4. QED
      BY <2>1, <2>2, <2>3 DEF Bijection, Injection, IsInjective, Surjection
  <1>3. ExistsBijection(1..Len(s), ToSet(s))
    <2> HIDE DEF at
    <2>1. QED
      BY <1>2 DEF ExistsBijection
  <1>4. IsFiniteSet(1..Len(s)) /\ Cardinality(1..Len(s)) = Len(s)
    BY <1>1, FS_Interval
  <1>5. QED
    BY <1>3, <1>4, FS_Bijection, SMTT(30)

Partition(in, out, ids, active) ==
    /\ ToSet(in) \cup ToSet(out) = ToSet(ids)
    /\ Len(in) + Len(out) = Cardinality(ToSet(ids))
    /\ ToSet(in) \subseteq active
    /\ Len(in) <= SELECTED_MEMORY_MAX_ITEMS

LEMMA SelectionParts ==
    ASSUME NEW ids \in Seq(MemoryIds), NoneTwice(ids)
    PROVE  Partition(Chooses(ids), Rejects(ids), ids, items)
  <1> DEFINE n == Len(ids)
             m == IF n < SELECTED_MEMORY_MAX_ITEMS THEN n ELSE SELECTED_MEMORY_MAX_ITEMS
  <1>1. /\ SELECTED_MEMORY_MAX_ITEMS \in Nat /\ n \in Nat /\ DOMAIN ids = 1..n
        /\ m \in 0..n /\ m <= SELECTED_MEMORY_MAX_ITEMS
    BY LimitsAssumption
  <1>2. PICK limited : limited = Limited(ids)
    OBVIOUS
  <1>3. limited = SubSeq(ids, 1, m)
    BY <1>2 DEF Limited
  <1> HIDE DEF m
  <1>4. /\ limited \in Seq(MemoryIds) /\ Len(limited) = m /\ DOMAIN limited = 1..m
        /\ \A i \in 1..m : limited[i] = ids[i]
    BY <1>1, <1>3
  <1>5. \A i \in 1..n : ids[i] \in ToSet(limited) <=> i <= m
    <2>1. ToSet(limited) = {ids[i] : i \in 1..m}
      BY <1>4 DEF ToSet
    <2>2. ASSUME NEW i \in 1..n PROVE ids[i] \in ToSet(limited) <=> i <= m
      <3>1. i <= m => ids[i] \in ToSet(limited)
        BY <1>1, <2>1
      <3>2. ASSUME NEW j \in 1..m, ids[i] = ids[j] PROVE i <= m
        <4>1. i = j
          BY <1>1, <3>2 DEF NoneTwice
        <4>2. QED
          BY <1>1, <4>1
      <3>3. QED
        BY <2>1, <3>1, <3>2
    <2>3. QED
      BY <2>2
  <1>6. PICK P : P = {i \in DOMAIN limited : ids[i] \in items}
    OBVIOUS
  <1>7. PICK Q : Q = {i \in DOMAIN ids : ids[i] \notin items \cap ToSet(limited)}
    OBVIOUS
  <1>8. P \subseteq 1..m /\ P \subseteq 1..n /\ Q = (1..n) \ P
    BY <1>1, <1>4, <1>5, <1>6, <1>7
  <1>9. PICK in, out : in = Chooses(ids) /\ out = Rejects(ids)
    OBVIOUS
  <1>10. in = AtPositions(limited, P) /\ out = AtPositions(ids, Q)
    BY <1>2, <1>6, <1>7, <1>9 DEF Chooses, Rejects
  <1>11. Len(in) = Cardinality(P) /\ ToSet(in) = {limited[i] : i \in P}
    <2>1. P \subseteq DOMAIN limited
      BY <1>4, <1>8
    <2>2. QED
      BY <1>4, <1>10, <2>1, PositionsKept
  <1>12. Len(out) = Cardinality(Q) /\ ToSet(out) = {ids[i] : i \in Q}
    <2>1. Q \subseteq DOMAIN ids
      BY <1>1, <1>8
    <2>2. QED
      BY <1>10, <2>1, PositionsKept
  <1>13. ToSet(in) = {ids[i] : i \in P}
    BY <1>4, <1>8, <1>11
  <1>14. ToSet(in) \cup ToSet(out) = ToSet(ids)
    <2>1. ToSet(ids) = {ids[i] : i \in 1..n}
      BY <1>1 DEF ToSet
    <2>2. QED
      BY <1>8, <1>12, <1>13, <2>1
  <1>15. ToSet(in) \subseteq items
    BY <1>6, <1>13
  <1>16. /\ IsFiniteSet(1..n) /\ Cardinality(1..n) = n
         /\ IsFiniteSet(1..m) /\ Cardinality(1..m) = m
    <2>1. n \in Int /\ m \in Int /\ 1 \in Int /\ n >= 0 /\ m >= 0
      BY <1>1
    <2>2. /\ IsFiniteSet(1..n) /\ Cardinality(1..n) = IF 1 > n THEN 0 ELSE n - 1 + 1
          /\ IsFiniteSet(1..m) /\ Cardinality(1..m) = IF 1 > m THEN 0 ELSE m - 1 + 1
      BY <2>1, FS_Interval
    <2>3. QED
      BY <2>1, <2>2
  <1>17. IsFiniteSet(P) /\ Cardinality(P) <= m /\ Cardinality(P) \in Nat
    BY <1>8, <1>16, FS_Subset, FS_CardinalityType
  <1>18. Cardinality(Q) = n - Cardinality(P)
    <2>1. (1..n) \cap P = P
      BY <1>8
    <2>2. Cardinality((1..n) \ P) = Cardinality(1..n) - Cardinality((1..n) \cap P)
      BY <1>16, FS_Difference
    <2>3. QED
      BY <1>8, <1>16, <2>1, <2>2
  <1>19. Cardinality(ToSet(ids)) = n
    BY ListCounts
  <1>20. Len(in) + Len(out) = Cardinality(ToSet(ids))
    BY <1>1, <1>11, <1>12, <1>17, <1>18, <1>19
  <1>21. Len(in) <= SELECTED_MEMORY_MAX_ITEMS
    BY <1>1, <1>11, <1>17
  <1>22. QED
    BY <1>9, <1>14, <1>15, <1>20, <1>21 DEF Partition

\* The text it is about to save.
Draft(r) == IF stage[r] = 2 THEN decision2[r].text ELSE decision1[r].text

OnStage(r) ==
    /\ pc[r] \in {"idle", "signal", "nlu", "stage1", "select"} => stage[r] = 1
    /\ pc[r] = "stage2" => stage[r] = 2
    /\ pc[r] \in {"stamp", "save"} => Draft(r) = "text"
    /\ pc[r] = "stage1" => Repaired(frame[r].acts, frame[r].raw)
    /\ NoneTwice(decision1[r].selected)
    /\ stage[r] = 2 => Partition(chosen[r], rejected[r], decision1[r].selected, items)

LEMMA BlankOnStage ==
    ASSUME NEW r, Blank(r)
    PROVE  OnStage(r)
  BY Nothing DEF Blank, OnStage, NoneTwice

LEMMA OthersOnStage ==
    ASSUME NEW v, OnStage(v), Kept(v), items \subseteq items'
    PROVE  OnStage(v)'
  <1>1. /\ pc'[v] \in {"idle", "signal", "nlu", "stage1", "select"} => stage'[v] = 1
        /\ pc'[v] = "stage2" => stage'[v] = 2
        /\ pc'[v] \in {"stamp", "save"} => Draft(v)' = "text"
        /\ pc'[v] = "stage1" => Repaired(frame'[v].acts, frame'[v].raw)
        /\ NoneTwice(decision1'[v].selected)
    BY DEF OnStage, Kept, Draft
  <1>2. stage'[v] = 2 => Partition(chosen[v], rejected[v], decision1[v].selected, items)
    BY DEF OnStage, Kept
  <1>3. stage'[v] = 2 => Partition(chosen'[v], rejected'[v], decision1'[v].selected, items')
    BY <1>2 DEF Kept, Partition
  <1>4. QED
    BY <1>1, <1>3 DEF OnStage

LEMMA MoverOnStage ==
    ASSUME Shape, NEW r \in Runs, OnStage(r), Moves(r)
    PROVE  OnStage(r)'
  <1>0. /\ pc \in [Runs -> Places] /\ stage \in [Runs -> {1, 2}] /\ DOMAIN frame = Runs
        /\ decision1 \in [Runs -> Decision] /\ decision2 \in [Runs -> Decision]
        /\ chosen \in [Runs -> Seq(MemoryIds)] /\ rejected \in [Runs -> Seq(MemoryIds)]
    BY DEF Shape, LocalsTyped
  <1>1. CASE Exit(r)
    <2>1. Blank(r)'
      BY <1>1, Exits DEF Shape
    <2>2. decision1'[r].selected = <<>>
      BY <2>1, Nothing DEF Blank
    <2>3. QED
      BY <2>1, <2>2 DEF Blank, OnStage, NoneTwice
  <1>2. CASE \E t \in Tracks : SaveUserTurn(r, t)
    <2>1. /\ pc[r] = "idle" /\ pc'[r] = "recent"
          /\ UNCHANGED <<stage, decision1>>
      BY <1>2, UserTurnSaved
    <2>2. QED
      BY <2>1 DEF OnStage
  <1>3. CASE ReadRecent(r)
    <2>1. /\ pc[r] = "recent" /\ pc'[r] = "analysis"
          /\ UNCHANGED <<stage, decision1, chosen, rejected, items>>
      BY <1>0, <1>3 DEF ReadRecent, At, Goto, results, rows
    <2>2. QED
      BY <2>1 DEF OnStage, Partition
  <1>4. CASE ReadAnalysis(r) /\ ~Exit(r)
    <2>1. /\ pc'[r] = (IF stage[r] = 1 THEN "signal" ELSE "stage2")
          /\ UNCHANGED <<stage, decision1, chosen, rejected, items>>
      BY <1>0, <1>4, ReadsAnalysis DEF ReadAnalysis, FailTurn, results, rows
    <2>2. stage[r] \in {1, 2}
      BY <1>0
    <2>3. QED
      BY <2>1, <2>2 DEF OnStage, Partition
  <1>5. CASE CaptureSignal(r)
    <2>1. /\ pc[r] = "signal" /\ pc'[r] = "nlu"
          /\ UNCHANGED <<stage, decision1, chosen, rejected, items>>
      BY <1>0, <1>5, SignalCaught
    <2>2. QED
      BY <2>1 DEF OnStage, Partition
  <1>6. CASE RunNlu(r) /\ ~Exit(r)
    <2>1. PICK p \in Stage0Payloads :
             /\ frame' = [frame EXCEPT ![r] = [raw |-> p.dialogue_acts, acts |-> RepairedActs(p)]]
             /\ pc[r] = "nlu" /\ pc' = [pc EXCEPT ![r] = "stage1"]
             /\ UNCHANGED <<stage, decision1, chosen, rejected, items>>
      BY <1>6 DEF RunNlu, FailTurn, At, Goto, context, rows
    <2>2. /\ frame'[r].raw = p.dialogue_acts /\ frame'[r].acts = RepairedActs(p)
      BY <1>0, <2>1
    <2>3. Repaired(frame'[r].acts, frame'[r].raw)
      BY <2>2, ActsAreRepaired
    <2>4. pc'[r] = "stage1" /\ pc[r] = "nlu"
      BY <1>0, <2>1
    <2>5. QED
      BY <2>1, <2>3, <2>4 DEF OnStage
  <1>7. CASE Stage1(r) /\ ~Exit(r)
    <2>1. PICK p \in Stage1Payloads :
             /\ p.decision_type # "answer_directly" \/ p.draft_answer = "text"
             /\ decision1' = [decision1 EXCEPT ![r] = Stage1Decision(p)]
             /\ pc[r] = "stage1"
             /\ pc' = [pc EXCEPT ![r] =
                          IF p.decision_type = "answer_directly" THEN "stamp" ELSE "select"]
             /\ UNCHANGED <<stage, items>>
      BY <1>7 DEF Stage1, FailTurn, At, Goto, context, rows
    <2>2. PICK d : d = Stage1Decision(p)
      OBVIOUS
    <2>3. d.text = p.draft_answer /\ NoneTwice(d.selected)
      BY <2>2, Stage1Made DEF NoneTwice
    <2>4. decision1'[r] = d
      BY <1>0, <2>1, <2>2
    <2>5. pc[r] = "stage1" /\ pc'[r] = (IF p.decision_type = "answer_directly"
                                       THEN "stamp" ELSE "select")
      BY <1>0, <2>1
    <2>6. stage[r] = 1 /\ stage' = stage
      BY <2>1 DEF OnStage
    <2>7. pc'[r] = "stamp" => Draft(r)' = "text"
      BY <2>1, <2>3, <2>4, <2>5, <2>6 DEF Draft
    <2>8. QED
      BY <2>3, <2>4, <2>5, <2>6, <2>7 DEF OnStage
  <1>8. CASE SelectMemory(r)
    <2>1. PICK ids : ids = decision1[r].selected
      OBVIOUS
    <2>2. /\ pc[r] = "select" /\ pc'[r] = "recent" /\ stage'[r] = 2
          /\ chosen'[r] = Chooses(ids) /\ rejected'[r] = Rejects(ids)
          /\ UNCHANGED <<decision1, items>>
      BY <1>0, <1>8, <2>1 DEF SelectMemory, At, Goto, results, rows
    <2>3. ids \in Seq(MemoryIds) /\ NoneTwice(ids)
      BY <1>0, <2>1 DEF Decision, OnStage
    <2>4. Partition(Chooses(ids), Rejects(ids), ids, items)
      BY <2>3, SelectionParts
    <2>5. Partition(chosen'[r], rejected'[r], decision1'[r].selected, items')
      BY <2>1, <2>2, <2>4 DEF Partition
    <2>6. QED
      BY <2>1, <2>2, <2>3, <2>5 DEF OnStage
  <1>9. CASE Stage2(r) /\ ~Exit(r)
    <2>1. PICK p \in Stage2Payloads :
             /\ p.final_answer = "text"
             /\ decision2' = [decision2 EXCEPT ![r] = Stage2Decision(p)]
             /\ pc[r] = "stage2" /\ pc' = [pc EXCEPT ![r] = "stamp"]
             /\ UNCHANGED <<stage, decision1, chosen, rejected, items>>
      BY <1>9 DEF Stage2, Stage2Fits, FailTurn, At, Goto, context, rows
    <2>2. PICK d : d = Stage2Decision(p)
      OBVIOUS
    <2>3. d.text = "text"
      BY <2>1, <2>2, Stage2Made
    <2>4. decision2'[r] = d /\ pc'[r] = "stamp" /\ pc[r] = "stage2"
      BY <1>0, <2>1, <2>2
    <2>5. stage'[r] = 2 /\ stage' = stage
      BY <2>1 DEF OnStage
    <2>6. Draft(r)' = "text"
      BY <2>3, <2>4, <2>5 DEF Draft
    <2>7. QED
      BY <2>1, <2>4, <2>5, <2>6 DEF OnStage, Partition
  <1>10. CASE StampAnswer(r)
    <2>1. /\ pc[r] = "stamp" /\ pc'[r] = "save"
          /\ UNCHANGED <<stage, decision1, decision2, chosen, rejected, items>>
      BY <1>0, <1>10 DEF StampAnswer, At, Goto, context, rows
    <2>2. QED
      BY <2>1 DEF OnStage, Partition, Draft
  <1>11. CASE Ends(r)
    BY <1>1, <1>11, EndsExit
  <1>12. QED
    BY <1>1, <1>2, <1>3, <1>4, <1>5, <1>6, <1>7, <1>8, <1>9, <1>10, <1>11
       DEF Moves, RunStep, Ends

StagesAgree == \A r \in Runs : OnStage(r)

LEMMA StagesNext ==
    ASSUME Shape, StagesAgree, [LlmNext]_vars
    PROVE  StagesAgree'
  <1>1. items \subseteq items'
    <2>1. ASSUME NEW r \in Runs, NEW t \in Tracks, SaveUserTurn(r, t) PROVE items' = items
      BY <2>1 DEF SaveUserTurn
    <2>2. ASSUME NEW r \in Runs, SaveAnswer(r) PROVE items' = items
      BY <2>2 DEF SaveAnswer
    <2>3. ASSUME NEW r \in Runs, Quiet(r) PROVE items' = items
      BY <2>3, RowsStay DEF rows
    <2>4. CASE Aside
      BY <2>4, AsideKeeps
    <2>5. QED
      BY <2>1, <2>2, <2>3, <2>4, StepIs
  <1>2. CASE \E r \in Runs : Moves(r)
    <2>1. PICK r \in Runs : Moves(r)
      BY <1>2
    <2>2. \A v \in Runs \ {r} : Kept(v)
      BY <2>1, LocalsNext
    <2>3. QED
      BY <1>1, <2>1, <2>2, MoverOnStage, OthersOnStage DEF StagesAgree
  <1>3. CASE Aside
    BY <1>1, <1>3, AsideKeeps, OthersOnStage DEF StagesAgree
  <1>4. QED
    BY <1>2, <1>3, OneMoves

LEMMA StagesAlways == LlmSpec => []StagesAgree
  <1>1. Init => StagesAgree
    <2>1. Init => \A r \in Runs : Blank(r)
      BY DEF Init, Blank
    <2>2. QED
      BY <2>1, BlankOnStage DEF StagesAgree
  <1>2. Shape /\ StagesAgree /\ [LlmNext]_vars => StagesAgree'
    BY StagesNext
  <1>3. QED
    BY <1>1, <1>2, ShapeAlways, PTL DEF LlmSpec

(* The dialogue acts Stage 1 is given are the model's, repaired as the     *)
(* contract has them (_repair_stage0_dialogue_acts), whatever list of      *)
(* strings the model answers.                                              *)
THEOREM ActsAlwaysRepaired == LlmSpec => []ActsRepaired
  <1>1. StagesAgree => ActsRepaired
    BY DEF StagesAgree, OnStage, Repaired, First, ActsRepaired, At
  <1>2. QED
    BY <1>1, StagesAlways, PTL

(* Every id the model selects is in the Stage 2 context or rejected, none  *)
(* in both (build_stage2_context), for any limit and any memory, while     *)
(* other processes add to it.                                              *)
THEOREM SelectionComplete == LlmSpec => []SelectionPartitioned
  <1>1. StagesAgree => SelectionPartitioned
    BY DEF StagesAgree, OnStage, Partition, SelectionPartitioned
  <1>2. QED
    BY <1>1, StagesAlways, PTL

-----------------------------------------------------------------------------
\* Answers are saved whole.

OneAnalysis(n) ==
    \E i \in DOMAIN analyses :
       /\ analyses[i].turn = n
       /\ \A j \in DOMAIN analyses : analyses[j].turn = n => j = i

AnswerOf(n) ==
    \E a \in answers : /\ a.assistant = n /\ a.text = "text"
                       /\ turns[a.user].track = turns[n].track

Whole ==
    /\ \A n \in DOMAIN turns : turns[n].role = "assistant" => OneAnalysis(n) /\ AnswerOf(n)
    /\ \A c \in candidates : \E a \in answers : a.user = c.turn
    /\ \A c, d \in candidates :
          c.dedupe_key = d.dedupe_key /\ turns[c.turn].track = turns[d.turn].track => c = d

LEMMA WholeStays ==
    ASSUME Shape, RestTyped, Whole, DOMAIN turns' = DOMAIN turns \cup {Len(turns) + 1},
           \A n \in DOMAIN turns : turns'[n] = turns[n],
           turns'[Len(turns) + 1].role = "user",
           UNCHANGED <<analyses, candidates, answers>>
    PROVE  Whole'
  <1>1. \A c \in candidates : c.turn \in DOMAIN turns
    BY DEF Shape, RowsTyped, RestTyped
  <1>2. \A a \in answers : a.user \in DOMAIN turns
    BY DEF Shape, RowsTyped, RestTyped
  <1>3. ASSUME NEW n \in DOMAIN turns', turns'[n].role = "assistant"
        PROVE  OneAnalysis(n)' /\ AnswerOf(n)'
    <2>1. n \in DOMAIN turns /\ turns'[n] = turns[n]
      BY <1>3
    <2>2. OneAnalysis(n) /\ AnswerOf(n)
      BY <1>3, <2>1 DEF Whole
    <2>3. QED
      BY <1>2, <2>1, <2>2 DEF OneAnalysis, AnswerOf
  <1>4. /\ \A c \in candidates : \E a \in answers : a.user = c.turn
        /\ \A c, d \in candidates :
              c.dedupe_key = d.dedupe_key /\ turns'[c.turn].track = turns'[d.turn].track => c = d
    BY <1>1 DEF Whole
  <1>5. QED
    BY <1>3, <1>4 DEF Whole

LEMMA WholeNext ==
    ASSUME Shape, RestTyped, StagesAgree, Whole, [LlmNext]_vars
    PROVE  Whole'
  <1>0. /\ Len(turns) \in Nat /\ DOMAIN turns = 1..Len(turns)
        /\ Len(analyses) \in Nat /\ DOMAIN analyses = 1..Len(analyses)
        /\ \A c \in candidates : c.turn \in DOMAIN turns
        /\ \A a \in answers : a.user \in DOMAIN turns
    BY DEF Shape, RowsTyped, RestTyped
  <1>1. ASSUME NEW r \in Runs, NEW t \in Tracks, SaveUserTurn(r, t) PROVE Whole'
    <2>1. /\ DOMAIN turns' = DOMAIN turns \cup {Len(turns) + 1}
          /\ \A n \in DOMAIN turns : turns'[n] = turns[n]
          /\ turns'[Len(turns) + 1].role = "user"
          /\ UNCHANGED <<analyses, candidates, answers>>
      BY <1>1, UserTurnSaved
    <2>2. QED
      BY <2>1, WholeStays
  <1>2. ASSUME NEW r \in Runs, SaveAnswer(r) PROVE Whole'
    <2> DEFINE new == Len(turns) + 1
    <2>1. /\ DOMAIN turns' = DOMAIN turns \cup {new} /\ new \notin DOMAIN turns
          /\ \A n \in DOMAIN turns : turns'[n] = turns[n]
          /\ turns'[new].track = TrackOf(r)
          /\ DOMAIN analyses' = DOMAIN analyses \cup {Len(analyses) + 1}
          /\ Len(analyses) + 1 \notin DOMAIN analyses
          /\ \A i \in DOMAIN analyses : analyses'[i] = analyses[i]
          /\ analyses'[Len(analyses) + 1].turn = new
          /\ userTurn[r] \in DOMAIN turns /\ pc[r] = "save"
      BY <1>2, AnswerSaved
    <2>2. /\ candidates' = candidates
                \cup {[turn |-> userTurn[r], dedupe_key |-> d] : d \in NewKeys(r)}
          /\ answers' = answers \cup {Answer(r)}
      BY <1>2 DEF SaveAnswer
    <2>3. /\ Answer(r).user = userTurn[r] /\ Answer(r).assistant = new
          /\ Answer(r).text = "text"
      BY <2>1 DEF Answer, StagesAgree, OnStage, Draft
    <2>4. \A i \in DOMAIN analyses : analyses[i].turn \in DOMAIN turns
      BY AnalysisFields DEF Shape
    <2> HIDE DEF new
    <2>5. ASSUME NEW n \in DOMAIN turns', turns'[n].role = "assistant"
          PROVE  OneAnalysis(n)' /\ AnswerOf(n)'
      <3>1. CASE n = new
        <4>1. OneAnalysis(n)'
          BY <2>1, <2>4, <3>1 DEF OneAnalysis
        <4>2. AnswerOf(n)'
          BY <2>1, <2>2, <2>3, <3>1 DEF AnswerOf, TrackOf
        <4>3. QED
          BY <4>1, <4>2
      <3>2. CASE n # new
        <4>1. n \in DOMAIN turns /\ turns'[n] = turns[n]
          BY <2>1, <3>2
        <4>2. OneAnalysis(n) /\ AnswerOf(n)
          BY <2>5, <4>1 DEF Whole
        <4>3. OneAnalysis(n)'
          BY <2>1, <3>2, <4>2 DEF OneAnalysis
        <4>4. AnswerOf(n)'
          BY <1>0, <2>1, <2>2, <4>1, <4>2 DEF AnswerOf
        <4>5. QED
          BY <4>3, <4>4
      <3>3. QED
        BY <3>1, <3>2
    <2>6. ASSUME NEW c \in candidates'
          PROVE  \/ c \in candidates /\ turns'[c.turn].track = turns[c.turn].track
                 \/ /\ c = [turn |-> userTurn[r], dedupe_key |-> c.dedupe_key]
                    /\ c.turn = userTurn[r] /\ turns'[c.turn].track = TrackOf(r)
                    /\ c.dedupe_key \notin KnownKeys(TrackOf(r))
      <3>1. CASE c \in candidates
        BY <1>0, <2>1, <3>1
      <3>2. CASE c \notin candidates
        <4>1. PICK d \in NewKeys(r) : c = [turn |-> userTurn[r], dedupe_key |-> d]
          BY <2>2, <2>6, <3>2
        <4>2. c.turn = userTurn[r] /\ c.dedupe_key = d
          BY <4>1
        <4>3. d \notin KnownKeys(TrackOf(r))
          BY <4>1 DEF NewKeys
        <4>4. QED
          BY <2>1, <4>1, <4>2, <4>3 DEF TrackOf
      <3>3. QED
        BY <3>1, <3>2
    <2>7. \A c \in candidates' : \E a \in answers' : a.user = c.turn
      BY <2>2, <2>3, <2>6 DEF Whole
    <2>8. \A c \in candidates : turns[c.turn].track = TrackOf(r)
                                   => c.dedupe_key \in KnownKeys(TrackOf(r))
      BY DEF KnownKeys
    <2>9. ASSUME NEW c \in candidates', NEW d \in candidates',
                 c.dedupe_key = d.dedupe_key, turns'[c.turn].track = turns'[d.turn].track
          PROVE  c = d
      <3>1. CASE c \in candidates /\ d \in candidates
        BY <2>6, <2>9, <3>1, <1>0, <2>1 DEF Whole
      <3>2. CASE c \notin candidates /\ d \notin candidates
        BY <2>6, <2>9, <3>2
      <3>3. CASE c \in candidates /\ d \notin candidates
        BY <1>0, <2>1, <2>6, <2>8, <2>9, <3>3
      <3>4. CASE c \notin candidates /\ d \in candidates
        BY <1>0, <2>1, <2>6, <2>8, <2>9, <3>4
      <3>5. QED
        BY <3>1, <3>2, <3>3, <3>4
    <2>10. QED
      BY <2>5, <2>7, <2>9 DEF Whole
  <1>3. ASSUME UNCHANGED <<turns, analyses, candidates, answers>> PROVE Whole'
    BY <1>3 DEF Whole, OneAnalysis, AnswerOf
  <1>4. ASSUME NEW r \in Runs, Quiet(r) PROVE Whole'
    BY <1>3, <1>4, QuietEnds DEF rows
  <1>5. CASE Aside
    BY <1>3, <1>5, AsideKeeps
  <1>6. QED
    BY <1>1, <1>2, <1>3, <1>4, <1>5, StepIs

LEMMA RestAlways == LlmSpec => []RestTyped
  <1>1. Shape /\ RestTyped /\ [LlmNext]_vars => RestTyped'
    BY RestNext
  <1>2. QED
    BY <1>1, RestInit, ShapeAlways, PTL DEF LlmSpec

LEMMA WholeAlways == LlmSpec => []Whole
  <1>1. Init => Whole
    <2>1. Init => DOMAIN turns = {} /\ candidates = {}
      BY DEF Init
    <2>2. QED
      BY <2>1 DEF Whole
  <1>2. Shape /\ RestTyped /\ StagesAgree /\ Whole /\ [LlmNext]_vars => Whole'
    BY WholeNext
  <1>3. QED
    BY <1>1, <1>2, ShapeAlways, RestAlways, StagesAlways, PTL DEF LlmSpec

(* The second transaction is whole for every answer (cli.py                *)
(* run_llm_message): a turn with its one analysis and candidates that are  *)
(* new to its track, and never with a blank text, whichever stage wrote    *)
(* it, whoever else writes.                                                *)
THEOREM AnswersSavedWhole == LlmSpec => []AnswersComplete
  <1>1. ASSUME Whole PROVE AnswersComplete
    <2>1. ASSUME NEW n \in DOMAIN turns, turns[n].role = "assistant"
          PROVE  Cardinality({i \in DOMAIN analyses : analyses[i].turn = n}) = 1
      <3>1. OneAnalysis(n)
        BY <1>1, <2>1 DEF Whole
      <3>2. PICK i \in DOMAIN analyses : {j \in DOMAIN analyses : analyses[j].turn = n} = {i}
        BY <3>1 DEF OneAnalysis
      <3>3. Cardinality({i}) = 1
        BY FS_Singleton
      <3>4. QED
        BY <3>2, <3>3
    <2>2. QED
      BY <1>1, <2>1 DEF Whole, AnswerOf, AnswersComplete
  <1>2. QED
    BY <1>1, WholeAlways, PTL

-----------------------------------------------------------------------------
\* The messages of a context.

\* `s` is a context for the message u: sorted, and what sorts after one of it
\* and was saved before the message, or before one of it, is in it.
IsContext(s, u) ==
    /\ \A n \in ToSet(s) : turns[n].track = turns[u].track /\ n # u
    /\ \A i, j \in DOMAIN s : i < j => TurnBefore(s[i], s[j])
    /\ \A m \in ToSet(s), n \in DOMAIN turns \ {u} :
          /\ turns[n].track = turns[u].track
          /\ TurnBefore(m, n)
          /\ n < u \/ \E last \in ToSet(s) : n < last
          => n \in ToSet(s)

LEMMA OrderStays ==
    ASSUME Shape, Grows, NEW m \in DOMAIN turns, NEW n \in DOMAIN turns
    PROVE  TurnBefore(m, n)' <=> TurnBefore(m, n)
  <1>1. turns[m].at \in 1..clock /\ turns[n].at \in 1..clock
    BY TurnFields DEF Shape
  <1>2. turns'[m] = turns[m] /\ turns'[n] = turns[n]
    BY DEF Grows
  <1>3. clock \in Nat /\ whole \in 0..clock
    BY DEF Shape, RowsTyped
  <1>4. whole' = whole \/ (whole = 0 /\ whole' > clock /\ whole' \in 0..clock' /\ clock' \in Nat)
    BY DEF Grows
  <1>5. QED
    BY <1>1, <1>2, <1>3, <1>4 DEF TurnBefore, SortsBefore

LEMMA OneWay ==
    ASSUME Shape, NEW m \in DOMAIN turns, NEW n \in DOMAIN turns, TurnBefore(m, n)
    PROVE  m # n /\ ~TurnBefore(n, m)
  <1>1. turns[m].at \in Nat /\ turns[n].at \in Nat /\ whole \in Nat
    BY TurnFields DEF Shape, RowsTyped
  <1>2. QED
    BY <1>1 DEF TurnBefore, SortsBefore

LEMMA ContextStays ==
    ASSUME Shape, Grows, RowsTyped', NEW u \in DOMAIN turns, NEW s \in Seq(1..Len(turns)),
           IsContext(s, u)
    PROVE  IsContext(s, u)'
  <1>1. /\ Len(turns) \in Nat /\ DOMAIN turns = 1..Len(turns)
        /\ DOMAIN turns' = 1..Len(turns') /\ Len(turns') \in Nat
        /\ \A n \in DOMAIN turns : turns'[n] = turns[n]
    BY DEF Shape, RowsTyped, Grows
  <1>2. ToSet(s) \subseteq DOMAIN turns /\ \A i \in DOMAIN s : s[i] \in DOMAIN turns
    BY <1>1 DEF ToSet
  <1>3. \A n \in ToSet(s) : turns'[n].track = turns'[u].track /\ n # u
    BY <1>1, <1>2 DEF IsContext
  <1>4. \A i, j \in DOMAIN s : i < j => TurnBefore(s[i], s[j])'
    BY <1>2, OrderStays DEF IsContext
  <1>5. ASSUME NEW m \in ToSet(s), NEW n \in DOMAIN turns' \ {u},
               turns'[n].track = turns'[u].track, TurnBefore(m, n)',
               n < u \/ \E last \in ToSet(s) : n < last
        PROVE  n \in ToSet(s)
    <2>1. n \in DOMAIN turns
      BY <1>1, <1>2, <1>5
    <2>2. turns[n].track = turns[u].track
      BY <1>1, <1>5, <2>1
    <2>3. TurnBefore(m, n)
      BY <1>2, <1>5, <2>1, OrderStays
    <2>4. QED
      BY <1>5, <2>1, <2>2, <2>3 DEF IsContext
  <1>6. QED
    BY <1>3, <1>4, <1>5 DEF IsContext

LEMMA Shifted ==
    ASSUME NEW a \in Nat, NEW i \in Nat, NEW j \in Nat, NEW n \in Nat, NEW k, k = n - a,
           i >= 1, j <= n, ~(j < i + a), j # i + a
    PROVE  j - a \in 1..k /\ (j - a) + a = j
  OBVIOUS

LEMMA ShiftedBack ==
    ASSUME NEW a \in Nat, NEW n \in Nat, NEW k, k = n - a, NEW i \in 1..k
    PROVE  i + a \in 1..n
  OBVIOUS

\* A context that loses its oldest messages is one.
LEMMA TailIsContext ==
    ASSUME Shape, NEW u \in DOMAIN turns, NEW s \in Seq(1..Len(turns)), IsContext(s, u),
           NEW q \in Seq(1..Len(turns)), TailOf(q, s)
    PROVE  IsContext(q, u)
  <1>1. PICK a \in 0..Len(s) : /\ Len(q) = Len(s) - a
                              /\ \A i \in 1..Len(q) : q[i] = s[i + a]
    BY DEF TailOf
  <1>2. /\ DOMAIN s = 1..Len(s) /\ DOMAIN q = 1..Len(q) /\ Len(s) \in Nat /\ Len(q) \in Nat
        /\ DOMAIN turns = 1..Len(turns)
        /\ \A i \in DOMAIN s : s[i] \in DOMAIN turns
    BY DEF Shape, RowsTyped
  <1>a. a \in Nat /\ Len(q) = Len(s) - a
    <2>1. a \in 0..Len(s) /\ Len(s) \in Nat
      BY <1>2
    <2>2. Len(q) = Len(s) - a
      BY <1>1
    <2>3. QED
      BY <2>1, <2>2
  <1>3. ASSUME NEW i \in DOMAIN q
        PROVE  i + a \in DOMAIN s /\ q[i] = s[i + a]
    <2>1. i \in 1..Len(q)
      BY <1>2
    <2>2. i + a \in 1..Len(s)
      BY <1>2, <1>a, <2>1, ShiftedBack
    <2>3. QED
      BY <1>1, <1>2, <2>1, <2>2
  <1>4. ToSet(q) \subseteq ToSet(s)
    BY <1>3 DEF ToSet
  <1>5. \A n \in ToSet(q) : turns[n].track = turns[u].track /\ n # u
    BY <1>4 DEF IsContext
  <1>6. \A i, j \in DOMAIN q : i < j => TurnBefore(q[i], q[j])
    <2> SUFFICES ASSUME NEW i \in DOMAIN q, NEW j \in DOMAIN q, i < j
                 PROVE  TurnBefore(q[i], q[j])
      OBVIOUS
    <2>1. i + a < j + a /\ i + a \in DOMAIN s /\ j + a \in DOMAIN s
      <3>1. i \in 1..Len(q) /\ j \in 1..Len(q) /\ Len(q) \in Nat
        BY <1>2
      <3>2. i + a < j + a
        BY <1>a, <3>1
      <3>3. QED
        BY <1>3, <3>2
    <2>2. TurnBefore(s[i + a], s[j + a])
      BY <2>1 DEF IsContext
    <2>3. QED
      BY <1>3, <2>2
  <1>7. ASSUME NEW m \in ToSet(q), NEW n \in DOMAIN turns \ {u},
               turns[n].track = turns[u].track, TurnBefore(m, n),
               n < u \/ \E last \in ToSet(q) : n < last
        PROVE  n \in ToSet(q)
    <2>1. n \in ToSet(s)
      BY <1>4, <1>7 DEF IsContext
    <2>2. PICK i \in DOMAIN q : m = q[i]
      BY DEF ToSet
    <2>3. PICK j \in DOMAIN s : n = s[j]
      BY <2>1 DEF ToSet
    <2>4. i + a \in DOMAIN s /\ m = s[i + a]
      BY <1>3, <2>2
    <2>5. m # n /\ ~TurnBefore(n, m)
      BY <1>2, <1>7, <2>4, OneWay
    <2>6. ~(j < i + a) /\ j # i + a
      BY <2>3, <2>4, <2>5 DEF IsContext
    <2>7. j - a \in 1..Len(q) /\ (j - a) + a = j
      <3>1. i \in 1..Len(q) /\ j \in 1..Len(s) /\ Len(s) \in Nat
        BY <1>2
      <3>2. i \in Nat /\ j \in Nat /\ i >= 1 /\ j <= Len(s)
        BY <3>1
      <3>3. QED
        BY <1>a, <2>6, <3>1, <3>2, Shifted
    <2>8. q[j - a] = n
      BY <1>1, <2>3, <2>7
    <2>9. QED
      BY <1>2, <2>7, <2>8 DEF ToSet
  <1>8. QED
    BY <1>5, <1>6, <1>7 DEF IsContext

ContextsAgree ==
    \A r \in Runs : pc[r] \notin {"idle", "recent"} =>
        Len(recent[r]) <= LLM_CONTEXT_LAST_MESSAGES /\ IsContext(recent[r], userTurn[r])

LEMMA ContextsNext ==
    ASSUME Shape, ContextsAgree, [LlmNext]_vars
    PROVE  ContextsAgree'
  <1>0. Shape' /\ RowsTyped' /\ Grows
    BY ShapeNext, RowsNext
  <1>1. /\ DOMAIN turns = 1..Len(turns) /\ Len(turns) \in Nat
        /\ \A v \in Runs : recent[v] \in Seq(1..Len(turns))
        /\ \A v \in Runs : pc[v] # "idle" => userTurn[v] \in DOMAIN turns
    BY DEF Shape, RowsTyped, Holds
  <1> DEFINE Good(v) == pc[v] \notin {"idle", "recent"} =>
        Len(recent[v]) <= LLM_CONTEXT_LAST_MESSAGES /\ IsContext(recent[v], userTurn[v])
  <1>2. ASSUME NEW v \in Runs, recent'[v] = recent[v], userTurn'[v] = userTurn[v],
               pc'[v] \notin {"idle", "recent"} => pc[v] \notin {"idle", "recent"}
        PROVE  Good(v)'
    <2> SUFFICES ASSUME pc'[v] \notin {"idle", "recent"}
                 PROVE  Len(recent'[v]) <= LLM_CONTEXT_LAST_MESSAGES
                        /\ IsContext(recent[v], userTurn[v])'
      BY <1>2
    <2>1. /\ Len(recent[v]) <= LLM_CONTEXT_LAST_MESSAGES /\ IsContext(recent[v], userTurn[v])
          /\ userTurn[v] \in DOMAIN turns
      BY <1>1, <1>2 DEF ContextsAgree
    <2>2. PICK s, u : s = recent[v] /\ u = userTurn[v] /\ s = recent'[v] /\ u = userTurn'[v]
      BY <1>2
    <2>3. IsContext(s, u)'
      BY <1>0, <1>1, <2>1, <2>2, ContextStays
    <2>4. QED
      BY <1>2, <2>1, <2>2, <2>3
  <1>3. CASE \E r \in Runs : Moves(r)
    <2>1. PICK r \in Runs : Moves(r)
      BY <1>3
    <2>2. \A v \in Runs \ {r} : Good(v)'
      BY <1>2, <2>1, LocalsNext DEF Kept
    <2>3. Good(r)'
      <3>1. CASE Exit(r)
        BY <3>1, Exits DEF Shape, Blank
      <3>2. CASE \E t \in Tracks : SaveUserTurn(r, t)
        BY <3>2, UserTurnSaved
      <3>3. CASE ReadRecent(r)
        <4>1. PICK s, q, u : s = OfTrack(r) /\ q = TakeLast(s) /\ u = userTurn[r]
          OBVIOUS
        <4>2. recent'[r] = q /\ pc[r] = "recent" /\ userTurn'[r] = u
          BY <3>3, <4>1, ReadsRecent DEF Onward
        <4>3. u \in DOMAIN turns
          BY <1>1, <4>1, <4>2
        <4>4. /\ s \in Seq(1..Len(turns))
              /\ ToSet(s) = {n \in DOMAIN turns : turns[n].track = TrackOf(r) /\ n # u}
              /\ \A i, j \in DOMAIN s : i < j => TurnBefore(s[i], s[j])
          BY <4>1, TrackSorted DEF Shape
        <4>5. IsContext(s, u)
          BY <4>1, <4>4 DEF IsContext, TrackOf
        <4>6. q \in Seq(1..Len(turns)) /\ Len(q) <= LLM_CONTEXT_LAST_MESSAGES /\ TailOf(q, s)
          BY <4>1, <4>4, LastTaken
        <4>7. IsContext(q, u)
          BY <4>3, <4>4, <4>5, <4>6, TailIsContext
        <4>8. IsContext(q, u)'
          BY <1>0, <4>3, <4>6, <4>7, ContextStays
        <4>9. QED
          BY <4>2, <4>6, <4>8
      <3>4. CASE ReadAnalysis(r) /\ ~Exit(r)
        <4>1. PICK s, q, u : s = recent[r] /\ q = recent'[r] /\ u = userTurn[r]
          OBVIOUS
        <4>2. /\ q \in Overflow(s) /\ pc[r] = "analysis" /\ userTurn'[r] = u
              /\ q \in Seq(1..Len(turns)) /\ s \in Seq(1..Len(turns))
          BY <1>1, <3>4, <4>1, ReadsAnalysis DEF Onward
        <4>3. /\ Len(s) <= LLM_CONTEXT_LAST_MESSAGES /\ IsContext(s, u) /\ u \in DOMAIN turns
          BY <1>1, <4>1, <4>2 DEF ContextsAgree
        <4>4. Len(q) <= Len(s) /\ TailOf(q, s)
          BY <4>2, Overflows
        <4>5. IsContext(q, u)
          BY <4>2, <4>3, <4>4, TailIsContext
        <4>6. IsContext(q, u)'
          BY <1>0, <4>2, <4>3, <4>5, ContextStays
        <4>7. Len(q) <= LLM_CONTEXT_LAST_MESSAGES
          BY <4>2, <4>3, <4>4, LimitsAssumption
        <4>8. QED
          BY <4>1, <4>2, <4>6, <4>7
      <3>5. CASE Plain(r) /\ ~Exit(r)
        <4>1. pc[r] \in {"signal", "nlu", "stage1", "select", "stage2"}
          BY <3>5 DEF Plain, CaptureSignal, RunNlu, Stage1, SelectMemory, Stage2, At
        <4>2. userTurn'[r] = userTurn[r] /\ (recent'[r] = recent[r] \/ recent'[r] = <<>>)
          BY <3>5, GoesOn DEF Onward
        <4>3. CASE recent'[r] = recent[r]
          BY <1>2, <4>1, <4>2, <4>3
        <4>4. CASE recent'[r] = <<>>
          <5>1. PICK s, u : s = <<>> /\ s = recent'[r] /\ u = userTurn'[r]
            BY <4>4
          <5>2. ToSet(s) = {} /\ DOMAIN s = {} /\ Len(s) = 0
            BY <5>1 DEF ToSet
          <5>3. IsContext(s, u)'
            BY <5>2 DEF IsContext
          <5>4. QED
            BY <5>1, <5>2, <5>3, LimitsAssumption
        <4>5. QED
          BY <4>2, <4>3, <4>4
      <3>6. CASE StampAnswer(r)
        <4>1. pc[r] = "stamp" /\ recent'[r] = recent[r] /\ userTurn'[r] = userTurn[r]
          BY <3>6, StampsAnswer
        <4>2. QED
          BY <1>2, <4>1
      <3>7. CASE Ends(r)
        BY <3>1, <3>7, EndsExit
      <3>8. QED
        BY <2>1, <3>1, <3>2, <3>3, <3>4, <3>5, <3>6, <3>7 DEF Moves, RunStep, Plain, Ends
    <2>4. QED
      BY <2>2, <2>3 DEF ContextsAgree
  <1>4. CASE Aside
    <2>1. \A v \in Runs : Good(v)'
      BY <1>2, <1>4, AsideKeeps
    <2>2. QED
      BY <2>1 DEF ContextsAgree
  <1>5. QED
    BY <1>3, <1>4, OneMoves

LEMMA ContextsAlways == LlmSpec => []ContextsAgree
  <1>1. Init => ContextsAgree
    <2>1. Init => \A r \in Runs : pc[r] = "idle"
      BY DEF Init
    <2>2. QED
      BY <2>1 DEF ContextsAgree
  <1>2. Shape /\ ContextsAgree /\ [LlmNext]_vars => ContextsAgree'
    BY ContextsNext
  <1>3. QED
    BY <1>1, <1>2, ShapeAlways, PTL DEF LlmSpec

(* A context is the newest end of its track (_recent_messages and          *)
(* _apply_overflow_policy), for any number of processes: a turn that is    *)
(* saved late, with an old stamp, never makes a hole in it.                *)
THEOREM ContextsAreTails == LlmSpec => []ContextIsTail
  <1>1. ASSUME Shape, ContextsAgree PROVE ContextIsTail
    <2> SUFFICES ASSUME NEW r \in Runs, pc[r] \notin {"idle", "recent"}
                 PROVE  LET shown == ToSet(recent[r]) IN
                        /\ Len(recent[r]) <= LLM_CONTEXT_LAST_MESSAGES
                        /\ \A n \in shown : turns[n].track = TrackOf(r) /\ n # userTurn[r]
                        /\ \A first, last \in shown, n \in DOMAIN turns \ {userTurn[r]} :
                              /\ turns[n].track = TrackOf(r)
                              /\ turns[first].at < turns[n].at
                              /\ turns[first].at # whole
                              /\ n < last \/ n < userTurn[r]
                              => n \in shown
      BY DEF ContextIsTail
    <2>1. /\ Len(recent[r]) <= LLM_CONTEXT_LAST_MESSAGES
          /\ IsContext(recent[r], userTurn[r])
      BY <1>1 DEF ContextsAgree
    <2>2. \A m, n \in DOMAIN turns :
             turns[m].at < turns[n].at /\ turns[m].at # whole => TurnBefore(m, n)
      BY DEF TurnBefore, SortsBefore
    <2>3. ToSet(recent[r]) \subseteq DOMAIN turns
      BY <1>1 DEF Shape, RowsTyped, Holds, ToSet
    <2>4. QED
      BY <2>1, <2>2, <2>3 DEF IsContext, TrackOf
  <1>2. QED
    BY <1>1, ShapeAlways, ContextsAlways, PTL

-----------------------------------------------------------------------------
\* The analysis of a context.

\* Analysis i belongs with the messages `s` of the context for u.
Covers(i, s, u) ==
    /\ i # 0 => turns[analyses[i].turn].track = turns[u].track
    /\ \A n \in ToSet(s) : turns[n].role = "assistant" =>
          /\ i # 0
          /\ analyses[i].at = whole \/ \E j \in 1..i : analyses[j].turn = n

LEMMA CoversStays ==
    ASSUME Shape, Grows, NEW u \in DOMAIN turns, NEW s \in Seq(1..Len(turns)),
           NEW i \in 0..Len(analyses), Covers(i, s, u)
    PROVE  Covers(i, s, u)'
  <1>1. /\ DOMAIN turns = 1..Len(turns) /\ Len(turns) \in Nat
        /\ DOMAIN analyses = 1..Len(analyses) /\ Len(analyses) \in Nat
        /\ \A n \in DOMAIN turns : turns'[n] = turns[n]
        /\ \A j \in DOMAIN analyses : analyses'[j] = analyses[j]
    BY DEF Shape, RowsTyped, Grows
  <1>2. ToSet(s) \subseteq DOMAIN turns
    BY <1>1 DEF ToSet
  <1>3. \A j \in DOMAIN analyses : analyses[j].turn \in DOMAIN turns /\ analyses[j].at \in 1..clock
    BY AnalysisFields DEF Shape
  <1>4. \A j \in 1..i : j \in DOMAIN analyses
    BY <1>1
  <1>5. i # 0 => i \in DOMAIN analyses
    BY <1>1
  <1>6. \A j \in DOMAIN analyses : analyses[j].at = whole => analyses'[j].at = whole'
    BY <1>1, <1>3 DEF Grows
  <1>7. i # 0 => turns'[analyses'[i].turn].track = turns'[u].track
    BY <1>1, <1>3, <1>5 DEF Covers
  <1>8. ASSUME NEW n \in ToSet(s), turns'[n].role = "assistant"
        PROVE  /\ i # 0
               /\ analyses'[i].at = whole' \/ \E j \in 1..i : analyses'[j].turn = n
    <2>1. turns[n].role = "assistant"
      BY <1>1, <1>2, <1>8
    <2>2. i # 0 /\ (analyses[i].at = whole \/ \E j \in 1..i : analyses[j].turn = n)
      BY <2>1 DEF Covers
    <2>3. QED
      BY <1>1, <1>4, <1>5, <1>6, <2>2
  <1>9. QED
    BY <1>7, <1>8 DEF Covers

\* The latest analysis covers every answer that is saved.
LEMMA LatestCovers ==
    ASSUME Shape, Whole, NEW u \in DOMAIN turns, NEW s \in Seq(1..Len(turns)),
           \A n \in ToSet(s) : turns[n].track = turns[u].track,
           NEW i, i = Latest(turns[u].track)
    PROVE  Covers(i, s, u)
  <1> DEFINE t == turns[u].track
  <1>1. /\ DOMAIN turns = 1..Len(turns)
        /\ DOMAIN analyses = 1..Len(analyses) /\ Len(analyses) \in Nat
    BY DEF Shape, RowsTyped
  <1>2. /\ AnalysesOf(t) = {} => i = 0
        /\ AnalysesOf(t) # {} =>
              /\ i \in AnalysesOf(t)
              /\ \A j \in AnalysesOf(t) \ {i} : SortsBefore(analyses[j].at, analyses[i].at)
    BY LatestIs DEF Shape
  <1>3. ASSUME i # 0 PROVE i \in DOMAIN analyses /\ turns[analyses[i].turn].track = t
    BY <1>2, <1>3 DEF AnalysesOf
  <1>4. ASSUME NEW n \in ToSet(s), turns[n].role = "assistant"
        PROVE  i # 0 /\ (analyses[i].at = whole \/ \E j \in 1..i : analyses[j].turn = n)
    <2>0. ToSet(s) \subseteq DOMAIN turns
      BY <1>1 DEF ToSet
    <2>1. n \in DOMAIN turns /\ turns[n].track = t
      BY <2>0
    <2>2. PICK j \in DOMAIN analyses : analyses[j].turn = n
      BY <1>4, <2>1 DEF Whole, OneAnalysis
    <2>3. j \in AnalysesOf(t)
      BY <2>1, <2>2 DEF AnalysesOf
    <2>4. i \in DOMAIN analyses /\ i # 0
      BY <1>1, <1>2, <2>3 DEF AnalysesOf
    <2>5. CASE j = i
      BY <1>1, <2>2, <2>4, <2>5
    <2>6. CASE j # i
      <3>1. analyses[i].at = whole \/ analyses[j].at < analyses[i].at
        BY <1>2, <2>3, <2>6 DEF SortsBefore
      <3>2. /\ analyses[i].at \in Nat /\ analyses[j].at \in Nat
            /\ i < j => analyses[i].at < analyses[j].at
        BY <2>2, <2>4, AnalysisFields DEF Shape, RowsTyped, StampsDistinct
      <3>3. analyses[i].at = whole \/ j \in 1..i
        BY <1>1, <2>2, <2>4, <2>6, <3>1, <3>2
      <3>4. QED
        BY <2>2, <2>4, <3>3
    <2>7. QED
      BY <2>5, <2>6
  <1>5. QED
    BY <1>3, <1>4 DEF Covers

AnalysesAgree ==
    \A r \in Runs : pc[r] \notin {"idle", "recent", "analysis"} =>
        Covers(previous[r], recent[r], userTurn[r])

LEMMA AnalysesNext ==
    ASSUME Shape, Whole, ContextsAgree, AnalysesAgree, [LlmNext]_vars
    PROVE  AnalysesAgree'
  <1>0. Grows
    BY RowsNext
  <1>1. /\ DOMAIN turns = 1..Len(turns)
        /\ \A v \in Runs : recent[v] \in Seq(1..Len(turns)) /\ previous[v] \in 0..Len(analyses)
        /\ \A v \in Runs : pc[v] # "idle" => userTurn[v] \in DOMAIN turns
    BY DEF Shape, RowsTyped, Holds
  <1> DEFINE Good(v) == pc[v] \notin {"idle", "recent", "analysis"} =>
                           Covers(previous[v], recent[v], userTurn[v])
  <1>2. ASSUME NEW v \in Runs, recent'[v] = recent[v], userTurn'[v] = userTurn[v],
               previous'[v] = previous[v],
               pc'[v] \notin {"idle", "recent", "analysis"}
                  => pc[v] \notin {"idle", "recent", "analysis"}
        PROVE  Good(v)'
    <2> SUFFICES ASSUME pc'[v] \notin {"idle", "recent", "analysis"}
                 PROVE  Covers(previous[v], recent[v], userTurn[v])'
      OBVIOUS
    <2>1. Covers(previous[v], recent[v], userTurn[v]) /\ userTurn[v] \in DOMAIN turns
      BY <1>1, <1>2 DEF AnalysesAgree
    <2>2. PICK i, s, u : /\ i = previous[v] /\ s = recent[v] /\ u = userTurn[v]
                         /\ i = previous'[v] /\ s = recent'[v] /\ u = userTurn'[v]
      BY <1>2
    <2>3. Covers(i, s, u)'
      BY <1>0, <1>1, <2>1, <2>2, CoversStays
    <2>4. QED
      BY <2>2, <2>3
  <1>3. CASE \E r \in Runs : Moves(r)
    <2>1. PICK r \in Runs : Moves(r)
      BY <1>3
    <2>2. \A v \in Runs \ {r} : Good(v)'
      BY <1>2, <2>1, LocalsNext DEF Kept
    <2>3. Good(r)'
      <3>1. CASE Exit(r)
        BY <3>1, Exits DEF Shape, Blank
      <3>2. CASE \E t \in Tracks : SaveUserTurn(r, t)
        BY <3>2, UserTurnSaved
      <3>3. CASE ReadRecent(r)
        BY <3>3, ReadsRecent
      <3>4. CASE ReadAnalysis(r) /\ ~Exit(r)
        <4>1. PICK s, q, u, i : /\ s = recent[r] /\ q = recent'[r] /\ u = userTurn[r]
                                /\ i = previous'[r]
          OBVIOUS
        <4>2. /\ q \in Overflow(s) /\ pc[r] = "analysis" /\ userTurn'[r] = u
              /\ q \in Seq(1..Len(turns)) /\ s \in Seq(1..Len(turns))
              /\ i = Latest(turns[u].track) /\ i \in 0..Len(analyses)
          BY <1>1, <3>4, <4>1, ReadsAnalysis DEF Onward, TrackOf
        <4>3. IsContext(s, u) /\ u \in DOMAIN turns
          BY <1>1, <4>1, <4>2 DEF ContextsAgree
        <4>4. TailOf(q, s)
          BY <4>2, Overflows
        <4>5. \A n \in ToSet(q) : turns[n].track = turns[u].track
          BY <4>2, <4>3, <4>4, TailIsContext DEF IsContext
        <4>6. Covers(i, q, u)
          BY <4>2, <4>3, <4>5, LatestCovers
        <4>7. Covers(i, q, u)'
          BY <1>0, <4>2, <4>3, <4>6, CoversStays
        <4>8. QED
          BY <4>1, <4>2, <4>7
      <3>5. CASE Plain(r) /\ ~Exit(r)
        <4>1. pc[r] \in {"signal", "nlu", "stage1", "select", "stage2"}
          BY <3>5 DEF Plain, CaptureSignal, RunNlu, Stage1, SelectMemory, Stage2, At
        <4>2. /\ userTurn'[r] = userTurn[r]
              /\ \/ recent'[r] = recent[r] /\ previous'[r] = previous[r]
                 \/ recent'[r] = <<>> /\ previous'[r] = 0
          BY <3>5, GoesOn DEF Onward
        <4>3. CASE recent'[r] = recent[r] /\ previous'[r] = previous[r]
          BY <1>2, <4>1, <4>2, <4>3
        <4>4. CASE recent'[r] = <<>> /\ previous'[r] = 0
          <5>1. PICK i, s, u : i = 0 /\ s = <<>> /\ i = previous'[r] /\ s = recent'[r]
                               /\ u = userTurn'[r]
            BY <4>4
          <5>2. ToSet(s) = {}
            BY <5>1 DEF ToSet
          <5>3. Covers(i, s, u)'
            BY <5>1, <5>2 DEF Covers
          <5>4. QED
            BY <5>1, <5>3
        <4>5. QED
          BY <4>2, <4>3, <4>4
      <3>6. CASE StampAnswer(r)
        <4>1. /\ pc[r] = "stamp" /\ recent'[r] = recent[r] /\ userTurn'[r] = userTurn[r]
              /\ previous'[r] = previous[r]
          BY <3>6, StampsAnswer
        <4>2. QED
          BY <1>2, <4>1
      <3>7. CASE Ends(r)
        BY <3>1, <3>7, EndsExit
      <3>8. QED
        BY <2>1, <3>1, <3>2, <3>3, <3>4, <3>5, <3>6, <3>7 DEF Moves, RunStep, Plain, Ends
    <2>4. QED
      BY <2>2, <2>3 DEF AnalysesAgree
  <1>4. CASE Aside
    <2>1. \A v \in Runs : Good(v)'
      BY <1>2, <1>4, AsideKeeps
    <2>2. QED
      BY <2>1 DEF AnalysesAgree
  <1>5. QED
    BY <1>3, <1>4, OneMoves

(* The analysis a context carries (get_latest_track_analysis) is of its    *)
(* track and not older than that of any answer in it, for any number of    *)
(* processes between whose reads the others write.                         *)
THEOREM AnalysesCover == LlmSpec => []AnalysisCoversContext
  <1>1. Init => AnalysesAgree
    <2>1. Init => \A r \in Runs : pc[r] = "idle"
      BY DEF Init
    <2>2. QED
      BY <2>1 DEF AnalysesAgree
  <1>2. Shape /\ Whole /\ ContextsAgree /\ AnalysesAgree /\ [LlmNext]_vars => AnalysesAgree'
    BY AnalysesNext
  <1>3. AnalysesAgree => AnalysisCoversContext
    BY DEF AnalysesAgree, Covers, AnalysisCoversContext, TrackOf
  <1>4. QED
    BY <1>1, <1>2, <1>3, ShapeAlways, WholeAlways, ContextsAlways, PTL DEF LlmSpec

-----------------------------------------------------------------------------
\* What becomes of every message.

Reported(n) ==
    \/ \E a \in answers : a.user = n
    \/ \E f \in failures : f.user = n
    \/ \E x \in escaped : x.user = n /\ x.cause \in {"timeout", "candidate"}

Accounted ==
    /\ \A r, v \in Runs : userTurn[r] # 0 /\ userTurn[v] = userTurn[r] => v = r
    /\ \A r \in Runs : \A o \in answers \cup failures \cup escaped : o.user # userTurn[r]
    /\ \A n \in UserTurns : (\A r \in Runs : userTurn[r] # n) /\ ~died => Reported(n)
    /\ \A f \in failures \cup escaped, a \in answers : a.user # f.user

LEMMA AccountedNext ==
    ASSUME Shape, RestTyped, Accounted, [LlmNext]_vars
    PROVE  Accounted'
  <1>0. /\ DOMAIN turns = 1..Len(turns) /\ Len(turns) \in Nat
        /\ \A o \in answers \cup failures \cup escaped : o.user \in DOMAIN turns
        /\ \A v \in Runs : userTurn[v] \in 0..Len(turns)
        /\ \A v \in Runs : pc[v] = "idle" <=> userTurn[v] = 0
    BY DEF Shape, RowsTyped, Holds, RestTyped
  <1>1. ASSUME NEW r \in Runs, NEW t \in Tracks, SaveUserTurn(r, t) PROVE Accounted'
    <2>1. PICK new : new = Len(turns) + 1
      OBVIOUS
    <2>2. /\ DOMAIN turns' = DOMAIN turns \cup {new} /\ new \notin DOMAIN turns
          /\ \A n \in DOMAIN turns : turns'[n] = turns[n]
          /\ pc[r] = "idle" /\ userTurn'[r] = new
          /\ UNCHANGED <<answers, failures, escaped, died>>
      BY <1>1, <2>1, UserTurnSaved
    <2>i. userTurn[r] = 0 /\ new # 0
      BY <1>0, <2>1, <2>2
    <2>3. \A v \in Runs \ {r} : userTurn'[v] = userTurn[v] /\ userTurn[v] # new
      BY <1>0, <1>1, <2>1, LocalsNext DEF Moves, Kept
    <2>4. \A v, w \in Runs : userTurn'[v] # 0 /\ userTurn'[w] = userTurn'[v] => w = v
      BY <2>2, <2>3 DEF Accounted
    <2>5. \A v \in Runs : \A o \in answers' \cup failures' \cup escaped' : o.user # userTurn'[v]
      BY <1>0, <2>2, <2>3 DEF Accounted
    <2>6. ASSUME NEW n \in UserTurns', \A v \in Runs : userTurn'[v] # n, ~died'
          PROVE  Reported(n)'
      <3>1. n \in UserTurns /\ n # 0
        BY <1>0, <2>2, <2>6 DEF UserTurns
      <3>2. \A v \in Runs : userTurn[v] # n
        BY <2>2, <2>i, <2>3, <2>6, <3>1
      <3>3. QED
        BY <2>2, <2>6, <3>1, <3>2 DEF Accounted, Reported
    <2>7. QED
      BY <2>2, <2>4, <2>5, <2>6 DEF Accounted
  <1>2. ASSUME NEW r \in Runs, Exit(r), userTurn[r] \in DOMAIN turns,
               \A n \in UserTurns' : n \in UserTurns,
               \/ /\ \E o : o.user = userTurn[r] /\ answers' = answers \cup {o}
                  /\ UNCHANGED <<failures, escaped, died>>
               \/ /\ \E o : o.user = userTurn[r] /\ failures' = failures \cup {o}
                  /\ UNCHANGED <<answers, escaped, died>>
               \/ /\ \E o : /\ o.user = userTurn[r] /\ o.cause \in {"timeout", "candidate"}
                            /\ escaped' = escaped \cup {o}
                  /\ UNCHANGED <<answers, failures, died>>
               \/ died' /\ UNCHANGED <<answers, failures, escaped>>
        PROVE  Accounted'
    <2>1. userTurn'[r] = 0 /\ \A v \in Runs \ {r} : userTurn'[v] = userTurn[v]
      BY <1>2, Exits DEF Shape, Blank, Kept
    <2>2. userTurn[r] # 0 /\ \A v \in Runs \ {r} : userTurn[v] # userTurn[r]
      BY <1>0, <1>2 DEF Accounted
    <2>3. \A o \in answers' \cup failures' \cup escaped' :
             o \in answers \cup failures \cup escaped \/ o.user = userTurn[r]
      BY <1>2
    <2>4. \A v, w \in Runs : userTurn'[v] # 0 /\ userTurn'[w] = userTurn'[v] => w = v
      BY <2>1 DEF Accounted
    <2>5. ASSUME NEW v \in Runs, NEW o \in answers' \cup failures' \cup escaped'
          PROVE  o.user # userTurn'[v]
      <3>1. o.user # 0
        BY <1>0, <2>2, <2>3
      <3>2. QED
        BY <2>1, <2>2, <2>3, <3>1 DEF Accounted
    <2>6. ASSUME NEW n \in UserTurns', \A v \in Runs : userTurn'[v] # n, ~died'
          PROVE  Reported(n)'
      <3>1. CASE n = userTurn[r]
        BY <1>2, <2>6, <3>1 DEF Reported
      <3>2. CASE n # userTurn[r]
        <4>1. \A v \in Runs : userTurn[v] # n
          BY <2>1, <2>6, <3>2
        <4>2. Reported(n) \/ died
          BY <1>2, <2>6, <4>1 DEF Accounted
        <4>3. QED
          BY <1>2, <2>6, <4>2 DEF Reported
      <3>3. QED
        BY <3>1, <3>2
    <2>7. \A f \in failures' \cup escaped', a \in answers' : a.user # f.user
      BY <1>2 DEF Accounted
    <2>8. QED
      BY <2>4, <2>5, <2>6, <2>7 DEF Accounted
  <1>3. ASSUME NEW r \in Runs, SaveAnswer(r) PROVE Accounted'
    <2>1. /\ Exit(r) /\ answers' = answers \cup {Answer(r)} /\ Answer(r).user = userTurn[r]
          /\ UNCHANGED <<failures, escaped, died>>
      BY <1>3 DEF SaveAnswer, Answer
    <2>2. /\ DOMAIN turns' = DOMAIN turns \cup {Len(turns) + 1}
          /\ \A n \in DOMAIN turns : turns'[n] = turns[n]
          /\ turns'[Len(turns) + 1].role = "assistant"
          /\ userTurn[r] \in DOMAIN turns
      BY <1>3, AnswerSaved
    <2>3. \A n \in UserTurns' : n \in UserTurns
      BY <2>2 DEF UserTurns
    <2>4. QED
      BY <1>2, <2>1, <2>2, <2>3
  <1>4. ASSUME NEW r \in Runs, Quiet(r) PROVE Accounted'
    <2>1. /\ turns' = turns /\ answers' = answers /\ userTurn[r] \in DOMAIN turns
          /\ \A n \in UserTurns' : n \in UserTurns
      BY <1>4, QuietEnds DEF rows, UserTurns
    <2>2. PICK cause \in Cause, thrown \in {"timeout", "candidate"} :
             GoesAhead(r) \/ FailsFor(r, cause) \/ Escapes(r, thrown) \/ Dies(r)
      BY <1>4, QuietEnds DEF Cause
    <2>3. CASE GoesAhead(r)
      <3>1. \A v \in Runs : userTurn'[v] = userTurn[v]
        BY <1>4, <2>3, QuietSaves DEF GoesAhead, Kept
      <3>2. QED
        BY <2>1, <2>3, <3>1 DEF GoesAhead, Accounted, Reported
    <2>4. CASE FailsFor(r, cause)
      <3>1. PICK o : o = [user |-> userTurn[r], cause |-> cause]
        OBVIOUS
      <3>2. o.user = userTurn[r] /\ failures' = failures \cup {o}
        BY <2>4, <3>1 DEF FailsFor
      <3>3. Exit(r) /\ UNCHANGED <<answers, escaped, died>>
        BY <2>1, <2>4 DEF FailsFor
      <3>4. QED
        BY <1>2, <2>1, <3>2, <3>3
    <2>5. CASE Escapes(r, thrown)
      <3>1. PICK o : o = [user |-> userTurn[r], cause |-> thrown]
        OBVIOUS
      <3>2. /\ o.user = userTurn[r] /\ o.cause \in {"timeout", "candidate"}
            /\ escaped' = escaped \cup {o}
        BY <2>2, <2>5, <3>1 DEF Escapes
      <3>3. Exit(r) /\ UNCHANGED <<answers, failures, died>>
        BY <2>1, <2>5 DEF Escapes
      <3>4. QED
        BY <1>2, <2>1, <3>2, <3>3
    <2>6. CASE Dies(r)
      BY <1>2, <2>1, <2>6 DEF Dies
    <2>7. QED
      BY <2>2, <2>3, <2>4, <2>5, <2>6
  <1>5. CASE Aside
    <2>1. UNCHANGED <<turns, answers, failures, escaped, died, userTurn>>
      BY <1>5, AsideKeeps
    <2>2. QED
      BY <2>1 DEF Accounted, Reported, UserTurns
  <1>6. QED
    BY <1>1, <1>3, <1>4, <1>5, StepIs

(* What becomes of a message (cli.py main and run_llm_message), whatever   *)
(* the model answers and whoever else is at work: while no process died, a *)
(* message no process has is answered, or was reported as failed, or its   *)
(* process ended with a traceback, at a request that timed out or at a     *)
(* memory candidate that raises.  One that failed, reported or not, has    *)
(* never an answer, and no two processes have one message.                 *)
THEOREM MessagesAccounted == LlmSpec => []Accounted
  <1>1. Init => Accounted
    <2>1. Init => /\ DOMAIN turns = {} /\ answers = {} /\ failures = {} /\ escaped = {}
                  /\ \A r \in Runs : Blank(r)
      BY DEF Init, Blank
    <2>2. QED
      BY <2>1 DEF Accounted, UserTurns, Blank
  <1>2. Shape /\ RestTyped /\ Accounted /\ [LlmNext]_vars => Accounted'
    BY AccountedNext
  <1>3. QED
    BY <1>1, <1>2, ShapeAlways, RestAlways, PTL DEF LlmSpec

\* No dict of the model's answers has the key summary.
NoSummaries == \A p \in Stage1Payloads \cup Stage2Payloads : ~p.summary

SummaryFree ==
    /\ \A i \in DOMAIN analyses : ~analyses[i].summary
    /\ \A r \in Runs : ~decision1[r].summary /\ ~decision2[r].summary
    /\ \A f \in failures : f.cause = "provider"

LEMMA DecisionsFree ==
    ASSUME NoSummaries, Shape, SummaryFree, NEW r \in Runs, Moves(r)
    PROVE  ~decision1'[r].summary /\ ~decision2'[r].summary
  <1>0. /\ decision1 \in [Runs -> Decision] /\ decision2 \in [Runs -> Decision]
        /\ ~decision1[r].summary /\ ~decision2[r].summary
    BY DEF Shape, LocalsTyped, SummaryFree
  <1>1. CASE Exit(r)
    BY <1>1, Exits, Nothing DEF Shape, Blank
  <1>2. CASE \E t \in Tracks : SaveUserTurn(r, t)
    BY <1>0, <1>2, UserTurnSaved
  <1>3. CASE Stage1(r) /\ ~Exit(r)
    <2>1. PICK p \in Stage1Payloads : /\ decision1' = [decision1 EXCEPT ![r] = Stage1Decision(p)]
                                      /\ decision2' = decision2
      BY <1>3 DEF Stage1, FailTurn
    <2>2. PICK d : d = Stage1Decision(p)
      OBVIOUS
    <2>3. d.summary = p.summary /\ ~p.summary
      BY <2>2, Stage1Made DEF NoSummaries
    <2>4. QED
      BY <1>0, <2>1, <2>2, <2>3
  <1>4. CASE Stage2(r) /\ ~Exit(r)
    <2>1. PICK p \in Stage2Payloads : /\ decision2' = [decision2 EXCEPT ![r] = Stage2Decision(p)]
                                      /\ decision1' = decision1
      BY <1>4 DEF Stage2, FailTurn
    <2>2. PICK d : d = Stage2Decision(p)
      OBVIOUS
    <2>3. d.summary = p.summary /\ ~p.summary
      BY <2>2, Stage2Made DEF NoSummaries
    <2>4. QED
      BY <1>0, <2>1, <2>2, <2>3
  <1>5. CASE /\ ~Exit(r)
             /\ \/ ReadRecent(r) \/ ReadAnalysis(r) \/ CaptureSignal(r) \/ RunNlu(r)
                \/ SelectMemory(r) \/ StampAnswer(r)
    <2>1. UNCHANGED <<decision1, decision2>>
      BY <1>5, SignalCaught DEF ReadRecent, ReadAnalysis, RunNlu, SelectMemory, StampAnswer,
         FailTurn, results
    <2>2. QED
      BY <1>0, <2>1
  <1>6. CASE Ends(r)
    BY <1>1, <1>6, EndsExit
  <1>7. QED
    BY <1>1, <1>2, <1>3, <1>4, <1>5, <1>6 DEF Moves, RunStep, Ends

LEMMA SummaryFreeNext ==
    ASSUME NoSummaries, Shape, SummaryFree, [LlmNext]_vars
    PROVE  SummaryFree'
  <1>1. \A v \in Runs : ~decision1'[v].summary /\ ~decision2'[v].summary
    <2>1. CASE \E r \in Runs : Moves(r)
      <3>1. PICK r \in Runs : Moves(r)
        BY <2>1
      <3>2. \A v \in Runs \ {r} : decision1'[v] = decision1[v] /\ decision2'[v] = decision2[v]
        BY <3>1, LocalsNext DEF Kept
      <3>3. QED
        BY <3>1, <3>2, DecisionsFree DEF SummaryFree
    <2>2. CASE Aside
      BY <2>2, AsideKeeps DEF SummaryFree
    <2>3. QED
      BY <2>1, <2>2, OneMoves
  <1>2. /\ \A i \in DOMAIN analyses' : ~analyses'[i].summary
        /\ \A f \in failures' : f.cause = "provider"
    <2>1. ASSUME NEW r \in Runs, NEW t \in Tracks, SaveUserTurn(r, t)
          PROVE  UNCHANGED <<analyses, failures>>
      BY <2>1, UserTurnSaved
    <2>2. CASE \E r \in Runs : SaveAnswer(r)
      <3>1. PICK r \in Runs : SaveAnswer(r)
        BY <2>2
      <3>2. /\ DOMAIN analyses' = DOMAIN analyses \cup {Len(analyses) + 1}
            /\ \A i \in DOMAIN analyses : analyses'[i] = analyses[i]
            /\ analyses'[Len(analyses) + 1].summary
                  = (decision1[r].summary \/ decision2[r].summary)
        BY <3>1, AnswerSaved
      <3>3. failures' = failures
        BY <3>1 DEF SaveAnswer
      <3>4. QED
        BY <3>2, <3>3 DEF SummaryFree
    <2>3. CASE \E r \in Runs : Quiet(r)
      <3>1. PICK r \in Runs : Quiet(r)
        BY <2>3
      <3>2. analyses' = analyses /\ userTurn[r] \in DOMAIN turns
        BY <3>1, QuietEnds DEF rows
      <3>3. ~(Latest(TrackOf(r)) # 0 /\ analyses[Latest(TrackOf(r))].summary)
        <4>1. PICK i : i = Latest(TrackOf(r))
          OBVIOUS
        <4>2. i \in 0..Len(analyses) /\ DOMAIN analyses = 1..Len(analyses)
              /\ Len(analyses) \in Nat
          BY <4>1, LatestIs DEF Shape, RowsTyped
        <4>3. i # 0 => i \in DOMAIN analyses
          BY <4>2
        <4>4. QED
          BY <4>1, <4>3 DEF SummaryFree
      <3>4. \/ GoesAhead(r) \/ FailsFor(r, "provider") \/ Dies(r)
            \/ Escapes(r, "timeout") \/ Escapes(r, "candidate")
        BY <3>1, <3>3, QuietEnds
      <3>5. failures' = failures
            \/ failures' = failures \cup {[user |-> userTurn[r], cause |-> "provider"]}
        BY <3>4 DEF GoesAhead, FailsFor, Escapes, Dies
      <3>6. [user |-> userTurn[r], cause |-> "provider"].cause = "provider"
        OBVIOUS
      <3>7. QED
        BY <3>2, <3>5, <3>6 DEF SummaryFree
    <2>4. CASE Aside
      BY <2>4, AsideKeeps DEF SummaryFree
    <2>5. QED
      BY <2>1, <2>2, <2>3, <2>4, StepIs DEF SummaryFree
  <1>3. QED
    BY <1>1, <1>2 DEF SummaryFree

(* A message no process has was answered, or the provider is the cause     *)
(* that it was not (cli.py run_llm_message), while no process died: if the *)
(* model never answers a dict with the key summary, which no contract      *)
(* keeps it from.                                                          *)
THEOREM MessagesAnswered ==
    ASSUME NoSummaries
    PROVE  LlmSpec => []EveryMessageAnswered
  <1>1. Init => SummaryFree
    <2>1. Init => DOMAIN analyses = {} /\ failures = {} /\ \A r \in Runs : Blank(r)
      BY DEF Init, Blank
    <2>2. QED
      BY <2>1, Nothing DEF SummaryFree, Blank
  <1>2. Shape /\ SummaryFree /\ [LlmNext]_vars => SummaryFree'
    BY SummaryFreeNext
  <1>3. Accounted /\ SummaryFree => EveryMessageAnswered
    BY DEF Accounted, Reported, SummaryFree, EveryMessageAnswered
  <1>4. QED
    BY <1>1, <1>2, <1>3, ShapeAlways, MessagesAccounted, PTL DEF LlmSpec
=============================================================================
