-------------------------- MODULE MatchRoomProofs --------------------------
(***************************************************************************)
(* Matches, their money and their tables, for every number of players,     *)
(* androids, matches and tables and every layout of rounds.                *)
(*                                                                         *)
(* The players of a match are a list without repetition: joining appends   *)
(* to it, leaving erases from it, SortUser permutes it, and the end of a   *)
(* round cuts it.  A step moves money between one match and the accounts   *)
(* of its players.  Players are dealt to tables by the tableful, so that a *)
(* table is full or empty, and those who leave it wait or are done.        *)
(***************************************************************************)
EXTENDS MatchRoom, SumTheorems, SequenceTheorems, TLAPS

-----------------------------------------------------------------------------
(* Lists of players. *)

\* A list without repetition has as many members as entries.
LEMMA MembersCount ==
    ASSUME NEW l \in Seq(Players)
    PROVE  /\ IsFiniteSet(ToSet(l))
           /\ ToSet(l) \subseteq Players
           /\ IsInjective(l) => Cardinality(ToSet(l)) = Len(l)
<1>1. Len(l) \in Nat /\ DOMAIN l = 1 .. Len(l) /\ l \in [1 .. Len(l) -> Players]
  BY LenProperties
<1>2. l \in Surjection(1 .. Len(l), ToSet(l))
  BY <1>1 DEF Surjection, ToSet
<1>3. IsFiniteSet(1 .. Len(l)) /\ Cardinality(1 .. Len(l)) = Len(l)
  BY <1>1, FS_Interval
<1>4. IsInjective(l) => l \in Injection(1 .. Len(l), ToSet(l))
  BY <1>2 DEF Surjection, Injection
<1>5. ToSet(l) \subseteq Players
  BY <1>1 DEF ToSet
<1> QED
  BY <1>2, <1>3, <1>4, <1>5, FS_Surjection

\* The players of a list are counted by kind.
LEMMA RealCount ==
    ASSUME NEW l \in Seq(Players)
    PROVE  /\ RealIn(l) \in Nat
           /\ IsInjective(l) => Cardinality(ToSet(l) \cap Androids) = Len(l) - RealIn(l)
           /\ RealIn(l) = 0 => ToSet(l) \subseteq Androids
<1> DEFINE R == ToSet(l) \cap Users
           A == ToSet(l) \cap Androids
<1>1. IsFiniteSet(ToSet(l)) /\ ToSet(l) \subseteq Players
  BY MembersCount
<1>2. IsFiniteSet(R) /\ IsFiniteSet(A)
  <2>1. R \in SUBSET ToSet(l) /\ A \in SUBSET ToSet(l)
    OBVIOUS
  <2> HIDE DEF R, A
  <2> QED
    BY <1>1, <2>1, FS_Subset
<1>3. R \cup A = ToSet(l) /\ R \cap A = {} /\ RealIn(l) = Cardinality(R)
  BY <1>1, NamesAssumption DEF Players, RealIn
<1>3a. A \subseteq Androids
  OBVIOUS
<1> HIDE DEF R, A
<1>4. Cardinality(R) \in Nat /\ Cardinality(A) \in Nat
  BY <1>2, FS_CardinalityType
<1>5. Cardinality(ToSet(l)) = Cardinality(R) + Cardinality(A)
  <2>1. Cardinality(R \cup A) = Cardinality(R) + Cardinality(A) - Cardinality(R \cap A)
    BY <1>2, FS_Union
  <2>2. Cardinality({}) = 0
    BY FS_EmptySet
  <2>3. Cardinality(ToSet(l)) = Cardinality(R) + Cardinality(A) - 0
    BY <1>3, <2>1, <2>2
  <2> QED
    BY <1>4, <2>3
<1>6. Cardinality(R) = 0 => R = {}
  BY <1>2, FS_EmptySet
<1> QED
  <2>1. RealIn(l) = 0 => ToSet(l) \subseteq Androids
    BY <1>3, <1>3a, <1>6
  <2> QED
    BY <1>3, <1>4, <1>5, <2>1, MembersCount DEF A

\* A list with one player more.
LEMMA AppendMembers ==
    ASSUME NEW l \in Seq(Players), NEW p \in Players
    PROVE  /\ Append(l, p) \in Seq(Players) /\ Len(Append(l, p)) = Len(l) + 1
           /\ ToSet(Append(l, p)) = ToSet(l) \cup {p}
           /\ IsInjective(l) /\ p \notin ToSet(l) => IsInjective(Append(l, p))
<1>1. /\ Append(l, p) \in Seq(Players) /\ Len(Append(l, p)) = Len(l) + 1 /\ Len(l) \in Nat
      /\ DOMAIN l = 1 .. Len(l) /\ DOMAIN Append(l, p) = 1 .. Len(l) + 1
      /\ \A i \in 1 .. Len(l) : Append(l, p)[i] = l[i]
      /\ Append(l, p)[Len(l) + 1] = p
  BY AppendProperties, LenProperties
<1> QED
  BY <1>1 DEF ToSet, IsInjective

\* Erasing one player leaves the others.
LEMMA RemoveMembers ==
    ASSUME NEW l \in Seq(Players), IsInjective(l), NEW i \in DOMAIN l
    PROVE  /\ RemoveAt(l, i) \in Seq(Players) /\ Len(RemoveAt(l, i)) = Len(l) - 1
           /\ ToSet(RemoveAt(l, i)) = ToSet(l) \ {l[i]}
           /\ IsInjective(RemoveAt(l, i))
<1> DEFINE a == SubSeq(l, 1, i - 1)
           b == SubSeq(l, i + 1, Len(l))
           r == RemoveAt(l, i)
<1>1. Len(l) \in Nat /\ DOMAIN l = 1 .. Len(l) /\ i \in 1 .. Len(l) /\ \A k \in 1 .. Len(l) : l[k] \in Players
  BY LenProperties, ElementOfSeq
<1>2. a \in Seq(Players) /\ Len(a) = i - 1 /\ \A k \in 1 .. i - 1 : a[k] = l[k]
  <2>1. \A k \in 1 .. i - 1 : l[k] \in Players
    BY <1>1
  <2> QED
    BY <1>1, <2>1, SubSeqProperties
<1>3. b \in Seq(Players) /\ Len(b) = Len(l) - i /\ \A k \in 1 .. Len(l) - i : b[k] = l[k + i]
  <2>1. \A k \in i + 1 .. Len(l) : l[k] \in Players
    BY <1>1
  <2> QED
    BY <1>1, <2>1, SubSeqProperties
<1> HIDE DEF a, b
<1>4. /\ r \in Seq(Players) /\ Len(r) = Len(l) - 1
      /\ \A k \in 1 .. Len(l) - 1 : r[k] = IF k <= i - 1 THEN a[k] ELSE b[k - (i - 1)]
  <2>1. r = a \o b
    BY DEF RemoveAt, a, b
  <2> HIDE DEF r
  <2>2. /\ r \in Seq(Players) /\ Len(r) = Len(a) + Len(b)
        /\ \A k \in 1 .. Len(a) + Len(b) : r[k] = IF k <= Len(a) THEN a[k] ELSE b[k - Len(a)]
    BY <1>2, <1>3, <2>1, ConcatProperties
  <2>3. Len(a) + Len(b) = Len(l) - 1 /\ Len(a) = i - 1
    BY <1>1, <1>2, <1>3
  <2> QED
    BY <2>2, <2>3
<1>5. \A k \in 1 .. Len(l) - 1 : r[k] = IF k < i THEN l[k] ELSE l[k + 1]
  <2> SUFFICES ASSUME NEW k \in 1 .. Len(l) - 1 PROVE r[k] = IF k < i THEN l[k] ELSE l[k + 1]
    OBVIOUS
  <2> HIDE DEF r
  <2>1. CASE k < i
    <3>1. k \in 1 .. i - 1 /\ k <= i - 1
      BY <1>1, <2>1
    <3> QED
      BY <1>2, <1>4, <2>1, <3>1
  <2>2. CASE ~(k < i)
    <3>1. k - (i - 1) \in 1 .. Len(l) - i /\ ~(k <= i - 1) /\ k - (i - 1) + i = k + 1
      BY <1>1, <2>2
    <3> QED
      BY <1>3, <1>4, <2>2, <3>1
  <2> QED
    BY <2>1, <2>2
<1>6. DOMAIN r = 1 .. Len(l) - 1
  BY <1>4, LenProperties
<1> HIDE DEF r
<1>7. IsInjective(r)
  BY <1>1, <1>5, <1>6 DEF IsInjective
<1>8. \A k \in 1 .. Len(l) : k # i => l[k] \in ToSet(r)
  <2> SUFFICES ASSUME NEW k \in 1 .. Len(l), k # i PROVE l[k] \in ToSet(r)
    OBVIOUS
  <2>1. CASE k < i
    <3>1. k \in DOMAIN r /\ r[k] = l[k]
      BY <1>1, <1>5, <1>6, <2>1
    <3> QED
      BY <3>1 DEF ToSet
  <2>2. CASE k > i
    <3>1. k - 1 \in DOMAIN r /\ r[k - 1] = l[k]
      BY <1>1, <1>5, <1>6, <2>2
    <3> QED
      BY <3>1 DEF ToSet
  <2> QED
    BY <1>1, <2>1, <2>2
<1>9. \A k \in DOMAIN r : r[k] \in ToSet(l) /\ r[k] # l[i]
  BY <1>1, <1>5, <1>6 DEF ToSet, IsInjective
<1>10. ToSet(r) = ToSet(l) \ {l[i]}
  BY <1>1, <1>8, <1>9 DEF ToSet
<1> QED
  BY <1>4, <1>7, <1>10 DEF r

\* Those who stay after a round, and those who are out.
LEMMA CutMembers ==
    ASSUME NEW l \in Seq(Players), IsInjective(l), NEW n \in Nat, n <= Len(l)
    PROVE  /\ SubSeq(l, 1, n) \in Seq(Players) /\ Len(SubSeq(l, 1, n)) = n
           /\ IsInjective(SubSeq(l, 1, n))
           /\ ToSet(SubSeq(l, 1, n)) = ToSet(l) \ {l[i] : i \in n + 1 .. Len(l)}
<1> DEFINE r == SubSeq(l, 1, n)
<1>1. Len(l) \in Nat /\ DOMAIN l = 1 .. Len(l) /\ \A k \in 1 .. Len(l) : l[k] \in Players
  BY LenProperties, ElementOfSeq
<1>2. r \in Seq(Players) /\ Len(r) = n /\ \A k \in 1 .. n : r[k] = l[k]
  <2>1. \A k \in 1 .. n : l[k] \in Players
    BY <1>1
  <2> QED
    BY <1>1, <2>1, SubSeqProperties
<1> HIDE DEF r
<1>3. DOMAIN r = 1 .. n
  BY <1>2, LenProperties
<1>4. IsInjective(r)
  BY <1>1, <1>2, <1>3 DEF IsInjective
<1>5. ToSet(r) = ToSet(l) \ {l[i] : i \in n + 1 .. Len(l)}
  BY <1>1, <1>2, <1>3 DEF ToSet, IsInjective
<1> QED
  BY <1>2, <1>4, <1>5 DEF r

-----------------------------------------------------------------------------
(***************************************************************************)
(* SortUser.  TakenBefore is a strict order of the list's members, so that *)
(* the number of those before a member is a different one for each.        *)
(***************************************************************************)
InfoOK == info \in [Players -> [count : Nat, waitStart : BOOLEAN, score : Nat]]

\* Index finds a member of a list.
LEMMA IndexOf ==
    ASSUME NEW l \in Seq(Players), NEW p \in ToSet(l)
    PROVE  Index(l, p) \in Nat /\ Index(l, p) \in DOMAIN l /\ l[Index(l, p)] = p
<1>1. DOMAIN l \subseteq Nat
  BY LenProperties
<1>2. \E i \in DOMAIN l : l[i] = p
  BY DEF ToSet
<1> QED
  BY <1>1, <1>2 DEF Index

\* TakenBefore is a strict total order of the players of a list.
LEMMA StrictOrder ==
    ASSUME InfoOK, NEW l \in Seq(Players), NEW p \in ToSet(l), NEW q \in ToSet(l)
    PROVE  /\ ~TakenBefore(l, p, p)
           /\ p # q => TakenBefore(l, p, q) \/ TakenBefore(l, q, p)
           /\ \A r \in ToSet(l) : TakenBefore(l, r, p) /\ TakenBefore(l, p, q) => TakenBefore(l, r, q)
<1>1. \A r \in ToSet(l) : info[r].score \in Nat /\ Index(l, r) \in Nat
  BY IndexOf, MembersCount DEF InfoOK
<1>2. p # q => Index(l, p) # Index(l, q)
  BY IndexOf
<1> QED
  BY <1>1, <1>2 DEF TakenBefore

\* The elements of a finite set in a strict order, B[x] being those before x: each has a rank of its own, and every
\* rank is somebody's.
LEMMA Ranks ==
    ASSUME NEW T, IsFiniteSet(T), NEW B \in [T -> SUBSET T],
           \A x \in T : x \notin B[x],
           \A x, y \in T : x # y => x \in B[y] \/ y \in B[x],
           \A x, y \in T : x \in B[y] => B[x] \subseteq B[y]
    PROVE  /\ \A x \in T : Cardinality(B[x]) \in 0 .. Cardinality(T) - 1
           /\ \A x, y \in T : x \in B[y] => Cardinality(B[x]) < Cardinality(B[y])
           /\ \A x, y \in T : Cardinality(B[x]) = Cardinality(B[y]) => x = y
           /\ \A i \in 0 .. Cardinality(T) - 1 : \E x \in T : Cardinality(B[x]) = i
<1> DEFINE n == Cardinality(T)
           rank == [x \in T |-> Cardinality(B[x])]
<1>1. n \in Nat
  BY FS_CardinalityType
<1>2. ASSUME NEW x \in T
      PROVE  IsFiniteSet(B[x]) /\ Cardinality(B[x]) \in Nat /\ Cardinality(B[x]) < n
  <2>1. B[x] \in SUBSET T /\ B[x] # T
    OBVIOUS
  <2>2. IsFiniteSet(B[x]) /\ Cardinality(B[x]) <= n /\ Cardinality(B[x]) # n
    BY <2>1, FS_Subset
  <2>3. Cardinality(B[x]) \in Nat
    BY <2>2, FS_CardinalityType
  <2> QED
    BY <1>1, <2>2, <2>3
<1>3. ASSUME NEW x \in T, NEW y \in T, x \in B[y]
      PROVE  Cardinality(B[x]) < Cardinality(B[y])
  <2>1. B[x] \in SUBSET B[y] /\ B[x] # B[y]
    BY <1>3
  <2>2. IsFiniteSet(B[y]) /\ Cardinality(B[x]) \in Nat /\ Cardinality(B[y]) \in Nat
    BY <1>2
  <2>3. Cardinality(B[x]) <= Cardinality(B[y]) /\ Cardinality(B[x]) # Cardinality(B[y])
    BY <2>1, <2>2, FS_Subset
  <2> QED
    BY <2>2, <2>3
<1>4. ASSUME NEW x \in T, NEW y \in T, Cardinality(B[x]) = Cardinality(B[y]) PROVE x = y
  <2>1. Cardinality(B[x]) \in Nat /\ Cardinality(B[y]) \in Nat
    BY <1>2
  <2>2. x \notin B[y] /\ y \notin B[x]
    BY <1>3, <1>4, <2>1
  <2> QED
    BY <2>2
<1>5. rank \in Injection(T, 0 .. n - 1)
  <2>1. rank \in [T -> 0 .. n - 1]
    BY <1>1, <1>2
  <2> QED
    BY <1>4, <2>1 DEF Injection, IsInjective
<1>6. IsFiniteSet(0 .. n - 1) /\ Cardinality(0 .. n - 1) = n
  <2>1. n \in Nat /\ n - 1 \in Int /\ 0 \in Int
    BY <1>1
  <2> HIDE DEF n
  <2>2. IsFiniteSet(0 .. n - 1) /\ Cardinality(0 .. n - 1) = IF 0 > n - 1 THEN 0 ELSE n - 1 - 0 + 1
    BY <2>1, FS_Interval
  <2> QED
    BY <2>1, <2>2
<1> HIDE DEF rank
<1>7. rank \in Surjection(T, 0 .. n - 1)
  BY <1>1, <1>5, <1>6, FS_Injection
<1>8. \A i \in 0 .. n - 1 : \E x \in T : Cardinality(B[x]) = i
  BY <1>7 DEF Surjection, rank
<1> QED
  BY <1>1, <1>2, <1>3, <1>4, <1>8

\* SortUser permutes a list without repetition, in the order of TakenBefore.
LEMMA SortPermutes ==
    ASSUME InfoOK, NEW l \in Seq(Players), IsInjective(l)
    PROVE  /\ SortUser(l) \in Seq(Players) /\ Len(SortUser(l)) = Len(l)
           /\ ToSet(SortUser(l)) = ToSet(l) /\ IsInjective(SortUser(l))
           /\ \A i, j \in 1 .. Len(l) : i < j => TakenBefore(l, SortUser(l)[i], SortUser(l)[j])
<1> DEFINE T == ToSet(l)
           n == Len(l)
           Before(p) == {q \in T : TakenBefore(l, q, p)}
           s == SortUser(l)
<1>1. IsFiniteSet(T) /\ T \subseteq Players /\ Cardinality(T) = n /\ n \in Nat /\ DOMAIN l = 1 .. n
  BY MembersCount, LenProperties
<1>2. PICK B : B = [p \in T |-> Before(p)]
  OBVIOUS
<1>3. \A p \in T : B[p] = Before(p)
  BY <1>2
<1>4. /\ B \in [T -> SUBSET T]
      /\ \A x \in T : x \notin B[x]
      /\ \A x, y \in T : x # y => x \in B[y] \/ y \in B[x]
      /\ \A x, y \in T : x \in B[y] => B[x] \subseteq B[y]
  BY <1>2, StrictOrder
<1> HIDE DEF Before, T
<1>5. /\ \A x \in T : Cardinality(B[x]) \in 0 .. Cardinality(T) - 1
      /\ \A x, y \in T : x \in B[y] => Cardinality(B[x]) < Cardinality(B[y])
      /\ \A x, y \in T : Cardinality(B[x]) = Cardinality(B[y]) => x = y
      /\ \A i \in 0 .. Cardinality(T) - 1 : \E x \in T : Cardinality(B[x]) = i
  BY <1>1, <1>4, Ranks
<1>6. \A p \in T : Cardinality(Before(p)) \in Nat /\ Cardinality(Before(p)) < n
  BY <1>1, <1>3, <1>5
<1>7. /\ \A p, q \in T : TakenBefore(l, p, q) => Cardinality(Before(p)) < Cardinality(Before(q))
      /\ \A p, q \in T : p # q => Cardinality(Before(p)) # Cardinality(Before(q))
  <2>1. \A p, q \in T : TakenBefore(l, p, q) => p \in Before(q)
    BY DEF Before
  <2> QED
    BY <1>3, <1>5, <2>1
<1>8. \A i \in 1 .. n : \E p \in T : Cardinality(Before(p)) = i - 1
  <2>1. \A i \in 1 .. n : i - 1 \in 0 .. n - 1
    BY <1>1
  <2> QED
    BY <1>1, <1>3, <1>5, <2>1
<1>9. s = [i \in 1 .. n |-> CHOOSE p \in T : Cardinality(Before(p)) = i - 1]
  BY <1>1 DEF SortUser, T, Before
<1> HIDE DEF s
<1>10. \A i \in 1 .. n : s[i] \in T /\ Cardinality(Before(s[i])) = i - 1
  BY <1>8, <1>9
<1>11. DOMAIN s = 1 .. n /\ s \in [1 .. n -> Players] /\ s = [i \in 1 .. n |-> s[i]]
  BY <1>1, <1>9, <1>10
<1>12. s \in Seq(Players) /\ Len(s) = n
  BY <1>1, <1>11
<1>13. IsInjective(s)
  BY <1>10, <1>11 DEF IsInjective
<1>14. \A p \in T : \E i \in 1 .. n : s[i] = p
  <2> SUFFICES ASSUME NEW p \in T PROVE \E i \in 1 .. n : s[i] = p
    OBVIOUS
  <2>1. Cardinality(Before(p)) + 1 \in 1 .. n /\ (Cardinality(Before(p)) + 1) - 1 = Cardinality(Before(p))
    BY <1>1, <1>6
  <2>2. s[Cardinality(Before(p)) + 1] \in T
        /\ Cardinality(Before(s[Cardinality(Before(p)) + 1])) = Cardinality(Before(p))
    BY <1>10, <2>1
  <2> QED
    BY <1>7, <2>1, <2>2
<1>15. ToSet(s) = T
  BY <1>10, <1>11, <1>14 DEF ToSet
<1>16. ASSUME NEW i \in 1 .. n, NEW j \in 1 .. n, i < j PROVE TakenBefore(l, s[i], s[j])
  <2>1. s[i] \in T /\ s[j] \in T /\ Cardinality(Before(s[i])) = i - 1 /\ Cardinality(Before(s[j])) = j - 1
    BY <1>10
  <2>2. s[i] # s[j]
    BY <1>1, <1>16, <2>1
  <2>3. TakenBefore(l, s[i], s[j]) \/ TakenBefore(l, s[j], s[i])
    BY <2>1, <2>2, StrictOrder DEF T
  <2>4. ~TakenBefore(l, s[j], s[i])
    <3>1. CASE TakenBefore(l, s[j], s[i])
      <4>1. Cardinality(Before(s[j])) < Cardinality(Before(s[i]))
        BY <1>7, <2>1, <3>1
      <4> QED
        BY <1>1, <1>16, <2>1, <4>1
    <3> QED
      BY <3>1
  <2> QED
    BY <2>3, <2>4
<1> QED
  BY <1>12, <1>13, <1>15, <1>16 DEF s, T
-----------------------------------------------------------------------------
(***************************************************************************)
(* One match: l, s and r are its list, status and round.                   *)
(***************************************************************************)
\* How many players a round begins with.
PlayersIn(r) == IF r = 1 THEN MaxPlayers ELSE Pass[r - 1]

\* A room that waits is not full and keeps the chairs of the androids; a match that is played has the players the
\* layout says.
GoodMatch(l, s, r, inUse) ==
    /\ IsInjective(l)
    /\ s # "gaming" => /\ Len(l) < MaxPlayers /\ r = 1
                       /\ MaxPlayers >= Reserved => RealIn(l) <= MaxPlayers - Reserved
    /\ s = "gaming" => /\ inUse /\ Len(l) = PlayersIn(r)
                       /\ r = 1 /\ MaxPlayers >= Reserved => Cardinality(ToSet(l) \cap Androids) >= Reserved

\* The rounds of a layout: each lets fewer players pass than it has, the last nobody.
LEMMA Layout ==
    /\ MaxPlayers \in Nat \ {0} /\ Reserved \in Nat /\ 1 \in Rounds /\ Rounds \subseteq Nat
    /\ \A r \in Rounds : /\ Pass[r] \in Nat /\ PlayersIn(r) \in Nat /\ Pass[r] < PlayersIn(r)
                         /\ Pass[r] > 0 => r + 1 \in Rounds /\ r + 1 # 1 /\ PlayersIn(r + 1) = Pass[r]
<1>1. /\ Rounds = 1 .. Len(Pass) /\ Len(Pass) \in Nat /\ Len(Pass) > 0 /\ Pass[Len(Pass)] = 0
      /\ \A r \in 1 .. Len(Pass) : Pass[r] \in Nat /\ Pass[r] < IF r = 1 THEN MaxPlayers ELSE Pass[r - 1]
      /\ MaxPlayers \in Nat \ {0} /\ Reserved \in Nat
  BY LayoutAssumption, MoneyAssumption, LenProperties DEF Rounds
<1>2. \A r \in 1 .. Len(Pass) : PlayersIn(r) \in Nat
  BY <1>1 DEF PlayersIn
<1>3. ASSUME NEW r \in 1 .. Len(Pass), Pass[r] > 0
      PROVE  r + 1 \in 1 .. Len(Pass) /\ r + 1 # 1 /\ PlayersIn(r + 1) = Pass[r]
  <2>1. r # Len(Pass)
    BY <1>1, <1>3
  <2>2. r + 1 \in 1 .. Len(Pass) /\ r + 1 # 1 /\ (r + 1) - 1 = r
    BY <1>1, <2>1
  <2> QED
    BY <2>2 DEF PlayersIn
<1> QED
  BY <1>1, <1>2, <1>3 DEF PlayersIn

\* The empty list of players.
LEMMA EmptyList ==
    /\ <<>> \in Seq(Players) /\ Len(<<>>) = 0 /\ ToSet(<<>>) = {} /\ IsInjective(<<>>)
    /\ RealIn(<<>>) = 0
<1>1. <<>> \in Seq(Players) /\ Len(<<>>) = 0 /\ DOMAIN <<>> = {}
  BY EmptySeq
<1>2. ToSet(<<>>) = {} /\ IsInjective(<<>>)
  BY <1>1 DEF ToSet, IsInjective
<1>3. ToSet(<<>>) \cap Users = {} /\ Cardinality({}) = 0
  BY <1>2, FS_EmptySet
<1> QED
  BY <1>1, <1>2, <1>3 DEF RealIn

\* A match without players that is not played is as its status says.
LEMMA EmptyMatch ==
    ASSUME NEW s, NEW u, s # "gaming"
    PROVE  GoodMatch(<<>>, s, 1, u)
BY EmptyList, Layout DEF GoodMatch

\* How many real players a list has after one more has joined.
LEMMA AppendReal ==
    ASSUME NEW l \in Seq(Players), NEW p \in Players, p \notin ToSet(l)
    PROVE  RealIn(Append(l, p)) = RealIn(l) + IF p \in Users THEN 1 ELSE 0
<1> DEFINE R == ToSet(l) \cap Users
<1>1. IsFiniteSet(R) /\ p \notin R
  BY MembersCount, FS_Subset
<1>2. ToSet(Append(l, p)) \cap Users = IF p \in Users THEN R \cup {p} ELSE R
  BY AppendMembers
<1>3. RealIn(l) = Cardinality(R) /\ RealIn(Append(l, p)) = Cardinality(IF p \in Users THEN R \cup {p} ELSE R)
  BY <1>2 DEF RealIn
<1> HIDE DEF R
<1>4. Cardinality(R \cup {p}) = Cardinality(R) + 1 /\ Cardinality(R) \in Nat
  BY <1>1, FS_AddElement, FS_CardinalityType
<1> QED
  BY <1>3, <1>4

\* A player who may join leaves the match as it should be, waiting or, when he was the last, to be played.
LEMMA JoinKeepsGood ==
    ASSUME NEW l \in Seq(Players), NEW p \in Players, p \notin ToSet(l), NEW s, s # "gaming", NEW r, NEW u,
           GoodMatch(l, s, r, u), p \in Users => ~RealLimitReached(l)
    PROVE  LET k == Append(l, p)
           IN  /\ Len(k) < MaxPlayers => GoodMatch(k, "wait", r, TRUE)
               /\ Len(k) >= MaxPlayers => GoodMatch(k, "gaming", r, TRUE)
<1> DEFINE k == Append(l, p)
<1>1. /\ k \in Seq(Players) /\ Len(k) = Len(l) + 1 /\ IsInjective(k) /\ Len(l) \in Nat /\ Len(l) < MaxPlayers
      /\ r = 1
  BY AppendMembers, LenProperties DEF GoodMatch
<1>2. MaxPlayers >= Reserved => RealIn(k) <= MaxPlayers - Reserved
  <2>1. RealIn(k) = RealIn(l) + IF p \in Users THEN 1 ELSE 0
    BY AppendReal
  <2>2. RealIn(l) \in Nat /\ MaxPlayers \in Nat /\ Reserved \in Nat
    BY RealCount, Layout
  <2>3. MaxPlayers >= Reserved => /\ RealIn(l) <= MaxPlayers - Reserved
                                  /\ p \in Users => ~(RealIn(l) >= MaxPlayers - Reserved)
    BY DEF GoodMatch, RealLimitReached
  <2> HIDE DEF k
  <2> QED
    BY <2>1, <2>2, <2>3
<1>3. Cardinality(ToSet(k) \cap Androids) = Len(k) - RealIn(k) /\ RealIn(k) \in Nat
  BY <1>1, RealCount
<1> HIDE DEF k
<1>4. Len(k) < MaxPlayers => GoodMatch(k, "wait", r, TRUE)
  BY <1>1, <1>2 DEF GoodMatch
<1>5. ASSUME Len(k) >= MaxPlayers PROVE GoodMatch(k, "gaming", r, TRUE)
  <2>1. Len(k) = MaxPlayers
    BY <1>1, <1>5, Layout
  <2>2. MaxPlayers >= Reserved => Cardinality(ToSet(k) \cap Androids) >= Reserved
    BY <1>2, <1>3, <2>1, Layout
  <2> QED
    BY <1>1, <2>1, <2>2 DEF GoodMatch, PlayersIn
<1> QED
  BY <1>4, <1>5 DEF k

\* A match that is not played stays good when a player leaves it.
LEMMA LeaveKeepsGood ==
    ASSUME NEW l \in Seq(Players), NEW i \in DOMAIN l, NEW s, s # "gaming", NEW r, NEW u, GoodMatch(l, s, r, u)
    PROVE  GoodMatch(RemoveAt(l, i), s, r, u)
<1> DEFINE k == RemoveAt(l, i)
<1>1. IsInjective(l) /\ Len(l) \in Nat
  BY LenProperties DEF GoodMatch
<1>2. k \in Seq(Players) /\ Len(k) = Len(l) - 1 /\ IsInjective(k) /\ ToSet(k) \subseteq ToSet(l)
  BY <1>1, RemoveMembers
<1> HIDE DEF k
<1>3. RealIn(k) <= RealIn(l)
  <2> DEFINE L == ToSet(l) \cap Users
             K == ToSet(k) \cap Users
  <2>1. IsFiniteSet(L) /\ K \in SUBSET L
    BY <1>2, MembersCount, FS_Subset
  <2>2. RealIn(l) = Cardinality(L) /\ RealIn(k) = Cardinality(K)
    BY DEF RealIn
  <2> HIDE DEF L, K
  <2> QED
    BY <2>1, <2>2, FS_Subset
<1>4. RealIn(k) \in Nat /\ RealIn(l) \in Nat
  BY <1>2, RealCount
<1> QED
  BY <1>1, <1>2, <1>3, <1>4, Layout DEF GoodMatch, k

\* A match stays good when its list is ranked.
LEMMA SortKeepsGood ==
    ASSUME InfoOK, NEW l \in Seq(Players), NEW r, NEW u, GoodMatch(l, "gaming", r, u)
    PROVE  GoodMatch(SortUser(l), "gaming", r, u)
BY SortPermutes DEF GoodMatch

\* The round is over, and those who pass begin the next.
LEMMA CutKeepsGood ==
    ASSUME NEW l \in Seq(Players), NEW r \in Rounds, GoodMatch(l, "gaming", r, TRUE), Pass[r] > 0
    PROVE  GoodMatch(SubSeq(l, 1, Pass[r]), "gaming", r + 1, TRUE)
<1>1. IsInjective(l) /\ Pass[r] \in Nat /\ Pass[r] <= Len(l) /\ r + 1 # 1 /\ PlayersIn(r + 1) = Pass[r]
  BY Layout DEF GoodMatch
<1>2. Len(SubSeq(l, 1, Pass[r])) = Pass[r] /\ IsInjective(SubSeq(l, 1, Pass[r]))
  BY <1>1, CutMembers
<1> QED
  BY <1>1, <1>2 DEF GoodMatch
-----------------------------------------------------------------------------
(***************************************************************************)
(* The inductive invariant: every match is as it should be, one waits, and *)
(* nobody is in two.                                                       *)
(***************************************************************************)
MatchTypes ==
    /\ status \in [Matches -> {"wait", "gaming", "end"}] /\ used \subseteq Matches
    /\ list \in [Matches -> Seq(Players)] /\ round \in [Matches -> Rounds]
    /\ InfoOK /\ freeAndroids \subseteq Androids /\ online \in [Users -> BOOLEAN]

AllGood == \A m \in Matches : GoodMatch(list[m], status[m], round[m], m \in used)

MatchInv == MatchTypes /\ AllGood /\ OneWaits /\ InOneMatch

\* A step that changes one match: what remains to be shown of it.
LEMMA OneMatchChanges ==
    ASSUME MatchInv, NEW m \in Matches, NEW l \in Seq(Players), NEW s \in {"wait", "gaming", "end"},
           NEW r \in Rounds, NEW U \in SUBSET Matches,
           list' = [list EXCEPT ![m] = l], status' = [status EXCEPT ![m] = s],
           round' = [round EXCEPT ![m] = r], used' = U, U \ {m} = used \ {m},
           GoodMatch(l, s, r, m \in U),
           s = "wait" /\ m \in U => FindNormalSuitMatch(m) \/ (m \in used /\ status[m] = "wait")
    PROVE  /\ status' \in [Matches -> {"wait", "gaming", "end"}] /\ used' \subseteq Matches
           /\ list' \in [Matches -> Seq(Players)] /\ round' \in [Matches -> Rounds]
           /\ AllGood' /\ OneWaits'
<1>1. /\ status' \in [Matches -> {"wait", "gaming", "end"}] /\ used' \subseteq Matches
      /\ list' \in [Matches -> Seq(Players)] /\ round' \in [Matches -> Rounds]
  BY DEF MatchInv, MatchTypes
<1>2. /\ list'[m] = l /\ status'[m] = s /\ round'[m] = r
      /\ \A n \in Matches \ {m} : /\ list'[n] = list[n] /\ status'[n] = status[n] /\ round'[n] = round[n]
                                  /\ n \in U <=> n \in used
  BY DEF MatchInv, MatchTypes
<1>3. AllGood'
  <2> SUFFICES ASSUME NEW n \in Matches
               PROVE  GoodMatch(list'[n], status'[n], round'[n], n \in used')
    BY DEF AllGood
  <2>1. CASE n = m
    BY <1>2, <2>1
  <2>2. CASE n # m
    <3>1. GoodMatch(list[n], status[n], round[n], n \in used)
      BY DEF MatchInv, AllGood
    <3> QED
      BY <1>2, <2>2, <3>1 DEF GoodMatch
  <2> QED
    BY <2>1, <2>2
<1>4. OneWaits'
  BY <1>2 DEF MatchInv, OneWaits, FindNormalSuitMatch
<1> QED
  BY <1>1, <1>3, <1>4

\* A step that changes the list of one match only.
LEMMA OnlyListChanges ==
    ASSUME MatchInv, NEW m \in Matches, NEW l \in Seq(Players), list' = [list EXCEPT ![m] = l],
           UNCHANGED <<status, round, used>>, GoodMatch(l, status[m], round[m], m \in used)
    PROVE  /\ status' \in [Matches -> {"wait", "gaming", "end"}] /\ used' \subseteq Matches
           /\ list' \in [Matches -> Seq(Players)] /\ round' \in [Matches -> Rounds]
           /\ AllGood' /\ OneWaits'
<1>1. PICK s \in {"wait", "gaming", "end"} : s = status[m]
  BY DEF MatchInv, MatchTypes
<1>2. PICK r \in Rounds : r = round[m]
  BY DEF MatchInv, MatchTypes
<1>3. PICK U \in SUBSET Matches : U = used
  BY DEF MatchInv, MatchTypes
<1>4. /\ status' = [status EXCEPT ![m] = s] /\ round' = [round EXCEPT ![m] = r]
      /\ used' = U /\ U \ {m} = used \ {m}
  BY <1>1, <1>2, <1>3 DEF MatchInv, MatchTypes
<1>5. GoodMatch(l, s, r, m \in U)
  BY <1>1, <1>2, <1>3
<1>6. s = "wait" /\ m \in U => FindNormalSuitMatch(m) \/ (m \in used /\ status[m] = "wait")
  BY <1>1, <1>3
<1> QED
  BY <1>4, <1>5, <1>6, OneMatchChanges

\* The same for who is in which match.
LEMMA OneListChanges ==
    ASSUME MatchInv, NEW m \in Matches, NEW l \in Seq(Players), list' = [list EXCEPT ![m] = l],
           \A p \in ToSet(l) : p \in ToSet(list[m]) \/ ~InMatch(p),
           \A u \in Users : u \in ToSet(l) \/ (InMatch(u) /\ u \notin ToSet(list[m])) => online'[u],
           freeAndroids' = (freeAndroids \cup (ToSet(list[m]) \cap Androids)) \ ToSet(l)
    PROVE  InOneMatch'
<1> DEFINE In(p, n) == p \in ToSet(list[n])
           InNew(p, n) == IF n = m THEN p \in ToSet(l) ELSE In(p, n)
<1>1. \A p : \A n \in Matches : p \in ToSet(list'[n]) <=> InNew(p, n)
  BY DEF MatchInv, MatchTypes
<1>2. \A p : InMatch(p) <=> \E n \in Matches : In(p, n)
  BY DEF InMatch
<1>3. \A p : InMatch(p)' <=> \E n \in Matches : InNew(p, n)
  BY <1>1 DEF InMatch
<1>4. /\ \A u \in Users : InMatch(u) => online[u]
      /\ \A p \in Players, k, n \in Matches : In(p, k) /\ In(p, n) => k = n
      /\ freeAndroids = {a \in Androids : ~InMatch(a)}
  BY DEF MatchInv, InOneMatch
<1>5. \A p \in ToSet(l) : In(p, m) \/ ~InMatch(p)
  OBVIOUS
<1>6. ToSet(l) \subseteq Players /\ Androids \subseteq Players /\ Users \subseteq Players
  BY MembersCount DEF Players
<1>7. \A u \in Users : u \in ToSet(l) \/ (InMatch(u) /\ ~In(u, m)) => online'[u]
  OBVIOUS
<1>8. freeAndroids' = {a \in Androids : (~InMatch(a) \/ In(a, m)) /\ a \notin ToSet(l)}
  BY <1>4
<1> HIDE DEF In
<1>9. \A u \in Users : (\E n \in Matches : InNew(u, n)) => online'[u]
  BY <1>2, <1>4, <1>6, <1>7
<1>10. \A p \in Players, k, n \in Matches : InNew(p, k) /\ InNew(p, n) => k = n
  BY <1>2, <1>4, <1>5
<1>11. \A a \in Androids : (~InMatch(a) \/ In(a, m)) /\ a \notin ToSet(l) <=> ~\E n \in Matches : InNew(a, n)
  BY <1>2, <1>4, <1>6
<1> HIDE DEF InNew
<1>12. \A u \in Users : InMatch(u)' => online'[u]
  BY <1>3, <1>9
<1>13. \A p \in Players, k, n \in Matches : p \in ToSet(list'[k]) /\ p \in ToSet(list'[n]) => k = n
  BY <1>1, <1>10
<1>14. freeAndroids' = {a \in Androids : ~InMatch(a)'}
  BY <1>3, <1>8, <1>11
<1> QED
  BY <1>12, <1>13, <1>14 DEF InOneMatch

\* A step that changes no match.
LEMMA NoMatchChanges ==
    ASSUME MatchInv, UNCHANGED <<status, used, list, round, freeAndroids>>, InfoOK',
           online' \in [Users -> BOOLEAN],
           \A u \in Users : InMatch(u) => online'[u]
    PROVE  MatchInv'
<1>1. MatchTypes' /\ AllGood' /\ OneWaits'
  BY DEF MatchInv, MatchTypes, AllGood, OneWaits
<1>2. \A p : InMatch(p)' <=> InMatch(p)
  BY DEF InMatch
<1>3. InOneMatch'
  BY <1>2 DEF MatchInv, InOneMatch
<1> QED
  BY <1>1, <1>3 DEF MatchInv
-----------------------------------------------------------------------------
(* The actions. *)

\* A room FindNormalSuitMatch finds is not being played.
LEMMA FoundWaits ==
    ASSUME MatchInv, NEW m \in Matches, FindNormalSuitMatch(m)
    PROVE  status[m] # "gaming"
BY DEF MatchInv, AllGood, GoodMatch, FindNormalSuitMatch

\* A room is taken and nobody joins it.
LEMMA TakeKeeps ==
    ASSUME MatchInv, NEW m \in Matches, FindNormalSuitMatch(m), used' = used \cup {m}, status' = TakenStatus(m),
           UNCHANGED <<list, round, info, freeAndroids>>, online' \in [Users -> BOOLEAN],
           \A u \in Users : InMatch(u) => online'[u]
    PROVE  MatchInv'
<1>1. GoodMatch(list[m], "wait", round[m], m \in used \cup {m})
  BY FoundWaits DEF MatchInv, AllGood, GoodMatch
<1>2. list' = [list EXCEPT ![m] = list[m]] /\ round' = [round EXCEPT ![m] = round[m]]
  BY DEF MatchInv, MatchTypes
<1>3. list[m] \in Seq(Players) /\ round[m] \in Rounds /\ used \cup {m} \in SUBSET Matches
  BY DEF MatchInv, MatchTypes
<1>3a. status' = [status EXCEPT ![m] = "wait"] /\ (used \cup {m}) \ {m} = used \ {m}
  BY DEF TakenStatus
<1>4. /\ status' \in [Matches -> {"wait", "gaming", "end"}] /\ used' \subseteq Matches
      /\ list' \in [Matches -> Seq(Players)] /\ round' \in [Matches -> Rounds]
      /\ AllGood' /\ OneWaits'
  BY <1>1, <1>2, <1>3, <1>3a, OneMatchChanges
<1>5. MatchTypes'
  BY <1>4 DEF MatchInv, MatchTypes, InfoOK
<1>6. \A p : InMatch(p)' <=> InMatch(p)
  BY DEF InMatch
<1>7. InOneMatch'
  BY <1>6 DEF MatchInv, InOneMatch
<1> QED
  BY <1>4, <1>5, <1>7 DEF MatchInv

\* Dealing the tables keeps the players' records well-formed.
LEMMA AllocateInfo ==
    ASSUME InfoOK, NEW m \in Matches, NEW w, AllocateRoom(m, w)
    PROVE  InfoOK'
<1> DEFINE left == IF Len(w) > AllChairs THEN SubSeq(w, 1, Len(w) - AllChairs) ELSE <<>>
           top(p) == TopUp(w, p, info[p])
<1>1. info' = [p \in Players |-> IF p \in ToSet(w) \ ToSet(left) THEN [top(p) EXCEPT !.waitStart = FALSE]
                                                                 ELSE top(p)]
  BY DEF AllocateRoom
<1>2. \A p \in Players : top(p) \in [count : Nat, waitStart : BOOLEAN, score : Nat]
  BY MoneyAssumption DEF TopUp, InfoOK
<1> HIDE DEF top, left
<1> QED
  BY <1>1, <1>2 DEF InfoOK

\* JoinMatch for a player who is in no match; the callers say what happens to online and freeAndroids.
LEMMA JoinKeeps ==
    ASSUME MatchInv, NEW m \in Matches, NEW p \in Players, ~InMatch(p), FindNormalSuitMatch(m), JoinMatch(m, p),
           p \in Users => ~RealLimitReached(list[m]) /\ online[p],
           UNCHANGED online,
           freeAndroids' = IF Dismissed(Append(list[m], p)) THEN freeAndroids \cup ToSet(list[m])
                                                            ELSE freeAndroids \ {p}
    PROVE  MatchInv'
<1> DEFINE k == Append(list[m], p)
           U == used \cup {m}
           Result(l, s) == /\ list' = [list EXCEPT ![m] = l] /\ status' = [status EXCEPT ![m] = s]
                           /\ UNCHANGED round /\ InfoOK'
<1>1. /\ list[m] \in Seq(Players) /\ round[m] \in Rounds /\ U \in SUBSET Matches /\ U \ {m} = used \ {m} /\ m \in U
      /\ round = [round EXCEPT ![m] = round[m]] /\ InfoOK /\ online \in [Users -> BOOLEAN]
      /\ freeAndroids \subseteq Androids
  BY DEF MatchInv, MatchTypes
<1>2. GoodMatch(list[m], status[m], round[m], m \in used) /\ status[m] # "gaming" /\ p \notin ToSet(list[m])
  BY FoundWaits DEF MatchInv, AllGood, InMatch
<1>3. /\ Len(k) < MaxPlayers => GoodMatch(k, "wait", round[m], TRUE)
      /\ Len(k) >= MaxPlayers => GoodMatch(k, "gaming", round[m], TRUE)
  BY <1>1, <1>2, JoinKeepsGood
<1>4. k \in Seq(Players) /\ ToSet(k) = ToSet(list[m]) \cup {p}
  BY <1>1, AppendMembers
<1>5. round[m] = 1
  BY <1>2 DEF GoodMatch
<1>6. Dismissed(k) => ToSet(k) \subseteq Androids
  BY <1>4, RealCount DEF Dismissed
<1>7. \/ Len(k) < MaxPlayers /\ ~Dismissed(k) /\ Result(k, "wait")
      \/ Dismissed(k) /\ Result(<<>>, "wait")
      \/ Len(k) >= MaxPlayers /\ ~Dismissed(k) /\ Result(k, "gaming")
  <2>1. CASE Len(k) < MaxPlayers /\ UNCHANGED <<round, info>> /\ list' = [list EXCEPT ![m] = k]
             /\ status' = TakenStatus(m)
    <3>1. ~Dismissed(k)
      <4>1. Len(k) \in Nat /\ MaxPlayers \in Nat
        BY <1>4, LenProperties, Layout
      <4> QED
        BY <2>1, <4>1 DEF Dismissed
    <3> QED
      BY <1>1, <2>1, <3>1 DEF TakenStatus, InfoOK
  <2>2. CASE Dismissed(k) /\ clearAllUser(m)
    BY <1>1, <2>2 DEF clearAllUser, TakenStatus, InfoOK
  <2>3. CASE Len(k) >= MaxPlayers /\ ~Dismissed(k) /\ StartMatch(m, k)
    <3>1. InfoOK'
      BY <1>1, <2>3, AllocateInfo DEF StartMatch
    <3> QED
      BY <2>3, <3>1 DEF StartMatch
  <2> QED
    BY <2>1, <2>2, <2>3 DEF JoinMatch
<1>8. used' = U
  BY DEF JoinMatch
<1>9. freeAndroids' = IF Dismissed(k) THEN freeAndroids \cup ToSet(list[m]) ELSE freeAndroids \ {p}
  OBVIOUS
<1>10. freeAndroids \cap ToSet(list[m]) = {} /\ \A u \in Users : InMatch(u) => online[u]
  BY DEF MatchInv, InOneMatch, InMatch
<1>10a. \A u \in Users : u \in ToSet(list[m]) => online[u]
  BY <1>10 DEF InMatch
<1> HIDE DEF k, U
<1>11. freeAndroids' \subseteq Androids
  BY <1>1, <1>4, <1>6, <1>9
<1>12. ASSUME Dismissed(k), Result(<<>>, "wait") PROVE MatchInv'
  <2>1. GoodMatch(<<>>, "wait", round[m], m \in U) /\ <<>> \in Seq(Players) /\ ToSet(<<>>) = {}
    BY <1>5, EmptyMatch, EmptyList
  <2>2. AllGood' /\ OneWaits' /\ MatchTypes'
    <3>1. /\ status' \in [Matches -> {"wait", "gaming", "end"}] /\ used' \subseteq Matches
          /\ list' \in [Matches -> Seq(Players)] /\ round' \in [Matches -> Rounds]
          /\ AllGood' /\ OneWaits'
      BY <1>1, <1>8, <1>12, <2>1, OneMatchChanges
    <3> QED
      BY <1>1, <1>11, <1>12, <3>1 DEF MatchTypes
  <2>3. freeAndroids' = (freeAndroids \cup (ToSet(list[m]) \cap Androids)) \ ToSet(<<>>)
    BY <1>4, <1>6, <1>9, <1>12, <2>1
  <2>4. InOneMatch'
    BY <1>10, <1>12, <2>1, <2>3, OneListChanges
  <2> QED
    BY <2>2, <2>4 DEF MatchInv
<1>13. ASSUME NEW s \in {"wait", "gaming"}, ~Dismissed(k), Result(k, s), GoodMatch(k, s, round[m], TRUE)
       PROVE  MatchInv'
  <2>1. GoodMatch(k, s, round[m], m \in U)
    BY <1>1, <1>13
  <2>2. AllGood' /\ OneWaits' /\ MatchTypes'
    <3>1. /\ status' \in [Matches -> {"wait", "gaming", "end"}] /\ used' \subseteq Matches
          /\ list' \in [Matches -> Seq(Players)] /\ round' \in [Matches -> Rounds]
          /\ AllGood' /\ OneWaits'
      <4>1. /\ round' = [round EXCEPT ![m] = round[m]] /\ s \in {"wait", "gaming", "end"}
            /\ list' = [list EXCEPT ![m] = k] /\ status' = [status EXCEPT ![m] = s]
        BY <1>1, <1>13
      <4>2. U \in SUBSET Matches /\ U \ {m} = used \ {m} /\ round[m] \in Rounds /\ k \in Seq(Players)
        BY <1>1, <1>4
      <4> HIDE DEF Result
      <4> QED
        BY <1>8, <2>1, <4>1, <4>2, OneMatchChanges
    <3> QED
      BY <1>1, <1>11, <1>13, <3>1 DEF MatchTypes
  <2>3. freeAndroids' = (freeAndroids \cup (ToSet(list[m]) \cap Androids)) \ ToSet(k)
    BY <1>4, <1>9, <1>10, <1>13
  <2>4. InOneMatch'
    BY <1>4, <1>10, <1>10a, <1>13, <2>3, OneListChanges
  <2> QED
    BY <2>2, <2>4 DEF MatchInv
<1> HIDE DEF Result
<1> QED
  BY <1>3, <1>7, <1>12, <1>13

\* The message cmd_enter_match.
LEMMA EnterKeeps ==
    ASSUME MatchInv, NEW u \in Users, NEW m \in Matches, cmd_enter_match(u, m)
    PROVE  MatchInv'
<1>1. /\ online[u] /\ ~InMatch(u) /\ FindNormalSuitMatch(m) /\ UNCHANGED freeAndroids
      /\ u \in Players /\ u \notin Androids
  BY NamesAssumption DEF cmd_enter_match, Players
<1>2. online \in [Users -> BOOLEAN] /\ (\A v \in Users : InMatch(v) => online[v]) /\ freeAndroids \subseteq Androids
      /\ list[m] \in Seq(Players)
  BY DEF MatchInv, MatchTypes, InOneMatch
<1>3. CASE JoinRefused(u, m) /\ online' = [online EXCEPT ![u] = FALSE] /\ used' = used \cup {m}
           /\ status' = TakenStatus(m) /\ UNCHANGED <<list, round, info>>
  <2>1. online' \in [Users -> BOOLEAN] /\ \A v \in Users : InMatch(v) => online'[v]
    BY <1>1, <1>2, <1>3
  <2> QED
    BY <1>1, <1>3, <2>1, TakeKeeps
<1>4. CASE ~JoinRefused(u, m) /\ JoinMatch(m, u) /\ UNCHANGED online
  <2>1. ~RealLimitReached(list[m])
    BY <1>4 DEF JoinRefused
  <2>2. ~Dismissed(Append(list[m], u))
    <3>1. Append(list[m], u) \in Seq(Players) /\ u \in ToSet(Append(list[m], u))
      BY <1>1, <1>2, AppendMembers
    <3> QED
      BY <1>1, <3>1, RealCount DEF Dismissed
  <2>3. freeAndroids' = IF Dismissed(Append(list[m], u)) THEN freeAndroids \cup ToSet(list[m])
                                                         ELSE freeAndroids \ {u}
    BY <1>1, <1>2, <2>2
  <2> QED
    BY <1>1, <1>4, <2>1, <2>3, JoinKeeps
<1> QED
  BY <1>3, <1>4 DEF cmd_enter_match

\* The android timer.
LEMMA TimerKeeps ==
    ASSUME MatchInv, NEW m \in Matches, OnTimerCheckUserIn(m)
    PROVE  MatchInv'
<1>1. FindNormalSuitMatch(m) /\ freeAndroids # {} /\ UNCHANGED online
  BY DEF OnTimerCheckUserIn, redis
<1>2. online \in [Users -> BOOLEAN] /\ (\A v \in Users : InMatch(v) => online[v])
      /\ freeAndroids = {a \in Androids : ~InMatch(a)}
  BY DEF MatchInv, MatchTypes, InOneMatch
<1>3. CASE used' = used \cup {m} /\ status' = TakenStatus(m) /\ UNCHANGED <<list, round, info, freeAndroids>>
  BY <1>1, <1>2, <1>3, TakeKeeps
<1>4. ASSUME NEW a \in {GetFreeAndroidUserItem}, JoinMatch(m, a),
             freeAndroids' = IF Dismissed(Append(list[m], a)) THEN freeAndroids \cup ToSet(list[m])
                                                              ELSE freeAndroids \ {a}
      PROVE  MatchInv'
  <2>1. a \in freeAndroids
    BY <1>1, <1>4 DEF GetFreeAndroidUserItem
  <2>2. a \in Players /\ a \notin Users /\ ~InMatch(a)
    BY <1>2, <2>1, NamesAssumption DEF Players
  <2> QED
    BY <1>1, <1>4, <2>2, JoinKeeps
<1> QED
  BY <1>3, <1>4 DEF OnTimerCheckUserIn

\* A player gives up waiting.
LEMMA LeftKeeps ==
    ASSUME MatchInv, NEW u \in Users, NEW m \in Matches, LeftMatch(u, m)
    PROVE  MatchInv'
<1> DEFINE k == RemoveAt(list[m], Index(list[m], u))
<1>1. /\ u \in ToSet(list[m]) /\ status[m] # "gaming" /\ list' = [list EXCEPT ![m] = k]
      /\ online' = [online EXCEPT ![u] = FALSE] /\ info' = [info EXCEPT ![u] = NoInfo]
      /\ UNCHANGED <<status, used, round, freeAndroids>>
  BY DEF LeftMatch
<1>2. /\ list[m] \in Seq(Players) /\ round[m] \in Rounds /\ used \in SUBSET Matches
      /\ status[m] \in {"wait", "gaming", "end"}
      /\ freeAndroids \subseteq Androids /\ online \in [Users -> BOOLEAN]
  BY <1>1 DEF MatchInv, MatchTypes
<1>3. Index(list[m], u) \in DOMAIN list[m] /\ list[m][Index(list[m], u)] = u
  BY <1>1, <1>2, IndexOf
<1>4. GoodMatch(list[m], status[m], round[m], m \in used) /\ IsInjective(list[m])
  BY DEF MatchInv, AllGood, GoodMatch
<1>5. GoodMatch(k, status[m], round[m], m \in used)
  BY <1>1, <1>2, <1>3, <1>4, LeaveKeepsGood
<1>6. k \in Seq(Players) /\ ToSet(k) = ToSet(list[m]) \ {u}
  BY <1>2, <1>3, <1>4, RemoveMembers
<1> HIDE DEF k
<1>8. /\ status' \in [Matches -> {"wait", "gaming", "end"}] /\ used' \subseteq Matches
      /\ list' \in [Matches -> Seq(Players)] /\ round' \in [Matches -> Rounds]
      /\ AllGood' /\ OneWaits'
  BY <1>1, <1>5, <1>6, OnlyListChanges
<1>9. InfoOK'
  BY <1>1, MoneyAssumption DEF InfoOK, NoInfo, MatchInv, MatchTypes, Players
<1>10. MatchTypes'
  BY <1>1, <1>2, <1>8, <1>9 DEF MatchTypes
<1>11. \A v \in Users : InMatch(v) => online[v]
  BY DEF MatchInv, InOneMatch
<1>12. freeAndroids' = (freeAndroids \cup (ToSet(list[m]) \cap Androids)) \ ToSet(k)
  <2>1. u \notin Androids /\ freeAndroids \cap ToSet(list[m]) = {}
    BY NamesAssumption DEF MatchInv, InOneMatch, InMatch
  <2> QED
    BY <1>1, <1>2, <1>6, <2>1
<1>13. \A v \in Users : v \in ToSet(k) \/ (InMatch(v) /\ v \notin ToSet(list[m])) => online'[v]
  <2>1. \A v \in ToSet(list[m]) : InMatch(v)
    BY DEF InMatch
  <2> QED
    BY <1>1, <1>2, <1>6, <1>11, <2>1
<1>14. InOneMatch'
  BY <1>1, <1>6, <1>12, <1>13, OneListChanges
<1> QED
  BY <1>8, <1>10, <1>14 DEF MatchInv

\* The next games of the round.
LEMMA DealKeeps ==
    ASSUME MatchInv, NEW m \in Matches, DealAgain(m)
    PROVE  MatchInv'
<1> DEFINE k == SortUser(list[m])
<1>1. /\ status[m] = "gaming" /\ list' = [list EXCEPT ![m] = k] /\ \E w : AllocateRoom(m, w)
      /\ UNCHANGED <<status, used, round, freeAndroids, online>>
  <2>1. \E w : AllocateRoom(m, w)
    BY DEF DealAgain
  <2>2. list' = [list EXCEPT ![m] = SortUser(list[m])]
    BY DEF DealAgain
  <2> QED
    BY <2>1, <2>2 DEF DealAgain, redis
<1>2. /\ list[m] \in Seq(Players) /\ round[m] \in Rounds /\ used \in SUBSET Matches
      /\ status[m] \in {"wait", "gaming", "end"} /\ InfoOK
      /\ freeAndroids \subseteq Androids /\ online \in [Users -> BOOLEAN]
  BY <1>1 DEF MatchInv, MatchTypes
<1>3. GoodMatch(list[m], "gaming", round[m], m \in used) /\ IsInjective(list[m])
  BY <1>1 DEF MatchInv, AllGood, GoodMatch
<1>4. GoodMatch(k, status[m], round[m], m \in used)
  BY <1>1, <1>2, <1>3, SortKeepsGood
<1>5. k \in Seq(Players) /\ ToSet(k) = ToSet(list[m])
  BY <1>2, <1>3, SortPermutes
<1> HIDE DEF k
<1>6. /\ status' \in [Matches -> {"wait", "gaming", "end"}] /\ used' \subseteq Matches
      /\ list' \in [Matches -> Seq(Players)] /\ round' \in [Matches -> Rounds]
      /\ AllGood' /\ OneWaits'
  BY <1>1, <1>4, <1>5, OnlyListChanges
<1>7. InfoOK'
  BY <1>1, <1>2, AllocateInfo
<1>8. MatchTypes'
  BY <1>1, <1>2, <1>6, <1>7 DEF MatchTypes
<1>9. /\ \A v \in Users : InMatch(v) => online[v]
      /\ \A v \in ToSet(list[m]) : InMatch(v) /\ v \notin freeAndroids
  BY DEF MatchInv, InOneMatch, InMatch
<1>10. freeAndroids' = (freeAndroids \cup (ToSet(list[m]) \cap Androids)) \ ToSet(k)
  BY <1>1, <1>5, <1>9
<1>11. \A v \in Users : v \in ToSet(k) \/ (InMatch(v) /\ v \notin ToSet(list[m])) => online'[v]
  BY <1>1, <1>5, <1>9
<1>12. InOneMatch'
  BY <1>1, <1>5, <1>10, <1>11, OneListChanges
<1> QED
  BY <1>6, <1>8, <1>12 DEF MatchInv

\* A round is over: those behind the pass count leave, and the match with them when nobody passes.
LEMMA EndKeeps ==
    ASSUME MatchInv, NEW m \in Matches, EndRound(m)
    PROVE  MatchInv'
<1> DEFINE l == SortUser(list[m])
           pass == Pass[round[m]]
           stay == SubSeq(l, 1, pass)
           out == {l[i] : i \in pass + 1 .. Len(l)}
<1>1. /\ status[m] = "gaming" /\ Leave(out)
      /\ info' = [p \in Players |-> IF p \in out THEN NoInfo
                                    ELSE IF p \in ToSet(stay) THEN [info[p] EXCEPT !.count = 0]
                                    ELSE info[p]]
      /\ \/ /\ pass = 0 /\ status' = [status EXCEPT ![m] = "end"] /\ used' = used \ {m}
            /\ round' = [round EXCEPT ![m] = 1] /\ list' = [list EXCEPT ![m] = <<>>]
         \/ /\ pass > 0 /\ round' = [round EXCEPT ![m] = @ + 1] /\ list' = [list EXCEPT ![m] = stay]
            /\ UNCHANGED <<status, used>>
  BY DEF EndRound
<1>2. /\ list[m] \in Seq(Players) /\ round[m] \in Rounds /\ used \in SUBSET Matches /\ InfoOK
      /\ freeAndroids \subseteq Androids /\ online \in [Users -> BOOLEAN]
  BY DEF MatchInv, MatchTypes
<1>3. GoodMatch(list[m], "gaming", round[m], m \in used) /\ IsInjective(list[m]) /\ m \in used
  BY <1>1 DEF MatchInv, AllGood, GoodMatch
<1>4. /\ l \in Seq(Players) /\ ToSet(l) = ToSet(list[m]) /\ IsInjective(l) /\ GoodMatch(l, "gaming", round[m], TRUE)
  BY <1>2, <1>3, SortPermutes, SortKeepsGood
<1> HIDE DEF l
<1>5. pass \in Nat /\ pass <= Len(l) /\ Len(l) \in Nat
  <2>1. Len(l) = PlayersIn(round[m]) /\ Len(l) \in Nat
    BY <1>4, LenProperties DEF GoodMatch
  <2>2. Pass[round[m]] \in Nat /\ Pass[round[m]] < PlayersIn(round[m])
    BY <1>2, Layout
  <2> QED
    BY <2>1, <2>2
<1>6. stay \in Seq(Players) /\ Len(stay) = pass /\ ToSet(stay) = ToSet(list[m]) \ out
  BY <1>4, <1>5, CutMembers
<1>7. out \subseteq ToSet(list[m])
  <2>1. \A i \in pass + 1 .. Len(l) : i \in DOMAIN l
    BY <1>4, <1>5, LenProperties
  <2> QED
    BY <1>4, <2>1 DEF ToSet
<1>8. pass > 0 => GoodMatch(stay, "gaming", round[m] + 1, TRUE) /\ round[m] + 1 \in Rounds
  BY <1>2, <1>4, CutKeepsGood, Layout
<1> HIDE DEF pass, stay, out
<1>9. InfoOK'
  BY <1>1, <1>2, MoneyAssumption DEF InfoOK, NoInfo
<1>10. /\ freeAndroids' = freeAndroids \cup (out \cap Androids) /\ freeAndroids' \subseteq Androids
       /\ online' \in [Users -> BOOLEAN] /\ \A u \in Users : online'[u] <=> online[u] /\ u \notin out
  BY <1>1, <1>2 DEF Leave
<1>11. /\ \A u \in Users : InMatch(u) => online[u]
       /\ \A p \in ToSet(list[m]) : InMatch(p) /\ p \notin freeAndroids
  BY DEF MatchInv, InOneMatch, InMatch
<1>12. CASE /\ pass = 0 /\ status' = [status EXCEPT ![m] = "end"] /\ used' = used \ {m}
            /\ round' = [round EXCEPT ![m] = 1] /\ list' = [list EXCEPT ![m] = <<>>]
  <2>1. <<>> \in Seq(Players) /\ ToSet(<<>>) = {} /\ GoodMatch(<<>>, "end", 1, m \in used \ {m}) /\ 1 \in Rounds
    BY EmptyList, EmptyMatch, Layout
  <2>2. out = ToSet(list[m])
    <3>1. \A i \in DOMAIN l : i \in pass + 1 .. Len(l)
      BY <1>4, <1>5, <1>12, LenProperties
    <3>2. ToSet(l) \subseteq out
      BY <3>1 DEF ToSet, out
    <3> QED
      BY <1>4, <1>7, <3>2
  <2>3. AllGood' /\ OneWaits' /\ MatchTypes'
    <3>1. used \ {m} \in SUBSET Matches /\ (used \ {m}) \ {m} = used \ {m}
      BY <1>2
    <3>2. /\ status' \in [Matches -> {"wait", "gaming", "end"}] /\ used' \subseteq Matches
          /\ list' \in [Matches -> Seq(Players)] /\ round' \in [Matches -> Rounds]
          /\ AllGood' /\ OneWaits'
      BY <1>12, <2>1, <3>1, OneMatchChanges
    <3> QED
      BY <1>9, <1>10, <3>2 DEF MatchTypes
  <2>4. freeAndroids' = (freeAndroids \cup (ToSet(list[m]) \cap Androids)) \ ToSet(<<>>)
    BY <1>10, <2>1, <2>2
  <2>5. \A u \in Users : u \in ToSet(<<>>) \/ (InMatch(u) /\ u \notin ToSet(list[m])) => online'[u]
    BY <1>10, <1>11, <2>1, <2>2
  <2>6. InOneMatch'
    BY <1>12, <2>1, <2>4, <2>5, OneListChanges
  <2> QED
    BY <2>3, <2>6 DEF MatchInv
<1>13. CASE /\ pass > 0 /\ round' = [round EXCEPT ![m] = @ + 1] /\ list' = [list EXCEPT ![m] = stay]
            /\ UNCHANGED <<status, used>>
  <2>1. AllGood' /\ OneWaits' /\ MatchTypes'
    <3>1. /\ status' = [status EXCEPT ![m] = "gaming"] /\ GoodMatch(stay, "gaming", round[m] + 1, m \in used)
          /\ round' = [round EXCEPT ![m] = round[m] + 1] /\ round[m] + 1 \in Rounds
          /\ used \in SUBSET Matches /\ used \ {m} = used \ {m} /\ used' = used
      BY <1>1, <1>2, <1>3, <1>8, <1>13 DEF MatchInv, MatchTypes
    <3>2. /\ status' \in [Matches -> {"wait", "gaming", "end"}] /\ used' \subseteq Matches
          /\ list' \in [Matches -> Seq(Players)] /\ round' \in [Matches -> Rounds]
          /\ AllGood' /\ OneWaits'
      <4>1. PICK r \in Rounds : r = round[m] + 1
        BY <3>1
      <4>2. GoodMatch(stay, "gaming", r, m \in used) /\ round' = [round EXCEPT ![m] = r]
        BY <3>1, <4>1
      <4> QED
        BY <1>6, <1>13, <3>1, <4>2, OneMatchChanges
    <3> QED
      BY <1>9, <1>10, <3>2 DEF MatchTypes
  <2>2. freeAndroids' = (freeAndroids \cup (ToSet(list[m]) \cap Androids)) \ ToSet(stay)
    BY <1>6, <1>7, <1>10, <1>11
  <2>3. \A u \in Users : u \in ToSet(stay) \/ (InMatch(u) /\ u \notin ToSet(list[m])) => online'[u]
    BY <1>6, <1>7, <1>10, <1>11
  <2>4. InOneMatch'
    BY <1>6, <1>13, <2>2, <2>3, OneListChanges
  <2> QED
    BY <2>1, <2>4 DEF MatchInv
<1> QED
  BY <1>1, <1>12, <1>13

\* What happens at the tables, to the clock and in the hall changes no match.
LEMMA OthersKeep ==
    ASSUME MatchInv,
           \/ \E u \in Users : GrantMatch(u) \/ EnterRefused(u) \/ CooldownExpires(u)
           \/ \E t \in Tables : OnEventGameConclude(t) \/ GameTimerEnd(t)
           \/ openMatchTimer
           \/ UNCHANGED vars
    PROVE  MatchInv'
<1>1. InfoOK /\ online \in [Users -> BOOLEAN] /\ (\A u \in Users : InMatch(u) => online[u])
  BY DEF MatchInv, MatchTypes, InOneMatch
<1>2. ASSUME NEW u \in Users, GrantMatch(u) PROVE MatchInv'
  <2>1. UNCHANGED <<status, used, list, round, freeAndroids, info>> /\ online' = [online EXCEPT ![u] = TRUE]
    BY <1>2 DEF GrantMatch, room
  <2>2. InfoOK' /\ online' \in [Users -> BOOLEAN] /\ (\A v \in Users : InMatch(v) => online'[v])
    BY <1>1, <2>1 DEF InfoOK
  <2> QED
    BY <2>1, <2>2, NoMatchChanges
<1>3. ASSUME NEW u \in Users, EnterRefused(u) PROVE MatchInv'
  <2>1. /\ UNCHANGED <<status, used, list, round, freeAndroids, info>> /\ online' = [online EXCEPT ![u] = FALSE]
        /\ ~InMatch(u)
    BY <1>3 DEF EnterRefused, room
  <2>2. InfoOK' /\ online' \in [Users -> BOOLEAN] /\ (\A v \in Users : InMatch(v) => online'[v])
    BY <1>1, <2>1 DEF InfoOK
  <2> QED
    BY <2>1, <2>2, NoMatchChanges
<1>4. ASSUME NEW u \in Users, CooldownExpires(u) PROVE MatchInv'
  BY <1>1, <1>4, NoMatchChanges DEF CooldownExpires, room, InfoOK
<1>5. ASSUME NEW t \in Tables, OnEventGameConclude(t) PROVE MatchInv'
  <2>1. PICK result \in [seats[t] -> Scores] :
          info' = [p \in Players |-> IF p \in seats[t] THEN [info[p] EXCEPT !.score = result[p]] ELSE info[p]]
    BY <1>5 DEF OnEventGameConclude
  <2>2. InfoOK'
    BY <1>1, <2>1, MoneyAssumption DEF InfoOK
  <2>3. UNCHANGED <<status, used, list, round, freeAndroids, online>>
    BY <1>5 DEF OnEventGameConclude, redis
  <2> QED
    BY <1>1, <2>2, <2>3, NoMatchChanges
<1>6. ASSUME NEW t \in Tables, GameTimerEnd(t) PROVE MatchInv'
  <2> DEFINE m == owner[t]
             Out == {p \in seats[t] : p \in ToSet(list[m]) /\ ~info[p].waitStart}
  <2>1. info' = [p \in Players |-> IF p \in Out THEN UserOutTable(m, p).played ELSE info[p]]
    BY <1>6 DEF GameTimerEnd
  <2>2. \A p \in Players : UserOutTable(m, p).played \in [count : Nat, waitStart : BOOLEAN, score : Nat]
    <3> SUFFICES ASSUME NEW p \in Players
                 PROVE  UserOutTable(m, p).played \in [count : Nat, waitStart : BOOLEAN, score : Nat]
      OBVIOUS
    <3>1. UserOutTable(m, p).played = [count |-> info[p].count + 1, waitStart |-> TRUE, score |-> info[p].score]
      BY DEF UserOutTable
    <3>2. info[p].count \in Nat /\ info[p].score \in Nat
      BY <1>1 DEF InfoOK
    <3> QED
      BY <3>1, <3>2
  <2> HIDE DEF Out, m
  <2>3. InfoOK'
    BY <1>1, <2>1, <2>2 DEF InfoOK
  <2>4. UNCHANGED <<status, used, list, round, freeAndroids, online>>
    BY <1>6 DEF GameTimerEnd, redis
  <2> QED
    BY <1>1, <2>3, <2>4, NoMatchChanges
<1>7. CASE openMatchTimer
  BY <1>1, <1>7, NoMatchChanges DEF openMatchTimer, room, redis, InfoOK
<1>8. CASE UNCHANGED vars
  BY <1>1, <1>8, NoMatchChanges DEF vars, room, redis, InfoOK
<1> QED
  BY <1>2, <1>3, <1>4, <1>5, <1>6, <1>7, <1>8

\* The server starts with empty matches.
LEMMA MatchInit == Init => MatchInv
<1> SUFFICES ASSUME Init PROVE MatchInv
  OBVIOUS
<1>1. MatchTypes
  BY EmptyList, Layout, MoneyAssumption DEF Init, MatchTypes, InfoOK, NoInfo
<1>2. AllGood
  BY EmptyMatch DEF Init, AllGood
<1>3. \A p : ~InMatch(p)
  BY EmptyList DEF Init, InMatch
<1>4. \A n \in Matches : ToSet(list[n]) = {}
  BY EmptyList DEF Init
<1>5. InOneMatch
  BY <1>3, <1>4 DEF Init, InOneMatch
<1> QED
  BY <1>1, <1>2, <1>5 DEF Init, MatchInv, OneWaits

\* Every step keeps every match as its status says.
LEMMA MatchNext == MatchInv /\ [Next]_vars => MatchInv'
BY EnterKeeps, LeftKeeps, TimerKeeps, EndKeeps, DealKeeps, OthersKeep DEF Next, AllocateUser

\* The invariant of the matches.
LEMMA MatchInvariant == Spec => []MatchInv
BY MatchInit, MatchNext, PTL DEF Spec

-----------------------------------------------------------------------------
(* The theorems. *)

\* At most one room waits at any time, so that players and androids gather in one (FindNormalSuitMatch).
THEOREM PlayersGather == Spec => []OneWaits
BY MatchInvariant, PTL DEF MatchInv

\* Nobody is ever in two matches, who is in one is online in Redis, and no android is lost (JoinMatch, LeftMatch,
\* DelUserFromServer, clearAllUser).
THEOREM NobodyInTwoMatches == Spec => []InOneMatch
BY MatchInvariant, PTL DEF MatchInv

\* A match never starts with fewer androids than the reserve of MatchRoom.cpp:79, in whatever order real players
\* and androids joined and left.
THEOREM ReserveIsKept == Spec => []AndroidsReserved
<1>1. MatchInv => AndroidsReserved
  BY DEF MatchInv, AllGood, GoodMatch, AndroidsReserved
<1> QED
  BY <1>1, MatchInvariant, PTL

\* Where a player is in the sorted list, or in the part of it that stays, is where he is in the ranking.
LEMMA RankOfIndex ==
    ASSUME InfoOK, NEW l \in Seq(Players), IsInjective(l), NEW k \in Seq(Players), Len(k) <= Len(l),
           \A i \in 1 .. Len(k) : k[i] = SortUser(l)[i],
           NEW p \in ToSet(l), NEW q \in ToSet(k), p \in ToSet(k) => Index(k, q) < Index(k, p), p # q
    PROVE  TakenBefore(l, q, p)
<1> DEFINE s == SortUser(l)
<1>1. /\ s \in Seq(Players) /\ Len(s) = Len(l) /\ ToSet(s) = ToSet(l) /\ DOMAIN s = 1 .. Len(l)
      /\ \A i, j \in 1 .. Len(l) : i < j => TakenBefore(l, s[i], s[j])
      /\ Len(l) \in Nat /\ Len(k) \in Nat /\ DOMAIN k = 1 .. Len(k)
  BY SortPermutes, LenProperties
<1> HIDE DEF s
<1>2. PICK j \in 1 .. Len(l) : s[j] = p
  BY <1>1 DEF ToSet
<1>3. Index(k, q) \in 1 .. Len(k) /\ k[Index(k, q)] = q
  BY <1>1, IndexOf
<1>4. Index(k, q) \in 1 .. Len(l) /\ s[Index(k, q)] = q
  BY <1>1, <1>3 DEF s
<1>5. CASE p \in ToSet(k)
  <2>1. Index(k, p) \in 1 .. Len(k) /\ k[Index(k, p)] = p
    BY <1>1, <1>5, IndexOf
  <2>2. Index(k, p) \in 1 .. Len(l) /\ s[Index(k, p)] = p
    BY <1>1, <2>1 DEF s
  <2> QED
    BY <1>1, <1>4, <1>5, <2>2
<1>6. CASE p \notin ToSet(k)
  <2>1. ~(j \in 1 .. Len(k))
    BY <1>1, <1>2, <1>6 DEF ToSet, s
  <2>2. Index(k, q) < j
    BY <1>1, <1>2, <1>3, <2>1
  <2> QED
    BY <1>1, <1>2, <1>4, <2>2
<1> QED
  BY <1>5, <1>6

\* Who is eliminated was ranked behind everybody who stays, and equal scores keep their order (SortUser,
\* AllocateUser).
THEOREM RankDecides == Spec => RankIsKept
<1> DEFINE Kept == \A m \in Matches : AllocateUser(m) /\ status'[m] = "gaming" =>
              \A p, q \in ToSet(list[m]) :
                 q \in ToSet(list'[m]) /\ (p \in ToSet(list'[m]) => Index(list'[m], q) < Index(list'[m], p)) =>
                    \/ p = q
                    \/ info[p].score < info[q].score
                    \/ info[p].score = info[q].score /\ Index(list[m], q) < Index(list[m], p)
<1>1. MatchInv /\ [Next]_vars => [Kept]_vars
  <2> SUFFICES ASSUME MatchInv, NEW m \in Matches, AllocateUser(m), status'[m] = "gaming",
                      NEW p \in ToSet(list[m]), NEW q \in ToSet(list[m]), q \in ToSet(list'[m]),
                      p \in ToSet(list'[m]) => Index(list'[m], q) < Index(list'[m], p), p # q
               PROVE  \/ info[p].score < info[q].score
                      \/ info[p].score = info[q].score /\ Index(list[m], q) < Index(list[m], p)
    OBVIOUS
  <2> DEFINE l == list[m]
             k == list'[m]
  <2>1. /\ l \in Seq(Players) /\ round[m] \in Rounds /\ InfoOK
        /\ list \in [Matches -> Seq(Players)] /\ status \in [Matches -> {"wait", "gaming", "end"}]
    BY DEF MatchInv, MatchTypes
  <2>2. status[m] = "gaming"
    BY DEF AllocateUser, EndRound, DealAgain
  <2>3. GoodMatch(l, "gaming", round[m], m \in used) /\ IsInjective(l)
    BY <2>2 DEF MatchInv, AllGood, GoodMatch
  <2>4. /\ SortUser(l) \in Seq(Players) /\ Len(SortUser(l)) = Len(l) /\ IsInjective(SortUser(l))
        /\ Len(l) \in Nat
    BY <2>1, <2>3, SortPermutes, LenProperties
  <2>5. k \in Seq(Players) /\ Len(k) <= Len(l) /\ \A i \in 1 .. Len(k) : k[i] = SortUser(l)[i]
    <3>1. CASE DealAgain(m)
      <4>1. k = SortUser(l)
        BY <2>1, <3>1 DEF DealAgain
      <4> QED
        BY <2>4, <4>1
    <3>2. CASE EndRound(m)
      <4> DEFINE n == Pass[round[m]]
      <4>1. k = SubSeq(SortUser(l), 1, n)
        <5>1. \/ status' = [status EXCEPT ![m] = "end"]
              \/ list' = [list EXCEPT ![m] = SubSeq(SortUser(l), 1, n)]
          BY <3>2 DEF EndRound
        <5> QED
          BY <2>1, <5>1
      <4>2. n \in Nat /\ n <= Len(l)
        <5>1. Len(l) = PlayersIn(round[m])
          BY <2>3 DEF GoodMatch
        <5>2. Pass[round[m]] \in Nat /\ Pass[round[m]] < PlayersIn(round[m])
          BY <2>1, Layout
        <5> QED
          BY <2>4, <5>1, <5>2
      <4> HIDE DEF n, l, k
      <4>3. k \in Seq(Players) /\ Len(k) = n
        BY <2>4, <4>1, <4>2, CutMembers
      <4>4. \A i \in 1 .. n : SortUser(l)[i] \in Players
        BY <2>4, <4>2, ElementOfSeq
      <4>5. \A i \in 1 .. n : k[i] = SortUser(l)[i]
        <5>1. \A i \in 1 .. n : k[i] = SortUser(l)[1 + i - 1]
          BY <2>4, <4>1, <4>2, <4>4, SubSeqProperties
        <5> QED
          BY <4>2, <5>1
      <4> QED
        BY <4>2, <4>3, <4>5
    <3> QED
      BY <3>1, <3>2 DEF AllocateUser
  <2> HIDE DEF l, k
  <2>6. p \in ToSet(l) /\ q \in ToSet(k) /\ (p \in ToSet(k) => Index(k, q) < Index(k, p))
    BY DEF l, k
  <2>7. TakenBefore(l, q, p)
    BY <2>1, <2>3, <2>5, <2>6, RankOfIndex
  <2>8. info[p].score \in Nat /\ info[q].score \in Nat
    BY <2>1, MembersCount DEF InfoOK, l
  <2> QED
    BY <2>7, <2>8 DEF TakenBefore, l
<1> QED
  BY <1>1, MatchInvariant, PTL DEF Spec, RankIsKept
-----------------------------------------------------------------------------
(***************************************************************************)
(* Money.  What a match holds is a function of its status, its income and  *)
(* its list; a step changes one match and the accounts of its players.     *)
(***************************************************************************)
HeldOf(s, w, l) == IF s = "gaming" THEN w ELSE Fee * RealIn(l)

MoneyTypes ==
    /\ winlost \in [Matches -> Int] /\ account \in [Users -> Nat] /\ stock \in Int
    /\ \A m \in Matches : status[m] # "gaming" => winlost[m] = 0

MoneyInv == MatchInv /\ MoneyTypes /\ MoneyConserved

\* What a match holds is an amount of money.
LEMMA HeldIsInt ==
    ASSUME NEW s, NEW w \in Int, NEW l \in Seq(Players)
    PROVE  HeldOf(s, w, l) \in Int
<1>1. RealIn(l) \in Nat /\ Fee \in Nat
  BY RealCount, MoneyAssumption
<1>2. Fee * RealIn(l) \in Int
  BY <1>1
<1> QED
  BY <1>2 DEF HeldOf

\* A step that changes what one match holds changes what all hold by as much.
LEMMA HeldChanges ==
    ASSUME MatchTypes, MatchTypes', MoneyTypes, MoneyTypes', NEW m \in Matches,
           \A n \in Matches \ {m} : list'[n] = list[n] /\ status'[n] = status[n] /\ winlost'[n] = winlost[n]
    PROVE  SumOver(Matches, [n \in Matches |-> Held(n)]') =
               SumOver(Matches, [n \in Matches |-> Held(n)])
                   + HeldOf(status'[m], winlost'[m], list'[m]) - HeldOf(status[m], winlost[m], list[m])
<1>1. PICK f, g : f = [n \in Matches |-> Held(n)] /\ g = [n \in Matches |-> Held(n)]'
  OBVIOUS
<1>2. /\ \A n \in Matches : f[n] = HeldOf(status[n], winlost[n], list[n])
      /\ \A n \in Matches : g[n] = HeldOf(status'[n], winlost'[n], list'[n])
  BY <1>1 DEF Held, HeldOf
<1>3. /\ \A n \in Matches : winlost[n] \in Int /\ list[n] \in Seq(Players)
      /\ \A n \in Matches : winlost'[n] \in Int /\ list'[n] \in Seq(Players)
  BY DEF MatchTypes, MoneyTypes
<1>4. \A n \in Matches : f[n] \in Int /\ g[n] \in Int
  BY <1>2, <1>3, HeldIsInt
<1>5. \A n \in Matches \ {m} : f[n] = g[n]
  BY <1>2
<1>6. IsFiniteSet(Matches)
  BY NamesAssumption
<1>7. SumOver(Matches, g) = SumOver(Matches, f) + g[m] - f[m]
  BY <1>4, <1>5, <1>6, SumChange
<1> QED
  BY <1>1, <1>2, <1>7

\* One player pays or is paid.
LEMMA AccountChanges ==
    ASSUME account \in [Users -> Nat], NEW u \in Users, NEW a \in Nat, account' = [account EXCEPT ![u] = a]
    PROVE  /\ account' \in [Users -> Nat]
           /\ SumOver(Users, account') = SumOver(Users, account) + a - account[u]
<1>1. PICK f, g : f = account /\ g = account'
  OBVIOUS
<1>2. /\ \A v \in Users : f[v] \in Int /\ g[v] \in Int
      /\ \A v \in Users \ {u} : f[v] = g[v]
      /\ g[u] = a /\ IsFiniteSet(Users)
  BY <1>1, NamesAssumption
<1>3. \A x \in Users : /\ \A v \in Users : f[v] \in Int /\ g[v] \in Int
                       /\ \A v \in Users \ {x} : f[v] = g[v]
                       => SumOver(Users, g) = SumOver(Users, f) + g[x] - f[x]
  BY <1>2, SumChange
<1>4. SumOver(Users, g) = SumOver(Users, f) + g[u] - f[u]
  BY <1>2, <1>3
<1> QED
  BY <1>1, <1>2, <1>4

\* Money goes from the players to the match and the stock, or back.
LEMMA MoneyMoves ==
    ASSUME MoneyInv, MatchInv', MoneyTypes', NEW m \in Matches, NEW d \in Int,
           \A n \in Matches \ {m} : list'[n] = list[n] /\ status'[n] = status[n] /\ winlost'[n] = winlost[n],
           SumOver(Users, account') = SumOver(Users, account) + d,
           HeldOf(status'[m], winlost'[m], list'[m]) + stock' + d = HeldOf(status[m], winlost[m], list[m]) + stock
    PROVE  MoneyInv'
<1>1. PICK h, k : h = SumOver(Matches, [n \in Matches |-> Held(n)])
                  /\ k = SumOver(Matches, [n \in Matches |-> Held(n)]')
  OBVIOUS
<1>2. k = h + HeldOf(status'[m], winlost'[m], list'[m]) - HeldOf(status[m], winlost[m], list[m])
  BY <1>1, HeldChanges DEF MoneyInv, MatchInv
<1>3. HeldOf(status'[m], winlost'[m], list'[m]) \in Int /\ HeldOf(status[m], winlost[m], list[m]) \in Int
  <2>1. winlost[m] \in Int /\ list[m] \in Seq(Players) /\ winlost'[m] \in Int /\ list'[m] \in Seq(Players)
    BY DEF MoneyInv, MatchInv, MatchTypes, MoneyTypes
  <2> QED
    BY <2>1, HeldIsInt
<1>4. h \in Int
  <2>1. PICK f : f = [n \in Matches |-> Held(n)]
    OBVIOUS
  <2>2. \A n \in Matches : f[n] = HeldOf(status[n], winlost[n], list[n])
    BY <2>1 DEF Held, HeldOf
  <2>3. \A n \in Matches : winlost[n] \in Int /\ list[n] \in Seq(Players)
    BY DEF MoneyInv, MatchInv, MatchTypes, MoneyTypes
  <2>4. \A n \in Matches : f[n] \in Int
    BY <2>2, <2>3, HeldIsInt
  <2>5. IsFiniteSet(Matches)
    BY NamesAssumption
  <2>6. SumOver(Matches, f) \in Int
    BY <2>4, <2>5, SumType
  <2> QED
    BY <1>1, <2>1, <2>6
<1>5. SumOver(Users, account) \in Int
  <2>1. \A v \in Users : account[v] \in Int
    BY DEF MoneyInv, MoneyTypes
  <2> QED
    BY <2>1, NamesAssumption, SumType
<1>6. SumOver(Users, account) + h + stock = Purse * Cardinality(Users)
  BY <1>1 DEF MoneyInv, MoneyConserved
<1>7. stock \in Int /\ stock' \in Int
  BY DEF MoneyInv, MoneyTypes
<1>8. SumOver(Users, account') + k + stock' = Purse * Cardinality(Users)
  BY <1>2, <1>3, <1>4, <1>5, <1>6, <1>7
<1>9. MoneyConserved'
  BY <1>1, <1>8 DEF MoneyConserved
<1> QED
  BY <1>9 DEF MoneyInv

\* Nobody pays, and the match holds what it held.
LEMMA MoneyStays ==
    ASSUME MoneyInv, MatchInv', NEW m \in Matches, UNCHANGED <<account, stock, winlost>>,
           \A n \in Matches \ {m} : list'[n] = list[n] /\ status'[n] = status[n],
           status'[m] = "gaming" <=> status[m] = "gaming",
           status[m] # "gaming" => RealIn(list'[m]) = RealIn(list[m])
    PROVE  MoneyInv'
<1>1. MoneyTypes'
  BY DEF MoneyInv, MoneyTypes
<1>2. \A n \in Matches \ {m} : list'[n] = list[n] /\ status'[n] = status[n] /\ winlost'[n] = winlost[n]
  OBVIOUS
<1>3. HeldOf(status'[m], winlost'[m], list'[m]) = HeldOf(status[m], winlost[m], list[m])
  BY DEF HeldOf
<1>4. HeldOf(status[m], winlost[m], list[m]) \in Int
  <2>1. winlost[m] \in Int /\ list[m] \in Seq(Players)
    BY DEF MoneyInv, MatchInv, MatchTypes, MoneyTypes
  <2> QED
    BY <2>1, HeldIsInt
<1>5. SumOver(Users, account) \in Int /\ stock \in Int
  <2>1. \A v \in Users : account[v] \in Int
    BY DEF MoneyInv, MoneyTypes
  <2> QED
    BY <2>1, NamesAssumption, SumType DEF MoneyInv, MoneyTypes
<1>6. /\ SumOver(Users, account') = SumOver(Users, account) + 0
      /\ HeldOf(status'[m], winlost'[m], list'[m]) + stock' + 0 = HeldOf(status[m], winlost[m], list[m]) + stock
  BY <1>3, <1>4, <1>5
<1> QED
  BY <1>1, <1>2, <1>6, MoneyMoves

\* The match a player has joined holds his fee if he is real, waiting or started; an android pays nothing.
LEMMA JoinMoney ==
    ASSUME MoneyInv, MatchInv', NEW m \in Matches, NEW p \in Players, ~InMatch(p), FindNormalSuitMatch(m),
           JoinMatch(m, p), UNCHANGED stock, account' \in [Users -> Nat],
           NEW d \in Int, d = (IF p \in Users THEN - Fee ELSE 0),
           SumOver(Users, account') = SumOver(Users, account) + d
    PROVE  MoneyInv'
<1> DEFINE k == Append(list[m], p)
<1>1. /\ list[m] \in Seq(Players) /\ p \notin ToSet(list[m]) /\ Fee \in Nat /\ stock \in Int
      /\ winlost \in [Matches -> Int] /\ status \in [Matches -> {"wait", "gaming", "end"}]
      /\ list \in [Matches -> Seq(Players)]
      /\ \A n \in Matches : status[n] # "gaming" => winlost[n] = 0
  BY MoneyAssumption DEF MoneyInv, MatchInv, MatchTypes, MoneyTypes, InMatch
<1>2. status[m] # "gaming" /\ winlost[m] = 0
  BY <1>1, FoundWaits DEF MoneyInv
<1>3. /\ k \in Seq(Players) /\ RealIn(k) = RealIn(list[m]) + (IF p \in Users THEN 1 ELSE 0)
      /\ RealIn(k) \in Nat /\ RealIn(list[m]) \in Nat
  BY <1>1, AppendMembers, AppendReal, RealCount
<1> HIDE DEF k
<1>4. Fee * RealIn(k) + d = Fee * RealIn(list[m])
  <2>1. CASE p \in Users
    <3>1. RealIn(k) = RealIn(list[m]) + 1
      BY <1>3, <2>1
    <3>2. \A r \in Nat : Fee * (r + 1) = Fee * r + Fee
      BY <1>1
    <3>3. PICK r \in Nat : r = RealIn(list[m])
      BY <1>3
    <3>4. Fee * RealIn(k) = Fee * r + Fee
      BY <3>1, <3>2, <3>3
    <3>5. Fee * r \in Int
      BY <1>1
    <3> QED
      BY <1>1, <2>1, <3>3, <3>4, <3>5
  <2>2. CASE p \notin Users
    BY <1>1, <1>3, <2>2
  <2> QED
    BY <2>1, <2>2
<1>5. /\ \A n \in Matches \ {m} : list'[n] = list[n] /\ status'[n] = status[n] /\ winlost'[n] = winlost[n]
      /\ winlost' \in [Matches -> Int] /\ (status'[m] # "gaming" => winlost'[m] = 0)
      /\ HeldOf(status'[m], winlost'[m], list'[m]) = Fee * RealIn(k)
  <2>1. CASE list' = [list EXCEPT ![m] = k] /\ status' = TakenStatus(m) /\ UNCHANGED winlost
    BY <1>1, <1>2, <2>1 DEF TakenStatus, HeldOf
  <2>2. CASE Dismissed(k) /\ clearAllUser(m)
    <3>1. RealIn(k) = 0 /\ RealIn(<<>>) = 0
      BY <2>2, EmptyList DEF Dismissed
    <3>2. list' = [list EXCEPT ![m] = <<>>] /\ status' = TakenStatus(m) /\ UNCHANGED winlost
      BY <2>2 DEF clearAllUser
    <3> QED
      BY <1>1, <1>2, <3>1, <3>2 DEF TakenStatus, HeldOf
  <2>3. CASE StartMatch(m, k)
    <3>1. /\ status' = [status EXCEPT ![m] = "gaming"] /\ list' = [list EXCEPT ![m] = k]
          /\ winlost' = [winlost EXCEPT ![m] = winlost[m] + Fees(k)]
      BY <2>3 DEF StartMatch
    <3>2. Fees(k) = Fee * RealIn(k) /\ Fee * RealIn(k) \in Int
      BY <1>1, <1>3 DEF Fees
    <3> QED
      BY <1>1, <1>2, <3>1, <3>2 DEF HeldOf
  <2> QED
    BY <2>1, <2>2, <2>3 DEF JoinMatch, k
<1>6. MoneyTypes'
  BY <1>1, <1>5 DEF MoneyTypes
<1>7. HeldOf(status[m], winlost[m], list[m]) = Fee * RealIn(list[m])
  BY <1>2 DEF HeldOf
<1>8. Fee * RealIn(k) \in Int /\ Fee * RealIn(list[m]) \in Int
  BY <1>1, <1>3
<1>9. HeldOf(status'[m], winlost'[m], list'[m]) + stock' + d = HeldOf(status[m], winlost[m], list[m]) + stock
  BY <1>1, <1>4, <1>5, <1>7, <1>8
<1> QED
  BY <1>5, <1>6, <1>9, MoneyMoves

\* The message cmd_enter_match takes the fee of whoever may join.
LEMMA EnterMoney ==
    ASSUME MoneyInv, MatchInv', NEW u \in Users, NEW m \in Matches, cmd_enter_match(u, m)
    PROVE  MoneyInv'
<1>1. /\ ~InMatch(u) /\ FindNormalSuitMatch(m) /\ UNCHANGED stock /\ u \in Players /\ account[u] >= Fee
  BY DEF cmd_enter_match, Players
<1>2. account \in [Users -> Nat] /\ Fee \in Nat /\ status \in [Matches -> {"wait", "gaming", "end"}]
  BY MoneyAssumption DEF MoneyInv, MoneyTypes, MatchInv, MatchTypes
<1>3. CASE status' = TakenStatus(m) /\ UNCHANGED <<list, winlost, account>>
  <2>1. status[m] # "gaming" /\ status'[m] = "wait"
    BY <1>1, <1>2, <1>3, FoundWaits DEF MoneyInv, TakenStatus
  <2>2. /\ \A n \in Matches \ {m} : list'[n] = list[n] /\ status'[n] = status[n]
        /\ status'[m] = "gaming" <=> status[m] = "gaming"
        /\ status[m] # "gaming" => RealIn(list'[m]) = RealIn(list[m])
        /\ UNCHANGED <<account, stock, winlost>>
    BY <1>1, <1>2, <1>3, <2>1 DEF TakenStatus
  <2> QED
    BY <2>2, MoneyStays
<1>4. CASE JoinMatch(m, u) /\ account' = [account EXCEPT ![u] = Charge(u)]
  <2>1. Charge(u) \in Nat /\ Charge(u) = account[u] - Fee
    BY <1>1, <1>2 DEF Charge
  <2>2. PICK a \in Nat : a = Charge(u)
    BY <2>1
  <2>3. account' = [account EXCEPT ![u] = a] /\ account[u] \in Nat /\ a = account[u] - Fee
    BY <1>2, <1>4, <2>1, <2>2
  <2>4. account' \in [Users -> Nat] /\ SumOver(Users, account') = SumOver(Users, account) + a - account[u]
    BY <1>2, <2>3, AccountChanges
  <2>5. SumOver(Users, account) \in Int
    <3>1. \A v \in Users : account[v] \in Int
      BY <1>2
    <3> QED
      BY <3>1, NamesAssumption, SumType
  <2>6. PICK d \in Int : d = - Fee
    BY <1>2
  <2>7. SumOver(Users, account') = SumOver(Users, account) + d
    BY <1>2, <2>3, <2>4, <2>5, <2>6
  <2>8. d = (IF u \in Users THEN - Fee ELSE 0)
    BY <2>6
  <2> QED
    BY <1>1, <1>4, <2>4, <2>7, <2>8, JoinMoney
<1> QED
  BY <1>3, <1>4 DEF cmd_enter_match

\* The android timer moves no money.
LEMMA TimerMoney ==
    ASSUME MoneyInv, MatchInv', NEW m \in Matches, OnTimerCheckUserIn(m)
    PROVE  MoneyInv'
<1>1. FindNormalSuitMatch(m) /\ freeAndroids # {} /\ UNCHANGED <<account, stock>>
  BY DEF OnTimerCheckUserIn, money
<1>2. /\ account \in [Users -> Nat] /\ status \in [Matches -> {"wait", "gaming", "end"}]
      /\ freeAndroids = {a \in Androids : ~InMatch(a)}
  BY DEF MoneyInv, MoneyTypes, MatchInv, MatchTypes, InOneMatch
<1>3. CASE status' = TakenStatus(m) /\ UNCHANGED <<list, winlost>>
  <2>1. status[m] # "gaming" /\ status'[m] = "wait"
    BY <1>1, <1>2, <1>3, FoundWaits DEF MoneyInv, TakenStatus
  <2>2. /\ \A n \in Matches \ {m} : list'[n] = list[n] /\ status'[n] = status[n]
        /\ status'[m] = "gaming" <=> status[m] = "gaming"
        /\ status[m] # "gaming" => RealIn(list'[m]) = RealIn(list[m])
        /\ UNCHANGED <<account, stock, winlost>>
    BY <1>1, <1>2, <1>3, <2>1 DEF TakenStatus
  <2> QED
    BY <2>2, MoneyStays
<1>4. ASSUME NEW a \in {GetFreeAndroidUserItem}, JoinMatch(m, a) PROVE MoneyInv'
  <2>1. a \in freeAndroids
    BY <1>1, <1>4 DEF GetFreeAndroidUserItem
  <2>2. a \in Players /\ a \notin Users /\ ~InMatch(a)
    BY <1>2, <2>1, NamesAssumption DEF Players
  <2>3. SumOver(Users, account) \in Int
    <3>1. \A v \in Users : account[v] \in Int
      BY <1>2
    <3> QED
      BY <3>1, NamesAssumption, SumType
  <2>4. PICK d \in Int : d = 0
    OBVIOUS
  <2>5. /\ d = (IF a \in Users THEN - Fee ELSE 0) /\ account' \in [Users -> Nat]
        /\ SumOver(Users, account') = SumOver(Users, account) + d
    BY <1>1, <1>2, <2>2, <2>3, <2>4
  <2> QED
    BY <1>1, <1>4, <2>2, <2>5, JoinMoney
<1> QED
  BY <1>3, <1>4 DEF OnTimerCheckUserIn
\* Who gives up waiting gets his fee back.
LEMMA LeftMoney ==
    ASSUME MoneyInv, MatchInv', NEW u \in Users, NEW m \in Matches, LeftMatch(u, m)
    PROVE  MoneyInv'
<1> DEFINE l == list[m]
           k == RemoveAt(l, Index(l, u))
<1>1. /\ u \in ToSet(l) /\ status[m] # "gaming" /\ list' = [list EXCEPT ![m] = k]
      /\ account' = [account EXCEPT ![u] = account[u] + Fee] /\ UNCHANGED <<status, winlost, stock>>
  BY DEF LeftMatch
<1>2. /\ account \in [Users -> Nat] /\ Fee \in Nat /\ stock \in Int /\ list \in [Matches -> Seq(Players)]
      /\ l \in Seq(Players) /\ IsInjective(l)
  BY MoneyAssumption DEF MoneyInv, MoneyTypes, MatchInv, MatchTypes, AllGood, GoodMatch
<1> HIDE DEF l
<1>3. Index(l, u) \in DOMAIN l /\ l[Index(l, u)] = u
  BY <1>1, <1>2, IndexOf
<1>4. k \in Seq(Players) /\ ToSet(k) = ToSet(l) \ {u}
  BY <1>2, <1>3, RemoveMembers
<1> HIDE DEF k
<1>5. RealIn(l) = RealIn(k) + 1 /\ RealIn(k) \in Nat
  <2> DEFINE L == ToSet(l) \cap Users
  <2>1. IsFiniteSet(L) /\ u \in L
    BY <1>1, <1>2, MembersCount, FS_Subset
  <2>2. RealIn(l) = Cardinality(L) /\ RealIn(k) = Cardinality(L \ {u})
    <3>1. ToSet(k) \cap Users = L \ {u}
      BY <1>4
    <3> QED
      BY <3>1 DEF RealIn
  <2> HIDE DEF L
  <2>3. Cardinality(L \ {u}) = Cardinality(L) - 1 /\ Cardinality(L) \in Nat
    BY <2>1, FS_RemoveElement, FS_CardinalityType
  <2>4. RealIn(k) \in Nat
    BY <1>4, RealCount
  <2> QED
    BY <2>2, <2>3, <2>4
<1>6. PICK a \in Nat : a = account[u] + Fee
  BY <1>2
<1>7. account' = [account EXCEPT ![u] = a]
  BY <1>1, <1>6
<1>8. account' \in [Users -> Nat] /\ SumOver(Users, account') = SumOver(Users, account) + a - account[u]
  BY <1>2, <1>7, AccountChanges
<1>9. SumOver(Users, account') = SumOver(Users, account) + Fee
  <2>1. SumOver(Users, account) \in Int
    <3>1. \A v \in Users : account[v] \in Int
      BY <1>2
    <3> QED
      BY <3>1, NamesAssumption, SumType
  <2> QED
    BY <1>2, <1>6, <1>8, <2>1
<1>10. HeldOf(status'[m], winlost'[m], list'[m]) + stock' + Fee = HeldOf(status[m], winlost[m], list[m]) + stock
  <2>1. /\ HeldOf(status'[m], winlost'[m], list'[m]) = Fee * RealIn(k)
        /\ HeldOf(status[m], winlost[m], list[m]) = Fee * RealIn(l)
    BY <1>1, <1>2 DEF HeldOf, l
  <2>2. \A r \in Nat : Fee * (r + 1) = Fee * r + Fee /\ Fee * r \in Int
    BY <1>2
  <2>3. PICK r \in Nat : r = RealIn(k)
    BY <1>5
  <2>4. Fee * RealIn(l) = Fee * r + Fee /\ Fee * r \in Int /\ stock' = stock
    BY <1>1, <1>5, <2>2, <2>3
  <2> QED
    BY <1>2, <2>1, <2>3, <2>4
<1>11. MoneyTypes'
  BY <1>1, <1>8 DEF MoneyInv, MoneyTypes
<1>12. /\ \A n \in Matches \ {m} : list'[n] = list[n] /\ status'[n] = status[n] /\ winlost'[n] = winlost[n]
       /\ Fee \in Int
  BY <1>1, <1>2
<1> QED
  BY <1>9, <1>10, <1>11, <1>12, MoneyMoves

\* The next games of the round move no money.
LEMMA DealMoney ==
    ASSUME MoneyInv, MatchInv', NEW m \in Matches, DealAgain(m)
    PROVE  MoneyInv'
<1>1. /\ status[m] = "gaming" /\ UNCHANGED <<status, winlost, account, stock>>
      /\ list' = [list EXCEPT ![m] = SortUser(list[m])]
  <2>1. list' = [list EXCEPT ![m] = SortUser(list[m])]
    BY DEF DealAgain
  <2> QED
    BY <2>1 DEF DealAgain, money
<1>2. \A n \in Matches \ {m} : list'[n] = list[n] /\ status'[n] = status[n]
  BY <1>1 DEF MoneyInv, MatchInv, MatchTypes
<1> QED
  BY <1>1, <1>2, MoneyStays

\* Awards are paid out of what the match has won; what is left of it, good or bad, goes to the stock in the end.
LEMMA EndMoney ==
    ASSUME MoneyInv, MatchInv', NEW m \in Matches, EndRound(m)
    PROVE  MoneyInv'
<1> DEFINE l == SortUser(list[m])
           pass == Pass[round[m]]
           lost == winlost[m] - AllPaid(l, pass)
           paid == [u \in Users |-> Paid(l, pass, u)]
<1>1. /\ status[m] = "gaming" /\ account' = [u \in Users |-> account[u] + Paid(l, pass, u)]
      /\ \/ /\ stock' = stock + lost /\ status' = [status EXCEPT ![m] = "end"]
            /\ winlost' = [winlost EXCEPT ![m] = 0] /\ list' = [list EXCEPT ![m] = <<>>]
         \/ /\ winlost' = [winlost EXCEPT ![m] = lost] /\ UNCHANGED <<stock, status>>
            /\ \E k : list' = [list EXCEPT ![m] = k]
  BY DEF EndRound
<1>2. /\ account \in [Users -> Nat] /\ Fee \in Nat /\ stock \in Int /\ winlost \in [Matches -> Int]
      /\ list \in [Matches -> Seq(Players)] /\ status \in [Matches -> {"wait", "gaming", "end"}]
      /\ \A n \in Matches : status[n] # "gaming" => winlost[n] = 0
  BY MoneyAssumption DEF MoneyInv, MoneyTypes, MatchInv, MatchTypes
<1>3. l \in Seq(Players) /\ ToSet(l) = ToSet(list[m])
  <2>1. list[m] \in Seq(Players) /\ IsInjective(list[m]) /\ InfoOK
    BY DEF MoneyInv, MatchInv, MatchTypes, AllGood, GoodMatch
  <2> QED
    BY <2>1, SortPermutes
<1> HIDE DEF l
<1>4. pass \in Nat
  BY Layout DEF MoneyInv, MatchInv, MatchTypes
<1> HIDE DEF pass
<1>5. \A u \in Users : Paid(l, pass, u) \in Nat
  <2> SUFFICES ASSUME NEW u \in Users, u \in {l[i] : i \in (pass + 1) .. Len(l)}
               PROVE  Award(Index(l, u) - 1) \in Nat
    BY DEF Paid
  <2>1. u \in ToSet(l)
    <3>1. \A i \in (pass + 1) .. Len(l) : i \in DOMAIN l
      BY <1>3, <1>4, LenProperties
    <3> QED
      BY <3>1 DEF ToSet
  <2>2. Index(l, u) \in 1 .. Len(l) /\ Len(l) \in Nat
    BY <1>3, <2>1, IndexOf, LenProperties
  <2>3. PICK r \in Nat : r = Index(l, u) - 1
    BY <2>2
  <2>4. Awards \in Seq(Nat) /\ Len(Awards) \in Nat
    BY MoneyAssumption, LenProperties
  <2>5. Len(Awards) > r => Awards[r + 1] \in Nat
    BY <2>4, ElementOfSeq
  <2> QED
    BY <2>3, <2>5 DEF Award
<1>6. /\ AllPaid(l, pass) = SumOver(Users, paid)
      /\ SumOver(Users, account') = SumOver(Users, account) + SumOver(Users, paid)
      /\ SumOver(Users, account) \in Int /\ SumOver(Users, paid) \in Int
      /\ account' \in [Users -> Nat]
  <2>1. AllPaid(l, pass) = SumOver(Users, paid)
    BY DEF AllPaid
  <2>2. PICK f, g, h : f = account /\ g = paid /\ h = account'
    OBVIOUS
  <2>3. \A u \in Users : f[u] \in Nat /\ g[u] \in Nat /\ h[u] = f[u] + g[u]
    BY <1>1, <1>2, <1>5, <2>2
  <2>4. IsFiniteSet(Users) /\ \A u \in Users : f[u] \in Int /\ g[u] \in Int /\ h[u] = f[u] + g[u]
    BY <2>3, NamesAssumption
  <2>5. SumOver(Users, h) = SumOver(Users, f) + SumOver(Users, g)
    BY <2>4, SumOfSums
  <2>6. SumOver(Users, f) \in Int
    BY <2>4, SumType
  <2>7. SumOver(Users, g) \in Int
    BY <2>4, SumType
  <2>8. account' \in [Users -> Nat]
    BY <1>1, <1>2, <1>5
  <2> HIDE DEF paid
  <2> QED
    BY <2>1, <2>2, <2>5, <2>6, <2>7, <2>8
<1> HIDE DEF paid
<1>7. PICK d \in Int : d = SumOver(Users, paid)
  BY <1>6
<1>8. lost = winlost[m] - d /\ lost \in Int /\ winlost[m] \in Int
  BY <1>2, <1>6, <1>7
<1> HIDE DEF lost
<1>9. SumOver(Users, account') = SumOver(Users, account) + d
  BY <1>6, <1>7
<1>10. HeldOf(status[m], winlost[m], list[m]) = winlost[m]
  BY <1>1 DEF HeldOf
<1>11. /\ \A n \in Matches \ {m} : list'[n] = list[n] /\ status'[n] = status[n] /\ winlost'[n] = winlost[n]
       /\ winlost' \in [Matches -> Int] /\ (status'[m] # "gaming" => winlost'[m] = 0)
       /\ HeldOf(status'[m], winlost'[m], list'[m]) + stock' = lost + stock /\ stock' \in Int
       /\ HeldOf(status'[m], winlost'[m], list'[m]) \in Int
  <2>1. CASE /\ stock' = stock + lost /\ status' = [status EXCEPT ![m] = "end"]
             /\ winlost' = [winlost EXCEPT ![m] = 0] /\ list' = [list EXCEPT ![m] = <<>>]
    <3>1. HeldOf(status'[m], winlost'[m], list'[m]) = 0
      <4>1. Fee * RealIn(<<>>) = 0
        BY <1>2, EmptyList
      <4> QED
        BY <1>2, <2>1, <4>1 DEF HeldOf
    <3> QED
      BY <1>2, <1>8, <2>1, <3>1
  <2>2. CASE /\ winlost' = [winlost EXCEPT ![m] = lost] /\ UNCHANGED <<stock, status>>
             /\ \E k : list' = [list EXCEPT ![m] = k]
    <3>1. HeldOf(status'[m], winlost'[m], list'[m]) = lost
      BY <1>1, <1>2, <2>2 DEF HeldOf
    <3> QED
      BY <1>1, <1>2, <1>8, <2>2, <3>1
  <2> QED
    BY <1>1, <2>1, <2>2
<1>12. MoneyTypes'
  BY <1>2, <1>6, <1>11 DEF MoneyTypes
<1>13. HeldOf(status'[m], winlost'[m], list'[m]) + stock' + d = HeldOf(status[m], winlost[m], list[m]) + stock
  BY <1>2, <1>8, <1>10, <1>11
<1> QED
  BY <1>9, <1>11, <1>12, <1>13, MoneyMoves

\* What happens at the tables, to the clock and in the hall moves no money.
LEMMA OthersMoney ==
    ASSUME MoneyInv, MatchInv',
           \/ \E u \in Users : GrantMatch(u) \/ EnterRefused(u) \/ CooldownExpires(u)
           \/ \E t \in Tables : OnEventGameConclude(t) \/ GameTimerEnd(t)
           \/ openMatchTimer
           \/ UNCHANGED vars
    PROVE  MoneyInv'
<1>1. UNCHANGED <<account, stock, winlost, status, list>>
  BY DEF GrantMatch, EnterRefused, CooldownExpires, OnEventGameConclude, GameTimerEnd, openMatchTimer, vars, room,
         money
<1>2. MoneyTypes'
  BY <1>1 DEF MoneyInv, MoneyTypes
<1>3. MoneyConserved'
  BY <1>1 DEF MoneyInv, MoneyConserved, Held
<1> QED
  BY <1>2, <1>3 DEF MoneyInv

\* At the start the accounts hold all the money.
LEMMA MoneyInit == Init => MoneyInv
<1> SUFFICES ASSUME Init PROVE MoneyInv
  OBVIOUS
<1>1. MatchInv /\ MoneyTypes
  <2>1. MatchInv
    BY MatchInit
  <2>2. MoneyTypes
    BY MoneyAssumption DEF Init, MoneyTypes
  <2> QED
    BY <2>1, <2>2
<1>2. SumOver(Users, account) = Purse * Cardinality(Users)
  <2>1. PICK f : f = account
    OBVIOUS
  <2>2. (\A u \in Users : f[u] = Purse) /\ Purse \in Int /\ IsFiniteSet(Users)
    BY <2>1, MoneyAssumption, NamesAssumption DEF Init
  <2>3. SumOver(Users, f) = Purse * Cardinality(Users)
    BY <2>2, SumOfEquals
  <2> QED
    BY <2>1, <2>3
<1>3. SumOver(Matches, [n \in Matches |-> Held(n)]) = 0
  <2>1. PICK f : f = [n \in Matches |-> Held(n)]
    OBVIOUS
  <2>2. \A n \in Matches : f[n] = 0
    <3>1. Fee * RealIn(<<>>) = 0
      BY EmptyList, MoneyAssumption
    <3> QED
      BY <2>1, <3>1 DEF Init, Held
  <2>3. IsFiniteSet(Matches) /\ Cardinality(Matches) \in Nat /\ 0 \in Int
    BY NamesAssumption, FS_CardinalityType
  <2>4. SumOver(Matches, f) = 0 * Cardinality(Matches)
    BY <2>2, <2>3, SumOfEquals
  <2> QED
    BY <2>1, <2>3, <2>4
<1>4. stock = 0 /\ Purse * Cardinality(Users) \in Int
  <2>1. Cardinality(Users) \in Nat /\ Purse \in Nat
    BY MoneyAssumption, NamesAssumption, FS_CardinalityType
  <2> QED
    BY <2>1 DEF Init
<1>5. MoneyConserved
  BY <1>2, <1>3, <1>4 DEF MoneyConserved
<1> QED
  BY <1>1, <1>5 DEF MoneyInv

\* Every step keeps the money together.
LEMMA MoneyNext == MoneyInv /\ [Next]_vars => MoneyInv'
<1> SUFFICES ASSUME MoneyInv, [Next]_vars PROVE MoneyInv'
  OBVIOUS
<1>1. MatchInv'
  BY MatchNext DEF MoneyInv
<1> QED
  BY <1>1, EnterMoney, LeftMoney, TimerMoney, EndMoney, DealMoney, OthersMoney DEF Next, AllocateUser

\* No fee is lost and none is invented: whatever order players join, leave and are knocked out in, the accounts,
\* the fees of those who wait, the income of the matches that are played and the stock add up to what the players
\* came with (OnUserEnterAction, LeftMatch, StartMatch, OnUserFinish, updateStorageScore).
THEOREM FeesAreAccountedFor == Spec => []MoneyConserved
<1>1. MoneyInv => MoneyConserved
  BY DEF MoneyInv
<1> QED
  BY <1>1, MoneyInit, MoneyNext, PTL DEF Spec
-----------------------------------------------------------------------------
(***************************************************************************)
(* Tables full of players.  A list of n * TableSize players falls into n   *)
(* blocks, the players of one table each.                                  *)
(***************************************************************************)
Block(w, b) == {w[b * TableSize + i] : i \in 1 .. TableSize}

\* w is a list of n tables full of players.
WholeTables(w, n) == n \in Nat /\ w \in Seq(Players) /\ Len(w) = n * TableSize /\ IsInjective(w)

\* A table more is a table's chairs more.
LEMMA MoreChairs ==
    ASSUME NEW b \in Nat, NEW c \in Nat, b < c
    PROVE  b * TableSize + TableSize <= c * TableSize /\ b * TableSize \in Nat /\ c * TableSize \in Nat
<1>1. PICK s \in Nat : s = TableSize
  BY LayoutAssumption
<1>2. PICK d \in Nat : c = (b + 1) + d
  <2>1. c - (b + 1) \in Nat /\ c = (b + 1) + (c - (b + 1))
    OBVIOUS
  <2> QED
    BY <2>1
<1>3. c * s = (b + 1) * s + d * s
  BY <1>2
<1>4. (b + 1) * s = b * s + s
  OBVIOUS
<1>5. d * s \in Nat /\ b * s \in Nat /\ c * s \in Nat
  OBVIOUS
<1>6. b * s + s <= c * s
  BY <1>3, <1>4, <1>5
<1> QED
  BY <1>1, <1>5, <1>6

\* Positions in the list and positions in a block of it.
LEMMA Positions ==
    ASSUME NEW n \in Nat
    PROVE  /\ \A b \in 0 .. n - 1 : \A i \in 1 .. TableSize : b * TableSize + i \in 1 .. n * TableSize
           /\ \A x \in 1 .. n * TableSize : \E b \in 0 .. n - 1 : \E i \in 1 .. TableSize : x = b * TableSize + i
           /\ \A b, c \in Nat : \A i, j \in 1 .. TableSize :
                 b * TableSize + i = c * TableSize + j => b = c /\ i = j
<1>1. TableSize \in Nat \ {0}
  BY LayoutAssumption
<1>2. \A b \in Nat : b * TableSize \in Nat
  BY <1>1
<1>3. ASSUME NEW b \in 0 .. n - 1, NEW i \in 1 .. TableSize PROVE b * TableSize + i \in 1 .. n * TableSize
  <2>1. b \in Nat /\ b < n
    OBVIOUS
  <2>2. b * TableSize + TableSize <= n * TableSize /\ b * TableSize \in Nat /\ n * TableSize \in Nat
    BY <2>1, MoreChairs
  <2> QED
    BY <1>1, <2>2
<1>4. ASSUME NEW x \in 1 .. n * TableSize
      PROVE  \E b \in 0 .. n - 1 : \E i \in 1 .. TableSize : x = b * TableSize + i
  <2>1. PICK s \in Nat \ {0} : s = TableSize
    BY <1>1
  <2>2. PICK y \in Nat : y = x - 1
    BY <1>2
  <2>3. PICK b \in Nat, j \in 0 .. s - 1 : y = b * s + j
    <3>1. y \div s \in Nat /\ y % s \in 0 .. s - 1 /\ y = (y \div s) * s + (y % s)
      OBVIOUS
    <3> QED
      BY <3>1
  <2>4. x = b * TableSize + (j + 1) /\ j + 1 \in 1 .. TableSize
    <3>1. b * s \in Nat
      OBVIOUS
    <3> QED
      BY <2>1, <2>2, <2>3, <3>1
  <2>5. b < n
    <3>1. CASE n <= b
      <4>1. n * TableSize <= b * TableSize
        <5>1. CASE n = b
          BY <1>2, <5>1
        <5>2. CASE n < b
          BY <1>1, <5>2, MoreChairs
        <5> QED
          BY <3>1, <5>1, <5>2
      <4> QED
        BY <1>1, <1>2, <2>4, <4>1
    <3> QED
      BY <3>1
  <2> QED
    BY <2>4, <2>5
<1>5. ASSUME NEW b \in Nat, NEW c \in Nat, NEW i \in 1 .. TableSize, NEW j \in 1 .. TableSize,
             b * TableSize + i = c * TableSize + j
      PROVE  b = c /\ i = j
  <2>1. ~(b < c)
    <3>1. CASE b < c
      <4>1. b * TableSize + TableSize <= c * TableSize
        BY <3>1, MoreChairs
      <4> QED
        BY <1>1, <1>2, <1>5, <4>1
    <3> QED
      BY <3>1
  <2>2. ~(c < b)
    <3>1. CASE c < b
      <4>1. c * TableSize + TableSize <= b * TableSize
        BY <3>1, MoreChairs
      <4> QED
        BY <1>1, <1>2, <1>5, <4>1
    <3> QED
      BY <3>1
  <2>3. b = c
    BY <2>1, <2>2
  <2> QED
    BY <1>1, <1>2, <1>5, <2>3
<1> QED
  BY <1>3, <1>4, <1>5

\* The blocks of a list of players: each fills a table, no two share a player, and together they are the list.
LEMMA BlocksPart ==
    ASSUME NEW w, NEW n, WholeTables(w, n)
    PROVE  /\ \A b \in 0 .. n - 1 : /\ Block(w, b) \subseteq ToSet(w) /\ IsFiniteSet(Block(w, b))
                                    /\ Cardinality(Block(w, b)) = TableSize
           /\ \A b, c \in 0 .. n - 1 : b # c => Block(w, b) \cap Block(w, c) = {}
           /\ \A p \in ToSet(w) : \E b \in 0 .. n - 1 : p \in Block(w, b)
<1>1. /\ n \in Nat /\ w \in [1 .. n * TableSize -> Players] /\ IsInjective(w) /\ TableSize \in Nat \ {0}
      /\ DOMAIN w = 1 .. n * TableSize
  BY LenProperties, LayoutAssumption DEF WholeTables
<1>2. /\ \A b \in 0 .. n - 1 : \A i \in 1 .. TableSize : b * TableSize + i \in 1 .. n * TableSize
      /\ \A x \in 1 .. n * TableSize : \E b \in 0 .. n - 1 : \E i \in 1 .. TableSize : x = b * TableSize + i
      /\ \A b, c \in Nat : \A i, j \in 1 .. TableSize :
            b * TableSize + i = c * TableSize + j => b = c /\ i = j
  BY <1>1, Positions
<1>3. \A b, c \in 0 .. n - 1 : \A i, j \in 1 .. TableSize :
         w[b * TableSize + i] = w[c * TableSize + j] => b = c /\ i = j
  <2> SUFFICES ASSUME NEW b \in 0 .. n - 1, NEW c \in 0 .. n - 1, NEW i \in 1 .. TableSize, NEW j \in 1 .. TableSize,
                      w[b * TableSize + i] = w[c * TableSize + j]
               PROVE  b = c /\ i = j
    OBVIOUS
  <2>1. PICK x, y : x = b * TableSize + i /\ y = c * TableSize + j
    OBVIOUS
  <2>2. x \in DOMAIN w /\ y \in DOMAIN w /\ w[x] = w[y]
    BY <1>1, <1>2, <2>1
  <2>3. x = y
    BY <1>1, <2>2 DEF IsInjective
  <2>4. b \in Nat /\ c \in Nat
    OBVIOUS
  <2> QED
    BY <1>2, <2>1, <2>3, <2>4
<1>4. ASSUME NEW b \in 0 .. n - 1
      PROVE  /\ Block(w, b) \subseteq ToSet(w) /\ IsFiniteSet(Block(w, b))
             /\ Cardinality(Block(w, b)) = TableSize
  <2> DEFINE f == [i \in 1 .. TableSize |-> w[b * TableSize + i]]
  <2>1. Block(w, b) \subseteq ToSet(w)
    BY <1>1, <1>2 DEF Block, ToSet
  <2>2. f \in Surjection(1 .. TableSize, Block(w, b))
    BY DEF Surjection, Block
  <2>3. f \in Injection(1 .. TableSize, Block(w, b))
    <3>1. \A i, j \in 1 .. TableSize : f[i] = f[j] => i = j
      BY <1>3
    <3> QED
      BY <2>2, <3>1 DEF Surjection, Injection, IsInjective
  <2> HIDE DEF f
  <2>4. IsFiniteSet(1 .. TableSize) /\ Cardinality(1 .. TableSize) = TableSize
    <3>1. Cardinality(1 .. TableSize) = (IF 1 > TableSize THEN 0 ELSE TableSize - 1 + 1) /\ IsFiniteSet(1 .. TableSize)
      BY <1>1, FS_Interval
    <3> QED
      BY <1>1, <3>1
  <2> QED
    BY <2>1, <2>2, <2>3, <2>4, FS_Surjection
<1>5. \A b, c \in 0 .. n - 1 : b # c => Block(w, b) \cap Block(w, c) = {}
  BY <1>3 DEF Block
<1>6. \A p \in ToSet(w) : \E b \in 0 .. n - 1 : p \in Block(w, b)
  <2> SUFFICES ASSUME NEW p \in ToSet(w) PROVE \E b \in 0 .. n - 1 : p \in Block(w, b)
    OBVIOUS
  <2>1. PICK x \in 1 .. n * TableSize : p = w[x]
    BY <1>1 DEF ToSet
  <2>2. PICK b \in 0 .. n - 1 : \E i \in 1 .. TableSize : x = b * TableSize + i
    BY <1>2
  <2>3. p \in Block(w, b)
    BY <2>1, <2>2 DEF Block
  <2> QED
    BY <2>3
<1> QED
  BY <1>4, <1>5, <1>6

\* The first k blocks.
LEMMA BlocksCut ==
    ASSUME NEW w, NEW n, WholeTables(w, n), NEW k \in 0 .. n
    PROVE  LET v == SubSeq(w, 1, k * TableSize)
           IN  WholeTables(v, k) /\ \A b \in 0 .. k - 1 : Block(v, b) = Block(w, b)
<1> DEFINE v == SubSeq(w, 1, k * TableSize)
<1>1. w \in Seq(Players) /\ IsInjective(w) /\ n \in Nat /\ Len(w) = n * TableSize /\ TableSize \in Nat \ {0}
  BY LayoutAssumption DEF WholeTables
<1>2. k \in Nat /\ k * TableSize \in Nat /\ k * TableSize <= Len(w)
  <2>1. k \in Nat /\ k * TableSize \in Nat /\ n * TableSize \in Nat
    BY <1>1
  <2>2. CASE k = n
    BY <1>1, <2>1, <2>2
  <2>3. CASE k < n
    <3>1. k * TableSize + TableSize <= n * TableSize
      BY <1>1, <2>1, <2>3, MoreChairs
    <3> QED
      BY <1>1, <2>1, <3>1
  <2> QED
    BY <1>1, <2>1, <2>2, <2>3
<1>3. PICK c \in Nat : c = k * TableSize
  BY <1>2
<1>4. v \in Seq(Players) /\ Len(v) = c /\ IsInjective(v) /\ \A i \in 1 .. c : v[i] = w[i]
  <2>1. SubSeq(w, 1, c) \in Seq(Players) /\ Len(SubSeq(w, 1, c)) = c /\ IsInjective(SubSeq(w, 1, c))
    BY <1>1, <1>2, <1>3, CutMembers
  <2>2. \A i \in 1 .. c : SubSeq(w, 1, c)[i] = w[i]
    BY <1>1, <1>2, <1>3, LenProperties, SubSeqProperties
  <2> QED
    BY <1>3, <2>1, <2>2
<1> HIDE DEF v
<1>5. \A b \in 0 .. k - 1 : \A i \in 1 .. TableSize : b * TableSize + i \in 1 .. c
  BY <1>2, <1>3, Positions
<1>6. \A b \in 0 .. k - 1 : Block(v, b) = Block(w, b)
  BY <1>4, <1>5 DEF Block
<1>7. WholeTables(v, k)
  BY <1>2, <1>3, <1>4 DEF WholeTables
<1> QED
  BY <1>6, <1>7 DEF v

\* The players of a table come back together, in any order.
LEMMA BlocksAppend ==
    ASSUME NEW w, NEW n, WholeTables(w, n), NEW v \in Seq(Players), IsInjective(v), Len(v) = TableSize,
           ToSet(v) \cap ToSet(w) = {}
    PROVE  /\ WholeTables(w \o v, n + 1) /\ ToSet(w \o v) = ToSet(w) \cup ToSet(v)
           /\ \A b \in 0 .. n - 1 : Block(w \o v, b) = Block(w, b)
           /\ Block(w \o v, n) = ToSet(v)
<1>1. w \in Seq(Players) /\ IsInjective(w) /\ n \in Nat /\ TableSize \in Nat \ {0}
  BY LayoutAssumption DEF WholeTables
<1>2. PICK c \in Nat : c = n * TableSize
  BY <1>1
<1>3. PICK x : x = w \o v
  OBVIOUS
<1>4. /\ x \in Seq(Players) /\ Len(x) = c + TableSize /\ Len(w) = c
      /\ \A i \in 1 .. c : x[i] = w[i]
      /\ \A i \in 1 .. TableSize : x[c + i] = v[i]
  <2>1. Len(w) = c
    BY <1>2 DEF WholeTables
  <2>2. w \o v \in Seq(Players) /\ Len(w \o v) = Len(w) + Len(v)
        /\ \A i \in 1 .. Len(w) + Len(v) : (w \o v)[i] = IF i <= Len(w) THEN w[i] ELSE v[i - Len(w)]
    BY <1>1, ConcatProperties
  <2>3. \A i \in 1 .. TableSize : c + i \in 1 .. c + TableSize /\ ~(c + i <= c) /\ (c + i) - c = i
    BY <1>1
  <2>4. \A i \in 1 .. c : i \in 1 .. c + TableSize
    BY <1>1
  <2> QED
    BY <1>3, <2>1, <2>2, <2>3, <2>4
<1>5. /\ DOMAIN x = 1 .. c + TableSize /\ DOMAIN w = 1 .. c /\ DOMAIN v = 1 .. TableSize
      /\ \A i \in 1 .. c + TableSize : i \in 1 .. c \/ (i - c \in 1 .. TableSize /\ i = c + (i - c))
  BY <1>1, <1>4, LenProperties
<1>6. /\ \A i \in 1 .. c : w[i] \in ToSet(w)
      /\ \A i \in 1 .. TableSize : v[i] \in ToSet(v)
  BY <1>5 DEF ToSet
<1>7. IsInjective(x)
  <2> SUFFICES ASSUME NEW i \in 1 .. c + TableSize, NEW j \in 1 .. c + TableSize, x[i] = x[j]
               PROVE  i = j
    BY <1>5 DEF IsInjective
  <2>1. CASE i \in 1 .. c /\ j \in 1 .. c
    BY <1>1, <1>4, <1>5, <2>1 DEF IsInjective
  <2>2. CASE i - c \in 1 .. TableSize /\ j - c \in 1 .. TableSize
    <3>1. x[i] = v[i - c] /\ x[j] = v[j - c]
      BY <1>4, <1>5, <2>2
    <3>2. i - c = j - c
      BY <1>5, <2>2, <3>1 DEF IsInjective
    <3> QED
      BY <3>2
  <2>3. CASE i \in 1 .. c /\ j - c \in 1 .. TableSize
    <3>1. x[i] \in ToSet(w) /\ x[j] \in ToSet(v)
      BY <1>4, <1>5, <1>6, <2>3
    <3> QED
      BY <3>1
  <2>4. CASE j \in 1 .. c /\ i - c \in 1 .. TableSize
    <3>1. x[j] \in ToSet(w) /\ x[i] \in ToSet(v)
      BY <1>4, <1>5, <1>6, <2>4
    <3> QED
      BY <3>1
  <2> QED
    BY <1>5, <2>1, <2>2, <2>3, <2>4
<1>8. ToSet(x) = ToSet(w) \cup ToSet(v)
  <2>1. \A p \in ToSet(x) : p \in ToSet(w) \cup ToSet(v)
    <3> SUFFICES ASSUME NEW i \in 1 .. c + TableSize PROVE x[i] \in ToSet(w) \cup ToSet(v)
      BY <1>5 DEF ToSet
    <3> QED
      BY <1>4, <1>5, <1>6
  <2>2. \A i \in 1 .. c : w[i] \in ToSet(x)
    <3>1. \A i \in 1 .. c : i \in DOMAIN x
      BY <1>1, <1>5
    <3> QED
      BY <1>4, <3>1 DEF ToSet
  <2>3. \A i \in 1 .. TableSize : v[i] \in ToSet(x)
    <3>1. \A i \in 1 .. TableSize : c + i \in DOMAIN x
      BY <1>1, <1>5
    <3> QED
      BY <1>4, <3>1 DEF ToSet
  <2> QED
    BY <1>5, <2>1, <2>2, <2>3 DEF ToSet
<1>9. WholeTables(x, n + 1)
  <2>1. (n + 1) * TableSize = n * TableSize + TableSize
    BY <1>1
  <2> QED
    BY <1>1, <1>2, <1>4, <1>7, <2>1 DEF WholeTables
<1>10. \A b \in 0 .. n - 1 : Block(x, b) = Block(w, b)
  <2>1. \A b \in 0 .. n - 1 : \A i \in 1 .. TableSize : b * TableSize + i \in 1 .. c
    BY <1>1, <1>2, Positions
  <2> QED
    BY <1>4, <2>1 DEF Block
<1>11. Block(x, n) = ToSet(v)
  <2>1. Block(x, n) = {x[c + i] : i \in 1 .. TableSize}
    BY <1>2 DEF Block
  <2>2. ToSet(v) = {v[i] : i \in 1 .. TableSize}
    BY <1>5 DEF ToSet
  <2> QED
    BY <1>4, <2>1, <2>2
<1> QED
  BY <1>3, <1>8, <1>9, <1>10, <1>11

\* The orders of a set of players (the chairs of a table, the shuffled waiting players).
LEMMA OrdersOfSet ==
    ASSUME NEW S, S \subseteq Players, IsFiniteSet(S), NEW v \in SetToSeqs(S)
    PROVE  v \in Seq(Players) /\ Len(v) = Cardinality(S) /\ IsInjective(v) /\ ToSet(v) = S
<1>1. PICK n \in Nat : n = Cardinality(S)
  BY FS_CardinalityType
<1>2. v \in [1 .. n -> S] /\ \A i, j \in 1 .. n : i # j => v[i] # v[j]
  BY <1>1 DEF SetToSeqs
<1>3. v \in Seq(Players) /\ Len(v) = n /\ DOMAIN v = 1 .. n
  BY <1>2
<1>4. IsInjective(v)
  BY <1>2 DEF IsInjective
<1>5. v \in Injection(1 .. n, S)
  BY <1>2, <1>4 DEF Injection
<1>6. IsFiniteSet(1 .. n) /\ Cardinality(1 .. n) = n
  <2>1. IsFiniteSet(1 .. n) /\ Cardinality(1 .. n) = IF 1 > n THEN 0 ELSE n - 1 + 1
    BY FS_Interval
  <2> QED
    BY <2>1
<1>7. v \in Surjection(1 .. n, S)
  BY <1>1, <1>5, <1>6, FS_Injection
<1>8. ToSet(v) = S
  BY <1>2, <1>3, <1>7 DEF Surjection, ToSet
<1> QED
  BY <1>1, <1>3, <1>4, <1>8

-----------------------------------------------------------------------------
(***************************************************************************)
(* Dealing.  As long as every table is full or empty, and whole tables of  *)
(* players wait, the empty tables are filled in the order getSuitTable     *)
(* finds them, each with one block of the list, the last block first.      *)
(***************************************************************************)
FullOrEmpty == \A t \in Tables : seats[t] = {} \/ Cardinality(seats[t]) = TableSize

Empty == {t \in Tables : seats[t] = {}}

EmptyBefore(m) == [t \in Empty |-> {s \in Empty : FoundBefore(m, s, t)}]

\* There are NumTables tables.
LEMMA TablesFinite == IsFiniteSet(Tables) /\ Cardinality(Tables) = NumTables /\ Tables \subseteq Nat
<1>1. NumTables \in Nat
  BY LayoutAssumption
<1>2. IsFiniteSet(1 .. NumTables) /\ Cardinality(1 .. NumTables) = IF 1 > NumTables THEN 0 ELSE NumTables - 1 + 1
  BY <1>1, FS_Interval
<1> QED
  BY <1>1, <1>2 DEF Tables

\* An empty table has all its chairs free, any other none.
LEMMA ChairsFree ==
    ASSUME FullOrEmpty, NEW t \in Tables
    PROVE  FreeChairs(t) = TableSize * (IF t \in Empty THEN 1 ELSE 0)
<1>1. Cardinality({}) = 0 /\ TableSize \in Nat \ {0}
  BY FS_EmptySet, LayoutAssumption
<1>2. CASE seats[t] = {}
  <2>1. t \in Empty /\ FreeChairs(t) = TableSize - 0
    BY <1>1, <1>2 DEF FreeChairs, Empty
  <2> QED
    BY <1>1, <2>1
<1>3. CASE seats[t] # {}
  <2>1. t \notin Empty /\ Cardinality(seats[t]) = TableSize
    BY <1>3 DEF Empty, FullOrEmpty
  <2>2. FreeChairs(t) = TableSize - TableSize
    BY <2>1 DEF FreeChairs
  <2> QED
    BY <1>1, <2>1, <2>2
<1> QED
  BY <1>2, <1>3

\* The free chairs of some tables are those of the empty ones among them.
LEMMA ChairsSum ==
    ASSUME FullOrEmpty, NEW T \in SUBSET Tables
    PROVE  SumOver(T, [t \in Tables |-> FreeChairs(t)]) = TableSize * Cardinality(T \cap Empty)
<1>1. PICK f, h : f = [t \in Tables |-> IF t \in Empty THEN 1 ELSE 0] /\ h = [t \in Tables |-> FreeChairs(t)]
  OBVIOUS
<1>2. IsFiniteSet(T) /\ TableSize \in Int
  <2>1. IsFiniteSet(T)
    BY TablesFinite, FS_Subset
  <2> QED
    BY <2>1, LayoutAssumption
<1>3. PICK P \in SUBSET T : P = T \cap Empty
  OBVIOUS
<1>4. \A t \in T : f[t] = IF t \in P THEN 1 ELSE 0
  BY <1>1, <1>3
<1>5. \A t \in T : f[t] \in Int /\ h[t] = TableSize * f[t]
  BY <1>1, ChairsFree
<1>6. SumOver(T, f) = Cardinality(P)
  BY <1>2, <1>4, SumOfMarks
<1>7. SumOver(T, h) = TableSize * SumOver(T, f)
  BY <1>2, <1>5, SumOfProducts
<1> QED
  BY <1>1, <1>3, <1>6, <1>7

\* The order in which the empty tables are found.
LEMMA EmptyInOrder ==
    ASSUME NEW m \in Matches
    PROVE  LET B == EmptyBefore(m)
           IN  /\ \A t \in Empty : Cardinality(B[t]) \in 0 .. Cardinality(Empty) - 1
               /\ \A s, t \in Empty : Cardinality(B[s]) = Cardinality(B[t]) => s = t
               /\ \A i \in 0 .. Cardinality(Empty) - 1 : \E t \in Empty : Cardinality(B[t]) = i
               /\ IsFiniteSet(Empty) /\ Cardinality(Empty) \in Nat
<1>1. PICK B : B = EmptyBefore(m)
  OBVIOUS
<1>2. PICK T : T = Empty
  OBVIOUS
<1>3. IsFiniteSet(T) /\ Cardinality(T) \in Nat
  BY <1>2, TablesFinite, FS_Subset, FS_CardinalityType DEF Empty
<1>4. \A s, t \in T : s \in Nat /\ t \in Nat /\ (s # t => s < t \/ t < s)
  BY <1>2, TablesFinite DEF Empty
<1>5. B \in [T -> SUBSET T] /\ \A s, t \in T : s \in B[t] <=> FoundBefore(m, s, t)
  BY <1>1, <1>2 DEF EmptyBefore
<1>6. /\ \A x \in T : x \notin B[x]
      /\ \A x, y \in T : x # y => x \in B[y] \/ y \in B[x]
  BY <1>4, <1>5 DEF FoundBefore
<1>7. \A x, y \in T : x \in B[y] => B[x] \subseteq B[y]
  <2> SUFFICES ASSUME NEW x \in T, NEW y \in T, NEW z \in T, x \in B[y], z \in B[x] PROVE z \in B[y]
    BY <1>5
  <2>1. FoundBefore(m, x, y) /\ FoundBefore(m, z, x)
    BY <1>5
  <2>2. FoundBefore(m, z, y)
    BY <1>4, <2>1 DEF FoundBefore
  <2> QED
    BY <1>5, <2>2
<1>8. /\ \A x \in T : Cardinality(B[x]) \in 0 .. Cardinality(T) - 1
      /\ \A x, y \in T : Cardinality(B[x]) = Cardinality(B[y]) => x = y
      /\ \A i \in 0 .. Cardinality(T) - 1 : \E x \in T : Cardinality(B[x]) = i
  BY <1>3, <1>5, <1>6, <1>7, Ranks
<1> QED
  BY <1>1, <1>2, <1>3, <1>8

\* Whom a table gets.
LEMMA BlockSeated ==
    ASSUME FullOrEmpty, NEW m \in Matches, NEW w, NEW n, WholeTables(w, n), NEW t \in Tables
    PROVE  LET j == Cardinality(EmptyBefore(m)[t])
           IN  Newcomers(m, w, t) = IF t \in Empty /\ j < n THEN Block(w, (n - 1) - j) ELSE {}
<1> DEFINE turn == Turn(m, t)
           ks == {k \in 0 .. (Len(w) - 1) : turn <= k /\ k < turn + FreeChairs(t)}
<1>1. Newcomers(m, w, t) = {w[Len(w) - k] : k \in ks}
  BY DEF Newcomers
<1>2. PICK T \in SUBSET Tables : T = {s \in Tables : FoundBefore(m, s, t)}
  OBVIOUS
<1>3. turn = TableSize * Cardinality(T \cap Empty)
  <2>1. SumOver(T, [s \in Tables |-> FreeChairs(s)]) = TableSize * Cardinality(T \cap Empty)
    BY ChairsSum
  <2> QED
    BY <1>2, <2>1 DEF Turn
<1>4. Cardinality(T \cap Empty) \in Nat
  <2>1. IsFiniteSet(T \cap Empty)
    BY TablesFinite, FS_Subset
  <2> QED
    BY <2>1, FS_CardinalityType
<1>5. n \in Nat /\ Len(w) = n * TableSize /\ TableSize \in Nat \ {0} /\ n * TableSize \in Nat
  <2>1. n \in Nat /\ Len(w) = n * TableSize /\ TableSize \in Nat \ {0}
    BY LayoutAssumption DEF WholeTables
  <2> QED
    BY <2>1
<1> HIDE DEF turn
<1>6. turn \in Nat
  BY <1>3, <1>4, <1>5
<1>7. CASE t \notin Empty
  <2>1. FreeChairs(t) = 0
    <3>1. FreeChairs(t) = TableSize * 0
      BY <1>7, ChairsFree
    <3> QED
      BY <1>5, <3>1
  <2>2. ks = {}
    BY <1>6, <2>1
  <2> QED
    BY <1>1, <1>7, <2>2
<1>8. CASE t \in Empty
  <2>1. PICK j \in Nat : j = Cardinality(EmptyBefore(m)[t])
    BY <1>8, EmptyInOrder
  <2>2. T \cap Empty = EmptyBefore(m)[t]
    BY <1>2, <1>8 DEF EmptyBefore, Empty
  <2>3. turn = j * TableSize /\ FreeChairs(t) = TableSize
    <3>1. FreeChairs(t) = TableSize * 1
      BY <1>8, ChairsFree
    <3>2. turn = TableSize * j
      BY <1>3, <2>1, <2>2
    <3>3. TableSize * j = j * TableSize /\ TableSize * 1 = TableSize
      BY <1>5
    <3> QED
      BY <3>1, <3>2, <3>3
  <2>4. CASE j < n
    <3>1. PICK b \in Nat : b = (n - 1) - j
      BY <1>5, <2>4
    <3>2. n * TableSize = (b * TableSize + j * TableSize) + TableSize
      <4>1. PICK s \in Nat : s = TableSize
        BY <1>5
      <4>2. n = (b + j) + 1
        BY <1>5, <3>1
      <4>3. n * s = (b + j) * s + s
        BY <4>2
      <4>4. (b + j) * s = b * s + j * s
        OBVIOUS
      <4> QED
        BY <4>1, <4>3, <4>4
    <3>3. PICK a \in Nat : a = b * TableSize
      BY <1>5
    <3>4. Len(w) = (a + turn) + TableSize
      BY <1>5, <2>3, <3>2, <3>3
    <3>5. ASSUME NEW k \in ks
          PROVE  \E i \in 1 .. TableSize : Len(w) - k = a + i
      <4>1. k \in Nat /\ turn <= k /\ k < turn + TableSize
        BY <1>5, <2>3
      <4>2. (turn + TableSize) - k \in 1 .. TableSize /\ Len(w) - k = a + ((turn + TableSize) - k)
        BY <1>5, <1>6, <3>4, <4>1
      <4> QED
        BY <4>2
    <3>6. ASSUME NEW i \in 1 .. TableSize
          PROVE  \E k \in ks : Len(w) - k = a + i
      <4>1. PICK k \in Nat : k = (turn + TableSize) - i
        BY <1>5, <1>6
      <4>2. k \in 0 .. Len(w) - 1 /\ turn <= k /\ k < turn + TableSize /\ Len(w) - k = a + i
        BY <1>5, <1>6, <3>4, <4>1
      <4> QED
        BY <2>3, <4>2
    <3> HIDE DEF ks
    <3>7. {w[Len(w) - k] : k \in ks} = {w[a + i] : i \in 1 .. TableSize}
      <4>1. \A k \in ks : w[Len(w) - k] \in {w[a + i] : i \in 1 .. TableSize}
        BY <3>5
      <4>2. \A i \in 1 .. TableSize : w[a + i] \in {w[Len(w) - k] : k \in ks}
        BY <3>6
      <4> QED
        BY <4>1, <4>2
    <3>8. Block(w, b) = {w[a + i] : i \in 1 .. TableSize}
      BY <3>3 DEF Block
    <3> QED
      BY <1>1, <1>8, <2>1, <2>4, <3>1, <3>7, <3>8
  <2>5. CASE n <= j
    <3>1. n * TableSize <= j * TableSize
      <4>1. CASE n = j
        BY <1>5, <4>1
      <4>2. CASE n < j
        <5>1. n * TableSize + TableSize <= j * TableSize /\ j * TableSize \in Nat
          BY <1>5, <4>2, MoreChairs
        <5> QED
          BY <1>5, <5>1
      <4> QED
        BY <1>5, <2>5, <4>1, <4>2
    <3>2. ks = {}
      BY <1>5, <1>6, <2>3, <3>1
    <3>3. ~(j < n)
      BY <1>5, <2>5
    <3> QED
      BY <1>1, <2>1, <3>2, <3>3
  <2> QED
    BY <1>5, <2>4, <2>5
<1> QED
  BY <1>7, <1>8

\* What is left of the list when the empty tables have been filled.
Left(w) == IF Len(w) > AllChairs THEN SubSeq(w, 1, Len(w) - AllChairs) ELSE <<>>

\* The dealing as a whole: empty tables are filled with the blocks that are not left, each with one of them.
LEMMA Dealt ==
    ASSUME FullOrEmpty, NEW m \in Matches, NEW w, NEW n, WholeTables(w, n)
    PROVE  \E k \in 0 .. n :
              /\ WholeTables(Left(w), k) /\ \A b \in 0 .. k - 1 : Block(Left(w), b) = Block(w, b)
              /\ \A t \in Tables : Newcomers(m, w, t) # {} =>
                    seats[t] = {} /\ \E b \in k .. n - 1 : Newcomers(m, w, t) = Block(w, b)
              /\ \A b \in k .. n - 1 : \E t \in Tables : Newcomers(m, w, t) = Block(w, b)
              /\ \A s, t \in Tables : s # t => Newcomers(m, w, s) \cap Newcomers(m, w, t) = {}
              /\ AllChairs >= Len(w) => k = 0
<1> DEFINE B == EmptyBefore(m)
           New(t) == Newcomers(m, w, t)
<1>1. /\ \A t \in Empty : Cardinality(B[t]) \in 0 .. Cardinality(Empty) - 1
      /\ \A s, t \in Empty : Cardinality(B[s]) = Cardinality(B[t]) => s = t
      /\ \A i \in 0 .. Cardinality(Empty) - 1 : \E t \in Empty : Cardinality(B[t]) = i
      /\ IsFiniteSet(Empty) /\ Cardinality(Empty) \in Nat
  BY EmptyInOrder
<1>2. PICK e \in Nat : e = Cardinality(Empty)
  BY <1>1
<1>3. AllChairs = e * TableSize
  <2>1. Tables \cap Empty = Empty /\ Tables \in SUBSET Tables
    BY DEF Empty
  <2>2. SumOver(Tables, [t \in Tables |-> FreeChairs(t)]) = TableSize * Cardinality(Tables \cap Empty)
    BY <2>1, ChairsSum
  <2>3. TableSize * e = e * TableSize
    BY LayoutAssumption
  <2> QED
    BY <1>2, <2>1, <2>2, <2>3 DEF AllChairs
<1>4. \A t \in Tables : New(t) = IF t \in Empty /\ Cardinality(B[t]) < n THEN Block(w, (n - 1) - Cardinality(B[t]))
                                                                         ELSE {}
  BY BlockSeated
<1>5. PICK rank : rank = [t \in Empty |-> Cardinality(B[t])]
  OBVIOUS
<1>6. /\ \A t \in Empty : rank[t] \in 0 .. e - 1
      /\ \A s, t \in Empty : rank[s] = rank[t] => s = t
      /\ \A i \in 0 .. e - 1 : \E t \in Empty : rank[t] = i
      /\ \A t \in Tables : New(t) = IF t \in Empty /\ rank[t] < n THEN Block(w, (n - 1) - rank[t]) ELSE {}
  BY <1>1, <1>2, <1>4, <1>5
<1> HIDE DEF B, New
<1>7. n \in Nat /\ TableSize \in Nat \ {0} /\ Len(w) = n * TableSize /\ Empty \subseteq Tables
  BY LayoutAssumption DEF WholeTables, Empty
<1>8. PICK k \in 0 .. n : k = IF n > e THEN n - e ELSE 0
  <2>1. (IF n > e THEN n - e ELSE 0) \in 0 .. n
    BY <1>7
  <2> QED
    BY <2>1
<1>9. /\ \A b \in 0 .. n - 1 : Block(w, b) # {}
      /\ \A b, c \in 0 .. n - 1 : b # c => Block(w, b) \cap Block(w, c) = {}
  <2>1. \A b \in 0 .. n - 1 : Cardinality(Block(w, b)) = TableSize
    BY BlocksPart
  <2>2. \A b \in 0 .. n - 1 : Block(w, b) # {}
    BY <1>7, <2>1, FS_EmptySet
  <2>3. \A b, c \in 0 .. n - 1 : b # c => Block(w, b) \cap Block(w, c) = {}
    BY BlocksPart
  <2> QED
    BY <2>2, <2>3
<1>10. ASSUME NEW t \in Tables, New(t) # {}
       PROVE  seats[t] = {} /\ \E b \in k .. n - 1 : New(t) = Block(w, b)
  <2>1. t \in Empty /\ rank[t] < n /\ New(t) = Block(w, (n - 1) - rank[t])
    BY <1>6, <1>10
  <2>2. (n - 1) - rank[t] \in k .. n - 1
    BY <1>6, <1>7, <1>8, <2>1
  <2> QED
    BY <2>1, <2>2 DEF Empty
<1>11. ASSUME NEW b \in k .. n - 1
       PROVE  \E t \in Tables : New(t) = Block(w, b)
  <2>1. (n - 1) - b \in 0 .. e - 1 /\ (n - 1) - b < n /\ (n - 1) - ((n - 1) - b) = b
    BY <1>7, <1>8
  <2>2. PICK t \in Empty : rank[t] = (n - 1) - b
    BY <1>6, <2>1
  <2>3. t \in Tables /\ New(t) = Block(w, b)
    BY <1>6, <1>7, <2>1, <2>2
  <2> QED
    BY <2>3
<1>12. ASSUME NEW s \in Tables, NEW t \in Tables, s # t
       PROVE  New(s) \cap New(t) = {}
  <2>1. CASE New(s) = {} \/ New(t) = {}
    BY <2>1
  <2>2. CASE New(s) # {} /\ New(t) # {}
    <3>1. /\ s \in Empty /\ rank[s] < n /\ New(s) = Block(w, (n - 1) - rank[s])
          /\ t \in Empty /\ rank[t] < n /\ New(t) = Block(w, (n - 1) - rank[t])
      BY <1>6, <2>2
    <3>2. rank[s] # rank[t] /\ rank[s] \in 0 .. e - 1 /\ rank[t] \in 0 .. e - 1
      BY <1>6, <1>12, <3>1
    <3>3. PICK b, c : b = (n - 1) - rank[s] /\ c = (n - 1) - rank[t]
      OBVIOUS
    <3>4. b \in 0 .. n - 1 /\ c \in 0 .. n - 1 /\ b # c
      BY <1>7, <3>1, <3>2, <3>3
    <3> QED
      BY <1>9, <3>1, <3>3, <3>4
  <2> QED
    BY <2>1, <2>2
<1>13. WholeTables(Left(w), k) /\ \A b \in 0 .. k - 1 : Block(Left(w), b) = Block(w, b)
  <2>1. CASE n > e
    <3>1. k = n - e /\ k \in Nat /\ n = k + e
      BY <1>7, <1>8, <2>1
    <3>2. n * TableSize = k * TableSize + e * TableSize /\ k * TableSize \in Nat /\ e * TableSize \in Nat
      <4>1. PICK s \in Nat : s = TableSize
        BY <1>7
      <4>2. n * s = k * s + e * s /\ k * s \in Nat /\ e * s \in Nat
        BY <3>1
      <4> QED
        BY <4>1, <4>2
    <3>3. k * TableSize > 0
      <4>1. 0 \in Nat /\ 0 < k
        BY <2>1, <3>1
      <4>2. 0 * TableSize + TableSize <= k * TableSize
        BY <3>1, <4>1, MoreChairs
      <4> QED
        BY <1>7, <3>2, <4>2
    <3>4. Len(w) > AllChairs /\ Len(w) - AllChairs = k * TableSize
      BY <1>3, <1>7, <3>2, <3>3
    <3>5. Left(w) = SubSeq(w, 1, k * TableSize)
      BY <3>4 DEF Left
    <3> QED
      BY <3>5, BlocksCut
  <2>2. CASE ~(n > e)
    <3>1. k = 0 /\ n <= e
      BY <1>7, <1>8, <2>2
    <3>2. n * TableSize <= e * TableSize /\ n * TableSize \in Nat /\ e * TableSize \in Nat
      <4>1. n * TableSize \in Nat /\ e * TableSize \in Nat
        BY <1>7
      <4>2. CASE n = e
        BY <4>1, <4>2
      <4>3. CASE n < e
        <5>1. n * TableSize + TableSize <= e * TableSize
          BY <1>7, <4>3, MoreChairs
        <5> QED
          BY <1>7, <4>1, <5>1
      <4> QED
        BY <1>7, <3>1, <4>2, <4>3
    <3>3. Left(w) = <<>>
      BY <1>3, <1>7, <3>2 DEF Left
    <3>4. 0 * TableSize = 0
      BY <1>7
    <3>5. WholeTables(<<>>, 0)
      BY <3>4, EmptyList DEF WholeTables
    <3> QED
      BY <3>1, <3>3, <3>5
  <2> QED
    BY <2>1, <2>2
<1>14. AllChairs >= Len(w) => k = 0
  <2>1. CASE n > e
    <3>1. e * TableSize + TableSize <= n * TableSize /\ e * TableSize \in Nat /\ n * TableSize \in Nat
      BY <1>7, <2>1, MoreChairs
    <3> QED
      BY <1>3, <1>7, <3>1
  <2> QED
    BY <1>8, <2>1
<1> QED
  BY <1>10, <1>11, <1>12, <1>13, <1>14 DEF New

\* With tables for all matches at once nobody is left: those who sit at other tables are players of the matches ls
\* too, and these are not more than there are chairs.
LEMMA ChairsSuffice ==
    ASSUME TablesSuffice, FullOrEmpty, NEW w, NEW n, WholeTables(w, n),
           \A t \in Tables : IsFiniteSet(seats[t]), \A s, t \in Tables : s # t => seats[s] \cap seats[t] = {},
           NEW ls \in [Matches -> Seq(Players)], \A k \in Matches : Len(ls[k]) <= MaxPlayers,
           \A t \in Tables : \A p \in seats[t] : p \notin ToSet(w) /\ \E k \in Matches : p \in ToSet(ls[k]),
           \A p \in ToSet(w) : \E k \in Matches : p \in ToSet(ls[k])
    PROVE  AllChairs >= Len(w)
<1> DEFINE O == Tables \ Empty
           sizes == [t \in O |-> Cardinality(seats[t])]
           members == [k \in Matches |-> ToSet(ls[k])]
           counts == [k \in Matches |-> Cardinality(members[k])]
           bound == [k \in Matches |-> MaxPlayers]
<1>1. TableSize \in Nat \ {0} /\ NumTables \in Nat /\ MaxPlayers \in Nat /\ IsFiniteSet(Matches)
  BY LayoutAssumption, NamesAssumption
<1>2. PICK e \in Nat, o \in Nat : e = Cardinality(Empty) /\ o = Cardinality(O) /\ NumTables = e + o /\ IsFiniteSet(O)
  <2>1. Tables \cap Empty = Empty /\ IsFiniteSet(Tables) /\ Cardinality(Tables) = NumTables
    BY TablesFinite DEF Empty
  <2>2. IsFiniteSet(Empty)
    BY <2>1, FS_Subset DEF Empty
  <2>3. IsFiniteSet(O) /\ Cardinality(O) = Cardinality(Tables) - Cardinality(Tables \cap Empty)
    BY <2>1, FS_Difference
  <2> HIDE DEF O
  <2>4. Cardinality(Empty) \in Nat /\ Cardinality(O) \in Nat
    BY <2>2, <2>3, FS_CardinalityType
  <2>5. NumTables = Cardinality(Empty) + Cardinality(O)
    <3>1. PICK x \in Nat, y \in Nat : x = Cardinality(Empty) /\ y = Cardinality(O)
      BY <2>4
    <3>2. y = NumTables - x
      BY <2>1, <2>3, <3>1
    <3> QED
      BY <1>1, <3>1, <3>2
  <2> QED
    BY <2>3, <2>4, <2>5
<1>3. AllChairs = TableSize * e
  <2>1. Tables \cap Empty = Empty /\ Tables \in SUBSET Tables
    BY DEF Empty
  <2>2. SumOver(Tables, [t \in Tables |-> FreeChairs(t)]) = TableSize * Cardinality(Tables \cap Empty)
    BY <2>1, ChairsSum
  <2> QED
    BY <1>2, <2>1, <2>2 DEF AllChairs
<1>4. PICK A : A = Joined(O, seats)
  OBVIOUS
<1>5. IsFiniteSet(A) /\ Cardinality(A) = TableSize * o
  <2>1. \A t \in O : sizes[t] = TableSize
    BY DEF FullOrEmpty, Empty
  <2>2. \A t \in O : IsFiniteSet(seats[t]) /\ sizes[t] = Cardinality(seats[t])
    OBVIOUS
  <2>3. \A s, t \in O : s # t => seats[s] \cap seats[t] = {}
    OBVIOUS
  <2> HIDE DEF O, sizes
  <2>4. SumOver(O, sizes) = TableSize * Cardinality(O)
    <3>1. TableSize \in Int
      BY <1>1
    <3> QED
      BY <1>2, <2>1, <3>1, SumOfEquals
  <2>5. IsFiniteSet(Joined(O, seats)) /\ Cardinality(Joined(O, seats)) = SumOver(O, sizes)
    BY <1>2, <2>2, <2>3, SizeOfUnion
  <2> QED
    BY <1>2, <1>4, <2>4, <2>5
<1>6. IsFiniteSet(ToSet(w)) /\ Cardinality(ToSet(w)) = Len(w) /\ Len(w) \in Nat
  BY MembersCount, LenProperties DEF WholeTables
<1>7. A \cap ToSet(w) = {}
  BY <1>4 DEF Joined
<1>8. PICK C : C = Joined(Matches, members)
  OBVIOUS
<1>9. IsFiniteSet(C) /\ Cardinality(C) <= MaxPlayers * Cardinality(Matches)
  <2>1. \A k \in Matches : IsFiniteSet(members[k]) /\ counts[k] = Cardinality(members[k])
    BY MembersCount
  <2>2. ASSUME NEW k \in Matches PROVE counts[k] \in Int /\ bound[k] \in Int /\ counts[k] <= bound[k]
    <3>1. PICK l \in Seq(Players) : l = ls[k]
      OBVIOUS
    <3>2. Len(l) \in Nat /\ DOMAIN l = 1 .. Len(l) /\ Len(l) <= MaxPlayers
      BY <3>1, LenProperties
    <3>3. Cardinality(ToSet(l)) <= Len(l) /\ Cardinality(ToSet(l)) \in Nat
      <4>1. l \in Surjection(1 .. Len(l), ToSet(l))
        BY <3>2, LenProperties DEF Surjection, ToSet
      <4>2. IsFiniteSet(1 .. Len(l)) /\ Cardinality(1 .. Len(l)) = IF 1 > Len(l) THEN 0 ELSE Len(l) - 1 + 1
        BY <3>2, FS_Interval
      <4>3. IsFiniteSet(ToSet(l)) /\ Cardinality(ToSet(l)) <= Cardinality(1 .. Len(l))
        BY <4>1, <4>2, FS_Surjection
      <4>4. Cardinality(ToSet(l)) \in Nat
        BY <4>3, FS_CardinalityType
      <4> QED
        BY <3>2, <4>2, <4>3, <4>4
    <3>4. counts[k] = Cardinality(ToSet(l)) /\ bound[k] = MaxPlayers
      BY <3>1
    <3> QED
      BY <1>1, <3>2, <3>3, <3>4
  <2>3. \A k \in Matches : bound[k] = MaxPlayers
    OBVIOUS
  <2> HIDE DEF members, counts, bound
  <2>4. IsFiniteSet(Joined(Matches, members)) /\ Cardinality(Joined(Matches, members)) <= SumOver(Matches, counts)
    BY <1>1, <2>1, SizeOfUnion
  <2>5. SumOver(Matches, counts) <= SumOver(Matches, bound)
    BY <1>1, <2>2, SumOrder
  <2>6. SumOver(Matches, bound) = MaxPlayers * Cardinality(Matches)
    <3>1. MaxPlayers \in Int
      BY <1>1
    <3> QED
      BY <1>1, <2>3, <3>1, SumOfEquals
  <2>7. SumOver(Matches, counts) \in Int
    BY <1>1, <2>2, SumType
  <2>8. SumOver(Matches, bound) \in Int
    BY <1>1, <2>2, SumType
  <2>9. Cardinality(Joined(Matches, members)) \in Nat
    BY <2>4, FS_CardinalityType
  <2> QED
    BY <1>8, <2>4, <2>5, <2>6, <2>7, <2>8, <2>9
<1>10. A \cup ToSet(w) \subseteq C
  BY <1>4, <1>8 DEF Joined
<1> HIDE DEF O, members, sizes, counts, bound
<1>11. Cardinality(A) + Len(w) <= Cardinality(C)
  <2>1. Cardinality(A \cap ToSet(w)) = 0
    BY <1>7, FS_EmptySet
  <2>2. Cardinality(A \cup ToSet(w)) = Cardinality(A) + Cardinality(ToSet(w)) - Cardinality(A \cap ToSet(w))
    BY <1>5, <1>6, FS_Union
  <2>3. Cardinality(A \cup ToSet(w)) <= Cardinality(C)
    BY <1>9, <1>10, FS_Subset
  <2>4. Cardinality(A) \in Nat /\ Cardinality(C) \in Nat
    BY <1>5, <1>9, FS_CardinalityType
  <2> QED
    BY <1>6, <2>1, <2>2, <2>3, <2>4
<1>12. PICK c \in Nat, x \in Nat : c = Cardinality(Matches) /\ x = Cardinality(C)
  BY <1>1, <1>9, FS_CardinalityType
<1>13. (e + o) * TableSize >= c * MaxPlayers
  BY <1>2, <1>12 DEF TablesSuffice
<1>14. (e + o) * TableSize = TableSize * e + TableSize * o /\ c * MaxPlayers = MaxPlayers * c
  <2>1. PICK s \in Nat, y \in Nat : s = TableSize /\ y = MaxPlayers
    BY <1>1
  <2>2. (e + o) * s = s * e + s * o /\ c * y = y * c
    OBVIOUS
  <2> QED
    BY <2>1, <2>2
<1>15. PICK a \in Nat, b \in Nat, d \in Nat : a = TableSize * e /\ b = TableSize * o /\ d = MaxPlayers * c
  BY <1>1
<1>16. b + Len(w) <= x /\ x <= d /\ a + b >= d
  BY <1>5, <1>9, <1>11, <1>12, <1>13, <1>14, <1>15
<1>17. a >= Len(w)
  BY <1>6, <1>16
<1> QED
  BY <1>3, <1>15, <1>17

-----------------------------------------------------------------------------
(***************************************************************************)
(* The inductive invariant of the tables: every table is full or empty.    *)
(* In fixed groups the players of a table come back together, and those    *)
(* who wait do so in blocks of players who have played equally often.  At  *)
(* random only the whole match is dealt, and everybody has played equally  *)
(* often as long as nobody is left without a table.                        *)
(***************************************************************************)
\* Dealing does not mix players who have played more with those who have played less.
Even(fixed) == fixed \/ TablesSuffice

\* Those who wait fill whole tables, each with players who have played equally often.
InBlocks(w, inf, fixed) ==
    \E n \in 0 .. Len(w) :
        /\ WholeTables(w, n)
        /\ Even(fixed) => \A b \in 0 .. n - 1 : \A p, q \in Block(w, b) : inf[p].count = inf[q].count

\* The players of list l who have played all games of round r.
Finished(l, r, inf) == {p \in ToSet(l) : inf[p].count >= Games[r]}

\* Of the players of l each is either at a table (in S), waiting (in w) or done.
OnePlace(l, w, r, inf, S) ==
    /\ ToSet(w) \subseteq ToSet(l)
    /\ \A p \in ToSet(l) : /\ p \in S \/ p \in ToSet(w) \/ p \in Finished(l, r, inf)
                           /\ ~(p \in S /\ p \in ToSet(w)) /\ ~(p \in S /\ p \in Finished(l, r, inf))
                           /\ ~(p \in ToSet(w) /\ p \in Finished(l, r, inf))

\* Those at tables play the same game of the round, which the others have played.
InStep(l, inf, S) ==
    \A p, q \in ToSet(l) : /\ (p \in S <=> q \in S) => inf[p].count = inf[q].count
                           /\ p \in S /\ q \notin S => inf[q].count = inf[p].count + 1

GoodRound(l, w, r, fin, inf, S, fixed) ==
    /\ w \in Seq(Players) /\ IsInjective(w) /\ OnePlace(l, w, r, inf, S)
    /\ fin = Cardinality(Finished(l, r, inf))
    /\ Even(fixed) => InBlocks(w, inf, fixed)
    /\ ~fixed /\ TablesSuffice => InStep(l, inf, S)

\* A table is empty or full, of players of the match it reports to.
GoodTable(st, o, ph, inf, ls, ss, fixed) ==
    /\ ph # "init" <=> st # {}
    /\ st # {} => /\ o \in Matches /\ ss[o] = "gaming" /\ st \subseteq ToSet(ls[o])
                  /\ Cardinality(st) = TableSize
    /\ \A p \in st : ~inf[p].waitStart
    /\ Even(fixed) => \A p, q \in st : inf[p].count = inf[q].count

\* Who sits at some table.
Occupied(st) == UNION {st[t] : t \in Tables}

TableTypes ==
    /\ wait \in [Matches -> Seq(Players)] /\ tabs \in [Matches -> SUBSET Tables]
    /\ finished \in [Matches -> 0 .. MaxPlayers]
    /\ seats \in [Tables -> SUBSET Players] /\ owner \in [Tables -> Matches \cup {Nobody}]
    /\ phase \in [Tables -> {"init", "play", "end"}]
    /\ fixedAllocate \in BOOLEAN

GoodTables == \A t \in Tables : GoodTable(seats[t], owner[t], phase[t], info, list, status, fixedAllocate)

OwnTables == \A t \in Tables : \A m \in Matches : t \in tabs[m] => owner[t] = m /\ phase[t] = "play"

TablesApart == \A s, t \in Tables : s # t => seats[s] \cap seats[t] = {}

GoodRounds ==
    \A m \in Matches : status[m] = "gaming" =>
        GoodRound(list[m], wait[m], round[m], finished[m], info, Occupied(seats), fixedAllocate)

InPlay(p) == \E m \in Matches : status[m] = "gaming" /\ p \in ToSet(list[m])

NewcomersHaveNotPlayed == \A p \in Players : ~InPlay(p) => info[p].count = 0

TableInv ==
    TableTypes /\ GoodTables /\ OwnTables /\ TablesApart /\ GoodRounds /\ NewcomersHaveNotPlayed

\* What a round needs to know of the records and the tables.
LEMMA RoundFrame ==
    ASSUME NEW l, NEW w, NEW r, NEW fin, NEW inf, NEW S, NEW fixed, NEW inf2, NEW S2,
           GoodRound(l, w, r, fin, inf, S, fixed),
           \A p \in ToSet(l) : inf2[p].count = inf[p].count /\ (p \in S2 <=> p \in S)
    PROVE  GoodRound(l, w, r, fin, inf2, S2, fixed)
<1>1. Finished(l, r, inf2) = Finished(l, r, inf)
  BY DEF Finished
<1>2. ToSet(w) \subseteq ToSet(l)
  BY DEF GoodRound, OnePlace
<1>3. InBlocks(w, inf, fixed) => InBlocks(w, inf2, fixed)
  <2> SUFFICES ASSUME InBlocks(w, inf, fixed) PROVE InBlocks(w, inf2, fixed)
    OBVIOUS
  <2>1. PICK n \in 0 .. Len(w) :
           /\ WholeTables(w, n)
           /\ Even(fixed) => \A b \in 0 .. n - 1 : \A p, q \in Block(w, b) : inf[p].count = inf[q].count
    BY DEF InBlocks
  <2>2. \A b \in 0 .. n - 1 : Block(w, b) \subseteq ToSet(l)
    BY <1>2, <2>1, BlocksPart
  <2>3. Even(fixed) => \A b \in 0 .. n - 1 : \A p, q \in Block(w, b) : inf2[p].count = inf2[q].count
    BY <2>1, <2>2
  <2> QED
    BY <2>1, <2>3 DEF InBlocks
<1>4. OnePlace(l, w, r, inf2, S2)
  BY <1>1 DEF GoodRound, OnePlace
<1>5. InStep(l, inf, S) => InStep(l, inf2, S2)
  BY DEF InStep
<1> QED
  BY <1>1, <1>3, <1>4, <1>5 DEF GoodRound

\* What a table needs to know of them.
LEMMA TableFrame ==
    ASSUME NEW st, NEW o, NEW ph, NEW inf, NEW ls, NEW ss, NEW fixed, NEW inf2, NEW ls2, NEW ss2,
           GoodTable(st, o, ph, inf, ls, ss, fixed),
           \A p \in st : inf2[p].count = inf[p].count /\ inf2[p].waitStart = inf[p].waitStart,
           st # {} => ss2[o] = "gaming" /\ st \subseteq ToSet(ls2[o])
    PROVE  GoodTable(st, o, ph, inf2, ls2, ss2, fixed)
BY DEF GoodTable

\* Whoever sits at a table is in a match that is played.
LEMMA SeatedPlay ==
    ASSUME TableInv, NEW t \in Tables, NEW p \in seats[t]
    PROVE  InPlay(p)
BY DEF TableInv, GoodTables, GoodTable, InPlay

\* A step that leaves the tables and the matches that are played alone.
LEMMA QuietStep ==
    ASSUME MatchInv, TableInv, UNCHANGED <<seats, owner, phase, tabs, wait, finished, fixedAllocate>>,
           \A k \in Matches : status'[k] = "gaming" <=> status[k] = "gaming",
           \A k \in Matches : status[k] = "gaming" => list'[k] = list[k] /\ round'[k] = round[k],
           \A p \in Players : info'[p].count = info[p].count,
           \A p \in Players : InPlay(p) => info'[p].waitStart = info[p].waitStart
    PROVE  TableInv'
<1>1. TableTypes' /\ OwnTables' /\ TablesApart'
  BY DEF TableInv, TableTypes, OwnTables, TablesApart
<1>2. GoodTables'
  <2> SUFFICES ASSUME NEW t \in Tables
               PROVE  GoodTable(seats[t], owner[t], phase[t], info', list', status', fixedAllocate')
    BY DEF GoodTables
  <2>1. GoodTable(seats[t], owner[t], phase[t], info, list, status, fixedAllocate) /\ seats[t] \subseteq Players
    BY DEF TableInv, GoodTables, TableTypes
  <2>2. \A p \in seats[t] : info'[p].count = info[p].count /\ info'[p].waitStart = info[p].waitStart
    BY <2>1, SeatedPlay
  <2>3. seats[t] # {} => status'[owner[t]] = "gaming" /\ seats[t] \subseteq ToSet(list'[owner[t]])
    BY <2>1 DEF GoodTable
  <2> QED
    BY <2>1, <2>2, <2>3, TableFrame
<1>3. GoodRounds'
  <2> SUFFICES ASSUME NEW m \in Matches, status'[m] = "gaming"
               PROVE  GoodRound(list'[m], wait'[m], round'[m], finished'[m], info', Occupied(seats'), fixedAllocate')
    BY DEF GoodRounds
  <2>1. GoodRound(list[m], wait[m], round[m], finished[m], info, Occupied(seats), fixedAllocate)
    BY DEF TableInv, GoodRounds
  <2>2. ToSet(list[m]) \subseteq Players
    BY MembersCount DEF MatchInv, MatchTypes
  <2>3. \A p \in ToSet(list[m]) : info'[p].count = info[p].count /\ (p \in Occupied(seats) <=> p \in Occupied(seats))
    BY <2>2
  <2>4. GoodRound(list[m], wait[m], round[m], finished[m], info', Occupied(seats), fixedAllocate)
    BY <2>1, <2>3, RoundFrame
  <2> QED
    BY <2>4
<1>4. NewcomersHaveNotPlayed'
  <2>1. \A p : InPlay(p)' <=> InPlay(p)
    BY DEF InPlay
  <2> QED
    BY <2>1 DEF TableInv, NewcomersHaveNotPlayed
<1> QED
  BY <1>1, <1>2, <1>3, <1>4 DEF TableInv

\* What dealing does to the players' records: those who are seated wait no longer, and nobody has played more.
LEMMA AllocateCounts ==
    ASSUME InfoOK, NEW m \in Matches, NEW w, AllocateRoom(m, w), NEW p \in Players
    PROVE  /\ info'[p].count = info[p].count
           /\ info'[p].waitStart = IF p \in ToSet(w) \ ToSet(Left(w)) THEN FALSE ELSE info[p].waitStart
<1> DEFINE top == TopUp(w, p, info[p])
<1>1. info'[p] = IF p \in ToSet(w) \ ToSet(Left(w)) THEN [top EXCEPT !.waitStart = FALSE] ELSE top
  BY DEF AllocateRoom, Left
<1>2. /\ top \in [count : Nat, waitStart : BOOLEAN, score : Nat]
      /\ top.count = info[p].count /\ top.waitStart = info[p].waitStart
  <2>1. info[p] \in [count : Nat, waitStart : BOOLEAN, score : Nat]
    BY DEF InfoOK
  <2>2. top = info[p] \/ top = [info[p] EXCEPT !.score = AtLeast]
    BY DEF TopUp
  <2> HIDE DEF top
  <2> QED
    BY <2>1, <2>2, MoneyAssumption
<1> HIDE DEF top
<1> QED
  BY <1>1, <1>2

\* Dealing the whole tables of w keeps every table as it should be.
LEMMA DealTables ==
    ASSUME MatchInv, TableInv, UNCHANGED fixedAllocate, NEW m \in Matches, NEW w,
           InBlocks(w, info, fixedAllocate), AllocateRoom(m, w),
           \A p \in ToSet(w) : p \notin Occupied(seats),
           status'[m] = "gaming", ToSet(w) \subseteq ToSet(list'[m]),
           \A k \in Matches : status[k] = "gaming" => status'[k] = "gaming" /\ ToSet(list[k]) \subseteq ToSet(list'[k])
    PROVE  /\ seats' \in [Tables -> SUBSET Players] /\ owner' \in [Tables -> Matches \cup {Nobody}]
           /\ phase' \in [Tables -> {"init", "play", "end"}] /\ tabs' \in [Matches -> SUBSET Tables]
           /\ Left(w) \in Seq(Players) /\ wait' = [wait EXCEPT ![m] = Left(w)]
           /\ GoodTables' /\ OwnTables' /\ TablesApart'
           /\ InBlocks(Left(w), info', fixedAllocate) /\ IsInjective(Left(w)) /\ ToSet(Left(w)) \subseteq ToSet(w)
           /\ \A p : p \in Occupied(seats') <=> p \in Occupied(seats) \/ p \in ToSet(w) \ ToSet(Left(w))
           /\ AllChairs >= Len(w) => ToSet(Left(w)) = {}
<1> DEFINE New(t) == Newcomers(m, w, t)
           left == Left(w)
<1>1. /\ seats' = [t \in Tables |-> seats[t] \cup New(t)]
      /\ owner' = [t \in Tables |-> IF New(t) # {} /\ t \notin tabs[m] THEN m ELSE owner[t]]
      /\ tabs' = [tabs EXCEPT ![m] = tabs[m] \cup {t \in Tables : New(t) # {}}]
      /\ phase' = [t \in Tables |-> IF New(t) # {} /\ Starts(Cardinality(seats[t] \cup New(t)))
                                    THEN "play" ELSE phase[t]]
      /\ wait' = [wait EXCEPT ![m] = left]
  BY DEF AllocateRoom, Left
<1>2. /\ seats \in [Tables -> SUBSET Players] /\ owner \in [Tables -> Matches \cup {Nobody}]
      /\ phase \in [Tables -> {"init", "play", "end"}] /\ tabs \in [Matches -> SUBSET Tables]
      /\ InfoOK
  BY DEF TableInv, TableTypes, MatchInv, MatchTypes
<1>0. Starts(TableSize)
  BY LayoutAssumption, DrawAssumption DEF Starts, MaxGamePlayersReached, GameTimerReadyOver
<1>3. FullOrEmpty
  BY DEF TableInv, GoodTables, GoodTable, FullOrEmpty
<1>4. PICK n \in 0 .. Len(w) :
         /\ WholeTables(w, n)
         /\ Even(fixedAllocate) => \A b \in 0 .. n - 1 : \A p, q \in Block(w, b) : info[p].count = info[q].count
  BY DEF InBlocks
<1>5. PICK k \in 0 .. n :
              /\ WholeTables(left, k) /\ \A b \in 0 .. k - 1 : Block(left, b) = Block(w, b)
              /\ \A t \in Tables : New(t) # {} =>
                    seats[t] = {} /\ \E b \in k .. n - 1 : New(t) = Block(w, b)
              /\ \A b \in k .. n - 1 : \E t \in Tables : New(t) = Block(w, b)
              /\ \A s, t \in Tables : s # t => New(s) \cap New(t) = {}
              /\ AllChairs >= Len(w) => k = 0
  BY <1>3, <1>4, Dealt
<1>6. /\ \A b \in 0 .. n - 1 : Block(w, b) \subseteq ToSet(w) /\ Cardinality(Block(w, b)) = TableSize
      /\ \A b, c \in 0 .. n - 1 : b # c => Block(w, b) \cap Block(w, c) = {}
      /\ \A p \in ToSet(w) : \E b \in 0 .. n - 1 : p \in Block(w, b)
  BY <1>4, BlocksPart
<1>7. /\ \A b \in 0 .. k - 1 : Block(left, b) \subseteq ToSet(left)
      /\ \A p \in ToSet(left) : \E b \in 0 .. k - 1 : p \in Block(left, b)
  BY <1>5, BlocksPart
<1>8. n \in Nat /\ k \in Nat /\ k <= n /\ w \in Seq(Players) /\ left \in Seq(Players) /\ ToSet(w) \subseteq Players
      /\ IsInjective(left)
  BY <1>4, <1>5, MembersCount DEF WholeTables
<1> HIDE DEF New, left
<1>9. ToSet(left) \subseteq ToSet(w)
  <2>1. \A b \in 0 .. k - 1 : b \in 0 .. n - 1
    BY <1>8
  <2> QED
    BY <1>5, <1>6, <1>7, <2>1
<1>10. \A b \in k .. n - 1 : Block(w, b) \cap ToSet(left) = {}
  <2>1. \A b \in k .. n - 1 : \A c \in 0 .. k - 1 : b \in 0 .. n - 1 /\ c \in 0 .. n - 1 /\ b # c
    BY <1>8
  <2> QED
    BY <1>5, <1>6, <1>7, <2>1
<1>11. \A t \in Tables : /\ New(t) \subseteq ToSet(w) \ ToSet(left)
                         /\ New(t) # {} => seats[t] = {} /\ Cardinality(New(t)) = TableSize
                         /\ Even(fixedAllocate) => \A p, q \in New(t) : info[p].count = info[q].count
  <2>1. \A b \in k .. n - 1 : b \in 0 .. n - 1
    BY <1>8
  <2> QED
    BY <1>4, <1>5, <1>6, <1>10, <2>1
<1>12. \A p \in ToSet(w) \ ToSet(left) : \E t \in Tables : p \in New(t)
  <2> SUFFICES ASSUME NEW p \in ToSet(w), p \notin ToSet(left) PROVE \E t \in Tables : p \in New(t)
    OBVIOUS
  <2>1. PICK b \in 0 .. n - 1 : p \in Block(w, b)
    BY <1>6
  <2>2. b \in k .. n - 1
    <3>1. ~(b \in 0 .. k - 1)
      BY <1>5, <1>7, <2>1
    <3> QED
      BY <1>8, <3>1
  <2> QED
    BY <1>5, <2>1, <2>2
<1>13. \A p \in Players : /\ info'[p].count = info[p].count
                          /\ info'[p].waitStart = IF p \in ToSet(w) \ ToSet(left) THEN FALSE ELSE info[p].waitStart
  BY <1>2, AllocateCounts DEF left
<1>14. \A t \in Tables : seats'[t] = IF New(t) = {} THEN seats[t] ELSE New(t)
  BY <1>1, <1>11
<1>15. \A p : p \in Occupied(seats') <=> p \in Occupied(seats) \/ p \in ToSet(w) \ ToSet(left)
  <2>1. \A p : p \in Occupied(seats) <=> \E t \in Tables : p \in seats[t]
    BY DEF Occupied
  <2>2. \A p : p \in Occupied(seats') <=> \E t \in Tables : p \in seats'[t]
    BY DEF Occupied
  <2>3. \A t \in Tables : seats'[t] = seats[t] \cup New(t)
    BY <1>1
  <2> QED
    BY <1>11, <1>12, <2>1, <2>2, <2>3
<1>16. TablesApart'
  <2>1. \A t \in Tables : \A p \in seats[t] : p \notin ToSet(w)
    BY DEF Occupied
  <2>2. \A s, t \in Tables : s # t => seats'[s] \cap seats'[t] = {}
    BY <1>5, <1>11, <1>14, <2>1 DEF TableInv, TablesApart
  <2> QED
    BY <2>2 DEF TablesApart
<1>17. ASSUME NEW t \in Tables
       PROVE  GoodTable(seats'[t], owner'[t], phase'[t], info', list', status', fixedAllocate')
  <2>1. GoodTable(seats[t], owner[t], phase[t], info, list, status, fixedAllocate) /\ seats[t] \subseteq Players
    BY <1>2 DEF TableInv, GoodTables
  <2>2. CASE New(t) = {}
    <3>1. seats'[t] = seats[t] /\ owner'[t] = owner[t] /\ phase'[t] = phase[t]
      BY <1>1, <2>2
    <3>2. \A p \in seats[t] : p \notin ToSet(w)
      BY DEF Occupied
    <3>3. \A p \in seats[t] : info'[p].count = info[p].count /\ info'[p].waitStart = info[p].waitStart
      BY <1>13, <2>1, <3>2
    <3>4. seats[t] # {} => status'[owner[t]] = "gaming" /\ seats[t] \subseteq ToSet(list'[owner[t]])
      BY <2>1 DEF GoodTable
    <3>5. GoodTable(seats[t], owner[t], phase[t], info', list', status', fixedAllocate')
      BY <2>1, <3>3, <3>4, TableFrame
    <3> QED
      BY <3>1, <3>5
  <2>3. CASE New(t) # {}
    <3>1. seats[t] = {} /\ phase[t] = "init" /\ Cardinality(New(t)) = TableSize
      BY <1>11, <2>1, <2>3 DEF GoodTable
    <3>2. t \notin tabs[m]
      BY <3>1 DEF TableInv, OwnTables
    <3>3. seats'[t] = New(t) /\ owner'[t] = m /\ phase'[t] = "play"
      <4>1. seats[t] \cup New(t) = New(t)
        BY <3>1
      <4> QED
        BY <1>1, <1>0, <2>3, <3>1, <3>2, <4>1
    <3>4. New(t) \subseteq ToSet(w) \ ToSet(left) /\ New(t) \subseteq Players
      BY <1>8, <1>11
    <3>5. /\ \A p \in New(t) : ~info'[p].waitStart
          /\ Even(fixedAllocate) => \A p, q \in New(t) : info'[p].count = info'[q].count
      <4>1. \A p \in New(t) : ~info'[p].waitStart
        <5> SUFFICES ASSUME NEW p \in New(t) PROVE ~info'[p].waitStart
          OBVIOUS
        <5>1. p \in Players /\ p \in ToSet(w) \ ToSet(left)
          BY <3>4
        <5>2. info'[p].waitStart = FALSE
          BY <1>13, <5>1
        <5> QED
          BY <5>2
      <4>2. \A p \in New(t) : info'[p].count = info[p].count
        BY <1>13, <3>4
      <4> QED
        BY <1>11, <4>1, <4>2
    <3>6. New(t) \subseteq ToSet(list'[m])
      BY <3>4
    <3> QED
      BY <2>3, <3>1, <3>3, <3>5, <3>6 DEF GoodTable
  <2> QED
    BY <2>2, <2>3
<1>18. OwnTables'
  <2> SUFFICES ASSUME NEW t \in Tables, NEW h \in Matches, t \in tabs'[h]
               PROVE  owner'[t] = h /\ phase'[t] = "play"
    BY DEF OwnTables
  <2>1. CASE New(t) = {}
    <3>1. t \in tabs[h] /\ owner'[t] = owner[t] /\ phase'[t] = phase[t]
      BY <1>1, <1>2, <2>1
    <3> QED
      BY <3>1 DEF TableInv, OwnTables
  <2>2. CASE New(t) # {}
    <3>1. seats[t] = {} /\ Cardinality(New(t)) = TableSize
      BY <1>11, <2>2
    <3>2. phase[t] = "init"
      BY <3>1 DEF TableInv, GoodTables, GoodTable
    <3>3. \A g \in Matches : t \notin tabs[g]
      BY <3>2 DEF TableInv, OwnTables
    <3>4. h = m
      BY <1>1, <1>2, <3>3
    <3>5. seats[t] \cup New(t) = New(t)
      BY <3>1
    <3> QED
      BY <1>1, <1>0, <2>2, <3>1, <3>3, <3>4, <3>5
  <2> QED
    BY <2>1, <2>2
<1>19. InBlocks(left, info', fixedAllocate)
  <2>1. Even(fixedAllocate) => \A b \in 0 .. k - 1 : \A p, q \in Block(left, b) : info'[p].count = info'[q].count
    <3>1. \A b \in 0 .. k - 1 : b \in 0 .. n - 1
      BY <1>8
    <3>2. \A b \in 0 .. k - 1 : Block(left, b) \subseteq Players /\ Block(left, b) = Block(w, b)
      BY <1>5, <1>7, <1>8, <1>9
    <3> QED
      BY <1>4, <1>13, <3>1, <3>2
  <2>2. k \in 0 .. Len(left)
    <3>1. Len(left) = k * TableSize /\ TableSize \in Nat \ {0}
      BY <1>5, LayoutAssumption DEF WholeTables
    <3>2. k <= k * TableSize /\ k * TableSize \in Nat
      <4>1. PICK s \in Nat : TableSize = s + 1
        <5>1. TableSize - 1 \in Nat /\ TableSize = (TableSize - 1) + 1
          BY <3>1
        <5> QED
          BY <5>1
      <4>2. k * (s + 1) = k * s + k /\ k * s \in Nat
        BY <1>8
      <4> QED
        BY <1>8, <4>1, <4>2
    <3> QED
      BY <1>8, <3>1, <3>2
  <2> QED
    BY <1>5, <2>1, <2>2 DEF InBlocks
<1>20. AllChairs >= Len(w) => ToSet(left) = {}
  <2>1. k = 0 => 0 .. k - 1 = {}
    OBVIOUS
  <2> QED
    BY <1>5, <1>7, <2>1
<1>21. /\ seats' \in [Tables -> SUBSET Players] /\ owner' \in [Tables -> Matches \cup {Nobody}]
       /\ phase' \in [Tables -> {"init", "play", "end"}] /\ tabs' \in [Matches -> SUBSET Tables]
  <2>1. seats' \in [Tables -> SUBSET Players]
    BY <1>1, <1>2, <1>8, <1>11
  <2>2. owner' \in [Tables -> Matches \cup {Nobody}]
    BY <1>1, <1>2
  <2>3. phase' \in [Tables -> {"init", "play", "end"}]
    BY <1>1, <1>2
  <2>4. tabs' \in [Matches -> SUBSET Tables]
    BY <1>1, <1>2
  <2> QED
    BY <2>1, <2>2, <2>3, <2>4
<1>22. GoodTables'
  BY <1>17 DEF GoodTables
<1> QED
  BY <1>1, <1>8, <1>9, <1>15, <1>16, <1>18, <1>19, <1>20, <1>21, <1>22 DEF left

-----------------------------------------------------------------------------
(* The actions, and the tables. *)

\* The numbers of a layout: every round begins with whole tables, and none with more players than the first.
LEMMA RoundsFillTables ==
    ASSUME NEW r \in Rounds
    PROVE  /\ PlayersIn(r) <= MaxPlayers /\ Games[r] \in Nat \ {0}
           /\ \E n \in Nat : PlayersIn(r) = n * TableSize
<1>1. /\ Rounds = 1 .. Len(Pass) /\ Len(Pass) \in Nat /\ TableSize \in Nat \ {0} /\ MaxPlayers \in Nat
      /\ MaxPlayers % TableSize = 0 /\ \A i \in Rounds : Pass[i] \in Nat /\ Pass[i] % TableSize = 0
      /\ \A i \in Rounds : Games[i] \in Nat \ {0}
  BY LayoutAssumption, LenProperties DEF Rounds
<1>2. \A i \in Rounds : PlayersIn(i) \in Nat /\ PlayersIn(i) % TableSize = 0
  <2> SUFFICES ASSUME NEW i \in Rounds PROVE PlayersIn(i) \in Nat /\ PlayersIn(i) % TableSize = 0
    OBVIOUS
  <2>1. CASE i = 1
    BY <1>1, <2>1 DEF PlayersIn
  <2>2. CASE i # 1
    <3>1. i - 1 \in Rounds
      BY <1>1, <2>2
    <3> QED
      BY <1>1, <2>2, <3>1 DEF PlayersIn
  <2> QED
    BY <2>1, <2>2
<1>3. \E n \in Nat : PlayersIn(r) = n * TableSize
  <2>1. PICK x \in Nat, s \in Nat \ {0} : x = PlayersIn(r) /\ s = TableSize
    BY <1>1, <1>2
  <2>2. x % s = 0
    BY <1>2, <2>1
  <2>3. x \div s \in Nat /\ x = (x \div s) * s + (x % s)
    OBVIOUS
  <2>4. x = (x \div s) * s
    <3>1. (x \div s) * s \in Nat
      BY <2>3
    <3> QED
      BY <2>2, <2>3, <3>1
  <2> QED
    BY <2>1, <2>3, <2>4
<1>4. PlayersIn(r) <= MaxPlayers
  <2> DEFINE bad == {i \in Rounds : ~(PlayersIn(i) <= MaxPlayers)}
  <2> SUFFICES ASSUME bad # {} PROVE FALSE
    OBVIOUS
  <2>1. IsFiniteSet(bad) /\ bad \subseteq Nat
    <3>1. IsFiniteSet(Rounds)
      BY <1>1, FS_Interval
    <3> QED
      BY <1>1, <3>1, FS_Subset
  <2>2. PICK i \in bad : \A j \in bad : i <= j
    BY <2>1, LeastNumber
  <2>3. i # 1
    BY <1>1, <2>2 DEF PlayersIn
  <2>4. i \in Rounds /\ i - 1 \in Rounds /\ i - 1 \notin bad /\ PlayersIn(i) = Pass[i - 1]
    BY <1>1, <2>2, <2>3 DEF PlayersIn
  <2>5. Pass[i - 1] < PlayersIn(i - 1) /\ PlayersIn(i - 1) <= MaxPlayers
    BY <2>4, Layout
  <2> QED
    BY <1>1, <1>2, <2>2, <2>4, <2>5
<1> QED
  BY <1>1, <1>3, <1>4

\* No list is longer than a match.
LEMMA ListsFit ==
    ASSUME MatchInv, NEW m \in Matches
    PROVE  Len(list[m]) <= MaxPlayers /\ Len(list[m]) \in Nat
<1>1. list[m] \in Seq(Players) /\ round[m] \in Rounds /\ GoodMatch(list[m], status[m], round[m], m \in used)
  BY DEF MatchInv, MatchTypes, AllGood
<1>2. Len(list[m]) \in Nat /\ PlayersIn(round[m]) <= MaxPlayers /\ MaxPlayers \in Nat
  BY <1>1, LenProperties, RoundsFillTables, Layout
<1> QED
  BY <1>1, <1>2 DEF GoodMatch

\* A list of whole tables, all of whose players have played equally often where that matters.
LEMMA EqualBlocks ==
    ASSUME NEW w \in Seq(Players), IsInjective(w), NEW n \in Nat, Len(w) = n * TableSize, NEW inf, NEW fixed,
           Even(fixed) => \A p, q \in ToSet(w) : inf[p].count = inf[q].count
    PROVE  InBlocks(w, inf, fixed)
<1>1. WholeTables(w, n)
  BY DEF WholeTables
<1>2. \A b \in 0 .. n - 1 : Block(w, b) \subseteq ToSet(w)
  BY <1>1, BlocksPart
<1>3. n \in 0 .. Len(w)
  <2>1. TableSize \in Nat \ {0}
    BY LayoutAssumption
  <2>2. PICK s \in Nat : TableSize = s + 1
    <3>1. TableSize - 1 \in Nat /\ TableSize = (TableSize - 1) + 1
      BY <2>1
    <3> QED
      BY <3>1
  <2>3. n * (s + 1) = n * s + n /\ n * s \in Nat
    OBVIOUS
  <2> QED
    BY <2>2, <2>3
<1> QED
  BY <1>1, <1>2, <1>3 DEF InBlocks

\* With enough tables, dealing leaves nobody waiting.
LEMMA NobodyLeft ==
    ASSUME MatchInv, TableInv, MatchInv', TablesSuffice, NEW m \in Matches, NEW w,
           InBlocks(w, info, fixedAllocate), \A p \in ToSet(w) : p \notin Occupied(seats), ToSet(w) \subseteq ToSet(list'[m]),
           \A k \in Matches : status[k] = "gaming" => ToSet(list[k]) \subseteq ToSet(list'[k])
    PROVE  AllChairs >= Len(w)
<1>1. PICK ls \in [Matches -> Seq(Players)] : ls = list'
  BY DEF MatchInv, MatchTypes
<1>2. \A k \in Matches : Len(ls[k]) <= MaxPlayers
  <2> SUFFICES ASSUME NEW k \in Matches PROVE Len(list'[k]) <= MaxPlayers
    BY <1>1
  <2>1. list'[k] \in Seq(Players) /\ round'[k] \in Rounds /\ GoodMatch(list'[k], status'[k], round'[k], k \in used')
    BY DEF MatchInv, MatchTypes, AllGood
  <2>2. Len(list'[k]) \in Nat /\ PlayersIn(round'[k]) <= MaxPlayers /\ MaxPlayers \in Nat
    BY <2>1, LenProperties, RoundsFillTables, Layout
  <2> QED
    BY <2>1, <2>2 DEF GoodMatch
<1>3. FullOrEmpty /\ \A s, t \in Tables : s # t => seats[s] \cap seats[t] = {}
  BY DEF TableInv, GoodTables, GoodTable, FullOrEmpty, TablesApart
<1>4. \A t \in Tables : seats[t] # {} =>
         owner[t] \in Matches /\ status[owner[t]] = "gaming" /\ seats[t] \subseteq ToSet(list[owner[t]])
  BY DEF TableInv, GoodTables, GoodTable
<1>5. \A t \in Tables : IsFiniteSet(seats[t])
  <2> SUFFICES ASSUME NEW t \in Tables, seats[t] # {} PROVE IsFiniteSet(seats[t])
    BY FS_EmptySet
  <2>1. list[owner[t]] \in Seq(Players)
    BY <1>4 DEF MatchInv, MatchTypes
  <2>2. IsFiniteSet(ToSet(list[owner[t]]))
    BY <2>1, MembersCount
  <2> QED
    BY <1>4, <2>2, FS_Subset
<1>6. \A t \in Tables : \A p \in seats[t] : p \notin ToSet(w) /\ \E k \in Matches : p \in ToSet(ls[k])
  BY <1>1, <1>4 DEF Occupied
<1>7. \A p \in ToSet(w) : \E k \in Matches : p \in ToSet(ls[k])
  BY <1>1
<1>8. PICK n : WholeTables(w, n)
  BY DEF InBlocks
<1> QED
  BY <1>2, <1>3, <1>5, <1>6, <1>7, <1>8, ChairsSuffice

\* The match is full and starts: everybody in it is dealt to a table.
LEMMA StartTables ==
    ASSUME MatchInv, TableInv, MatchInv', UNCHANGED fixedAllocate,
           NEW m \in Matches, NEW l, status[m] # "gaming", StartMatch(m, l)
    PROVE  TableInv'
<1>1. /\ status' = [status EXCEPT ![m] = "gaming"] /\ finished' = [finished EXCEPT ![m] = 0]
      /\ list' = [list EXCEPT ![m] = l] /\ AllocateRoom(m, l) /\ UNCHANGED round
  BY DEF StartMatch
<1>2. /\ status \in [Matches -> {"wait", "gaming", "end"}] /\ list \in [Matches -> Seq(Players)]
      /\ round \in [Matches -> Rounds] /\ InfoOK /\ finished \in [Matches -> 0 .. MaxPlayers]
      /\ wait \in [Matches -> Seq(Players)] /\ fixedAllocate \in BOOLEAN
  BY DEF MatchInv, MatchTypes, TableInv, TableTypes
<1>3. /\ list'[m] = l /\ status'[m] = "gaming" /\ round'[m] = round[m] /\ finished'[m] = 0
      /\ \A k \in Matches \ {m} : list'[k] = list[k] /\ status'[k] = status[k] /\ round'[k] = round[k]
                                  /\ finished'[k] = finished[k]
  BY <1>1, <1>2
<1>4. round[m] = 1 /\ round[m] \in Rounds
  BY <1>2 DEF MatchInv, AllGood, GoodMatch
<1>5. l \in Seq(Players) /\ IsInjective(l) /\ Len(l) = PlayersIn(round[m])
  <2>1. list'[m] \in Seq(Players) /\ GoodMatch(list'[m], status'[m], round'[m], m \in used')
    BY DEF MatchInv, MatchTypes, AllGood
  <2> QED
    BY <1>3, <2>1 DEF GoodMatch
<1>6. ToSet(l) \subseteq Players
  BY <1>5, MembersCount
<1>7. ASSUME NEW p \in ToSet(l), NEW k \in Matches \ {m} PROVE p \notin ToSet(list[k])
  <2>1. \A h, n \in Matches : p \in ToSet(list'[h]) /\ p \in ToSet(list'[n]) => h = n
    BY <1>6 DEF MatchInv, InOneMatch
  <2> QED
    BY <1>3, <2>1
<1>8. \A p \in ToSet(l) : ~InPlay(p)
  BY <1>7 DEF InPlay
<1>9. \A p \in ToSet(l) : info[p].count = 0 /\ p \notin Occupied(seats)
  <2>1. \A p \in ToSet(l) : info[p].count = 0
    BY <1>6, <1>8 DEF TableInv, NewcomersHaveNotPlayed
  <2>2. \A p \in Occupied(seats) : InPlay(p)
    BY SeatedPlay DEF Occupied
  <2> QED
    BY <1>8, <2>1, <2>2
<1>10. InBlocks(l, info, fixedAllocate)
  <2>1. PICK n \in Nat : PlayersIn(round[m]) = n * TableSize
    BY <1>4, RoundsFillTables
  <2>2. \A p, q \in ToSet(l) : info[p].count = info[q].count
    BY <1>9
  <2> QED
    BY <1>5, <2>1, <2>2, EqualBlocks
<1>11. \A k \in Matches : status[k] = "gaming" => status'[k] = "gaming" /\ ToSet(list[k]) \subseteq ToSet(list'[k])
  BY <1>3
<1>12. /\ seats' \in [Tables -> SUBSET Players] /\ owner' \in [Tables -> Matches \cup {Nobody}]
       /\ phase' \in [Tables -> {"init", "play", "end"}] /\ tabs' \in [Matches -> SUBSET Tables]
       /\ Left(l) \in Seq(Players) /\ wait' = [wait EXCEPT ![m] = Left(l)]
       /\ GoodTables' /\ OwnTables' /\ TablesApart'
       /\ InBlocks(Left(l), info', fixedAllocate) /\ IsInjective(Left(l)) /\ ToSet(Left(l)) \subseteq ToSet(l)
       /\ \A p : p \in Occupied(seats') <=> p \in Occupied(seats) \/ p \in ToSet(l) \ ToSet(Left(l))
       /\ AllChairs >= Len(l) => ToSet(Left(l)) = {}
  <2>1. ToSet(l) \subseteq ToSet(list'[m]) /\ status'[m] = "gaming" /\ \A p \in ToSet(l) : p \notin Occupied(seats)
    BY <1>3, <1>9
  <2> QED
    BY <1>1, <1>10, <1>11, <2>1, DealTables
<1>13. \A p \in Players : info'[p].count = info[p].count
  BY <1>1, <1>2, AllocateCounts
<1>14. TableTypes'
  <2>1. wait' \in [Matches -> Seq(Players)]
    BY <1>2, <1>12
  <2>2. finished' \in [Matches -> 0 .. MaxPlayers]
    BY <1>1, <1>2, Layout
  <2> QED
    BY <1>2, <1>12, <2>1, <2>2 DEF TableTypes
<1>15. GoodRound(l, Left(l), round[m], 0, info', Occupied(seats'), fixedAllocate)
  <2>1. \A p \in ToSet(l) : info'[p].count = 0
    BY <1>6, <1>9, <1>13
  <2>2. Finished(l, round[m], info') = {}
    <3>1. Games[round[m]] \in Nat \ {0}
      BY <1>4, RoundsFillTables
    <3> QED
      BY <2>1, <3>1 DEF Finished
  <2>3. 0 = Cardinality(Finished(l, round[m], info'))
    BY <2>2, FS_EmptySet
  <2>4. OnePlace(l, Left(l), round[m], info', Occupied(seats'))
    BY <1>9, <1>12, <2>2 DEF OnePlace
  <2>5. ~fixedAllocate /\ TablesSuffice => InStep(l, info', Occupied(seats'))
    <3> SUFFICES ASSUME TablesSuffice PROVE InStep(l, info', Occupied(seats'))
      OBVIOUS
    <3>1. AllChairs >= Len(l)
      <4>1. ToSet(l) \subseteq ToSet(list'[m]) /\ \A p \in ToSet(l) : p \notin Occupied(seats)
        BY <1>3, <1>9
      <4> QED
        BY <1>10, <1>11, <4>1, NobodyLeft
    <3>2. \A p \in ToSet(l) : p \in Occupied(seats')
      BY <1>12, <3>1
    <3> QED
      BY <2>1, <3>2 DEF InStep
  <2> QED
    BY <1>12, <2>3, <2>4, <2>5 DEF GoodRound
<1>16. GoodRounds'
  <2> SUFFICES ASSUME NEW k \in Matches, status'[k] = "gaming"
               PROVE  GoodRound(list'[k], wait'[k], round'[k], finished'[k], info', Occupied(seats'), fixedAllocate')
    BY DEF GoodRounds
  <2>1. CASE k = m
    <3>1. wait'[m] = Left(l)
      BY <1>2, <1>12
    <3> QED
      BY <1>3, <1>15, <2>1, <3>1
  <2>2. CASE k # m
    <3>1. status[k] = "gaming" /\ list'[k] = list[k] /\ round'[k] = round[k] /\ finished'[k] = finished[k]
          /\ wait'[k] = wait[k] /\ fixedAllocate' = fixedAllocate
      BY <1>2, <1>3, <1>12, <2>2
    <3>2. GoodRound(list[k], wait[k], round[k], finished[k], info, Occupied(seats), fixedAllocate)
      BY <3>1 DEF TableInv, GoodRounds
    <3>3. ToSet(list[k]) \subseteq Players
      BY <1>2, MembersCount
    <3>4. \A p \in ToSet(list[k]) : p \notin ToSet(l)
      BY <1>7, <2>2
    <3>5. \A p \in ToSet(list[k]) : info'[p].count = info[p].count /\ (p \in Occupied(seats') <=> p \in Occupied(seats))
      BY <1>12, <1>13, <3>3, <3>4
    <3>6. GoodRound(list[k], wait[k], round[k], finished[k], info', Occupied(seats'), fixedAllocate)
      BY <3>2, <3>5, RoundFrame
    <3> QED
      BY <3>1, <3>6
  <2> QED
    BY <2>1, <2>2
<1>17. NewcomersHaveNotPlayed'
  <2>1. \A p : ~InPlay(p)' => ~InPlay(p)
    BY <1>11 DEF InPlay
  <2> QED
    BY <1>13, <2>1 DEF TableInv, NewcomersHaveNotPlayed
<1> QED
  BY <1>12, <1>14, <1>16, <1>17 DEF TableInv

\* JoinMatch: the room goes on waiting, is emptied, or starts.
LEMMA JoinTables ==
    ASSUME MatchInv, TableInv, MatchInv', UNCHANGED fixedAllocate,
           NEW m \in Matches, NEW p, FindNormalSuitMatch(m), JoinMatch(m, p)
    PROVE  TableInv'
<1>1. status[m] # "gaming" /\ status \in [Matches -> {"wait", "gaming", "end"}] /\ list \in [Matches -> Seq(Players)]
  BY FoundWaits DEF MatchInv, MatchTypes
<1>2. ASSUME NEW l, list' = [list EXCEPT ![m] = l], status' = TakenStatus(m),
             UNCHANGED <<wait, tabs, round, finished, info, table>>
      PROVE  TableInv'
  <2>1. UNCHANGED <<seats, owner, phase, tabs, wait, finished, fixedAllocate, info, round>>
    BY <1>2 DEF table
  <2>2. /\ \A k \in Matches : status'[k] = "gaming" <=> status[k] = "gaming"
        /\ \A k \in Matches : status[k] = "gaming" => list'[k] = list[k] /\ round'[k] = round[k]
    BY <1>1, <1>2, <2>1 DEF TakenStatus
  <2>3. /\ \A q \in Players : info'[q].count = info[q].count
        /\ \A q \in Players : InPlay(q) => info'[q].waitStart = info[q].waitStart
    BY <2>1
  <2> QED
    BY <2>1, <2>2, <2>3, QuietStep
<1>3. ASSUME NEW l, StartMatch(m, l) PROVE TableInv'
  BY <1>1, <1>3, StartTables
<1> QED
  BY <1>2, <1>3 DEF JoinMatch, clearAllUser

\* The message cmd_enter_match.
LEMMA EnterTables ==
    ASSUME MatchInv, TableInv, MatchInv', NEW u \in Users, NEW m \in Matches, cmd_enter_match(u, m)
    PROVE  TableInv'
<1>1. FindNormalSuitMatch(m) /\ UNCHANGED fixedAllocate
  BY DEF cmd_enter_match, config
<1>2. status[m] # "gaming" /\ status \in [Matches -> {"wait", "gaming", "end"}]
  BY <1>1, FoundWaits DEF MatchInv, MatchTypes
<1>3. CASE status' = TakenStatus(m) /\ UNCHANGED <<list, wait, tabs, round, finished, info, table>>
  <2>1. UNCHANGED <<seats, owner, phase, tabs, wait, finished, fixedAllocate, info, round, list>>
    BY <1>1, <1>3 DEF table
  <2>2. /\ \A k \in Matches : status'[k] = "gaming" <=> status[k] = "gaming"
        /\ \A k \in Matches : status[k] = "gaming" => list'[k] = list[k] /\ round'[k] = round[k]
    BY <1>2, <1>3, <2>1 DEF TakenStatus
  <2>3. /\ \A q \in Players : info'[q].count = info[q].count
        /\ \A q \in Players : InPlay(q) => info'[q].waitStart = info[q].waitStart
    BY <2>1
  <2> QED
    BY <2>1, <2>2, <2>3, QuietStep
<1>4. CASE JoinMatch(m, u)
  BY <1>1, <1>4, JoinTables
<1> QED
  BY <1>3, <1>4 DEF cmd_enter_match

\* The android timer.
LEMMA TimerTables ==
    ASSUME MatchInv, TableInv, MatchInv', NEW m \in Matches, OnTimerCheckUserIn(m)
    PROVE  TableInv'
<1>1. FindNormalSuitMatch(m) /\ UNCHANGED fixedAllocate
  BY DEF OnTimerCheckUserIn, config
<1>2. status[m] # "gaming" /\ status \in [Matches -> {"wait", "gaming", "end"}]
  BY <1>1, FoundWaits DEF MatchInv, MatchTypes
<1>3. CASE status' = TakenStatus(m) /\ UNCHANGED <<list, wait, tabs, round, finished, info, table>>
  <2>1. UNCHANGED <<seats, owner, phase, tabs, wait, finished, fixedAllocate, info, round, list>>
    BY <1>1, <1>3 DEF table
  <2>2. /\ \A k \in Matches : status'[k] = "gaming" <=> status[k] = "gaming"
        /\ \A k \in Matches : status[k] = "gaming" => list'[k] = list[k] /\ round'[k] = round[k]
    BY <1>2, <1>3, <2>1 DEF TakenStatus
  <2>3. /\ \A q \in Players : info'[q].count = info[q].count
        /\ \A q \in Players : InPlay(q) => info'[q].waitStart = info[q].waitStart
    BY <2>1
  <2> QED
    BY <2>1, <2>2, <2>3, QuietStep
<1>4. ASSUME NEW a, JoinMatch(m, a) PROVE TableInv'
  BY <1>1, <1>4, JoinTables
<1> QED
  BY <1>3, <1>4 DEF OnTimerCheckUserIn

\* A player gives up waiting.
LEMMA LeftTables ==
    ASSUME MatchInv, TableInv, NEW u \in Users, NEW m \in Matches, LeftMatch(u, m)
    PROVE  TableInv'
<1>1. /\ UNCHANGED <<seats, owner, phase, tabs, wait, finished, fixedAllocate, round, status>>
      /\ u \in ToSet(list[m]) /\ status[m] # "gaming" /\ info' = [info EXCEPT ![u] = NoInfo]
      /\ list' = [list EXCEPT ![m] = RemoveAt(list[m], Index(list[m], u))]
  BY DEF LeftMatch, table, config
<1>2. \A k \in Matches : status[k] = "gaming" => list'[k] = list[k] /\ round'[k] = round[k]
  BY <1>1 DEF MatchInv, MatchTypes
<1>3. u \in Players /\ info \in [Players -> [count : Nat, waitStart : BOOLEAN, score : Nat]]
  BY DEF Players, MatchInv, MatchTypes, InfoOK
<1>4. ~InPlay(u)
  BY <1>1, <1>3 DEF InPlay, MatchInv, InOneMatch
<1>5. info[u].count = 0 /\ NoInfo.count = 0
  BY <1>3, <1>4 DEF TableInv, NewcomersHaveNotPlayed, NoInfo
<1>6. \A p \in Players : info'[p].count = info[p].count
  BY <1>1, <1>3, <1>5
<1>7. \A p \in Players : InPlay(p) => info'[p].waitStart = info[p].waitStart
  BY <1>1, <1>3, <1>4
<1> QED
  BY <1>1, <1>2, <1>6, <1>7, QuietStep

\* The players in w, who waited, are dealt for their next game.
LEMMA DealTwice ==
    ASSUME MatchInv, TableInv, MatchInv', UNCHANGED <<status, round, finished, fixedAllocate>>,
           NEW m \in Matches, NEW w, status[m] = "gaming",
           InBlocks(w, info, fixedAllocate), ToSet(w) = ToSet(wait[m]),
           ~fixedAllocate => ToSet(w) = ToSet(list[m]),
           AllocateRoom(m, w), list' = [list EXCEPT ![m] = SortUser(list[m])]
    PROVE  TableInv'
<1>1. /\ status \in [Matches -> {"wait", "gaming", "end"}] /\ list \in [Matches -> Seq(Players)]
      /\ round \in [Matches -> Rounds] /\ InfoOK /\ finished \in [Matches -> 0 .. MaxPlayers]
      /\ wait \in [Matches -> Seq(Players)] /\ fixedAllocate \in BOOLEAN
  BY DEF MatchInv, MatchTypes, TableInv, TableTypes
<1>2. PICK l, k : l = list[m] /\ k = SortUser(list[m])
  OBVIOUS
<1>3. /\ l \in Seq(Players) /\ IsInjective(l) /\ ToSet(k) = ToSet(l) /\ ToSet(l) \subseteq Players
  <2>1. l \in Seq(Players) /\ IsInjective(l)
    BY <1>1, <1>2 DEF MatchInv, AllGood, GoodMatch
  <2> QED
    BY <1>1, <1>2, <2>1, SortPermutes, MembersCount
<1>4. list'[m] = k /\ \A h \in Matches \ {m} : list'[h] = list[h]
  BY <1>1, <1>2
<1>5. GoodRound(l, wait[m], round[m], finished[m], info, Occupied(seats), fixedAllocate)
  BY <1>2 DEF TableInv, GoodRounds
<1>6. ToSet(w) \subseteq ToSet(l) /\ \A p \in ToSet(w) : p \notin Occupied(seats)
  BY <1>5 DEF GoodRound, OnePlace
<1>7. \A h \in Matches : status[h] = "gaming" => status'[h] = "gaming" /\ ToSet(list[h]) \subseteq ToSet(list'[h])
  BY <1>2, <1>3, <1>4
<1>8. ToSet(w) \subseteq ToSet(list'[m]) /\ status'[m] = "gaming"
  BY <1>3, <1>4, <1>6
<1>9. /\ seats' \in [Tables -> SUBSET Players] /\ owner' \in [Tables -> Matches \cup {Nobody}]
      /\ phase' \in [Tables -> {"init", "play", "end"}] /\ tabs' \in [Matches -> SUBSET Tables]
      /\ Left(w) \in Seq(Players) /\ wait' = [wait EXCEPT ![m] = Left(w)]
      /\ GoodTables' /\ OwnTables' /\ TablesApart'
      /\ InBlocks(Left(w), info', fixedAllocate) /\ IsInjective(Left(w)) /\ ToSet(Left(w)) \subseteq ToSet(w)
      /\ \A p : p \in Occupied(seats') <=> p \in Occupied(seats) \/ p \in ToSet(w) \ ToSet(Left(w))
      /\ AllChairs >= Len(w) => ToSet(Left(w)) = {}
  BY <1>6, <1>7, <1>8, DealTables
<1>10. \A p \in Players : info'[p].count = info[p].count
  BY <1>1, AllocateCounts
<1>11. TableTypes'
  <2>1. wait' \in [Matches -> Seq(Players)] /\ finished' \in [Matches -> 0 .. MaxPlayers]
    BY <1>1, <1>9
  <2> QED
    BY <1>1, <1>9, <2>1 DEF TableTypes
<1>12. GoodRound(k, Left(w), round[m], finished[m], info', Occupied(seats'), fixedAllocate)
  <2>1. Finished(k, round[m], info') = Finished(l, round[m], info)
    BY <1>3, <1>10 DEF Finished
  <2>2. OnePlace(k, Left(w), round[m], info', Occupied(seats'))
    BY <1>3, <1>5, <1>9, <2>1 DEF GoodRound, OnePlace
  <2>3. ~fixedAllocate /\ TablesSuffice => InStep(k, info', Occupied(seats'))
    <3> SUFFICES ASSUME ~fixedAllocate, TablesSuffice PROVE InStep(k, info', Occupied(seats'))
      OBVIOUS
    <3>1. AllChairs >= Len(w)
      BY <1>6, <1>7, <1>8, NobodyLeft
    <3>2. \A p \in ToSet(k) : p \in Occupied(seats') /\ p \notin Occupied(seats)
      BY <1>2, <1>3, <1>6, <1>9, <3>1
    <3>3. \A p, q \in ToSet(k) : info[p].count = info[q].count
      BY <1>3, <1>5, <3>2 DEF GoodRound, InStep
    <3>4. \A p, q \in ToSet(k) : info'[p].count = info'[q].count
      BY <1>3, <1>10, <3>3
    <3> QED
      BY <3>2, <3>4 DEF InStep
  <2> QED
    BY <1>5, <1>9, <2>1, <2>2, <2>3 DEF GoodRound
<1>13. GoodRounds'
  <2> SUFFICES ASSUME NEW h \in Matches, status'[h] = "gaming"
               PROVE  GoodRound(list'[h], wait'[h], round'[h], finished'[h], info', Occupied(seats'), fixedAllocate')
    BY DEF GoodRounds
  <2>1. CASE h = m
    <3>1. wait'[m] = Left(w)
      BY <1>1, <1>9
    <3> QED
      BY <1>4, <1>12, <2>1, <3>1
  <2>2. CASE h # m
    <3>1. status[h] = "gaming" /\ list'[h] = list[h] /\ wait'[h] = wait[h]
      BY <1>1, <1>4, <1>9, <2>2
    <3>2. GoodRound(list[h], wait[h], round[h], finished[h], info, Occupied(seats), fixedAllocate)
      BY <3>1 DEF TableInv, GoodRounds
    <3>3. ToSet(list[h]) \subseteq Players
      BY <1>1, MembersCount
    <3>4. \A p \in ToSet(list[h]) : p \notin ToSet(w)
      BY <1>2, <1>6, <2>2, <3>3 DEF MatchInv, InOneMatch
    <3>5. \A p \in ToSet(list[h]) : info'[p].count = info[p].count /\ (p \in Occupied(seats') <=> p \in Occupied(seats))
      BY <1>9, <1>10, <3>3, <3>4
    <3>6. GoodRound(list[h], wait[h], round[h], finished[h], info', Occupied(seats'), fixedAllocate)
      BY <3>2, <3>5, RoundFrame
    <3> QED
      BY <3>1, <3>6
  <2> QED
    BY <2>1, <2>2
<1>14. NewcomersHaveNotPlayed'
  <2>1. \A p : ~InPlay(p)' => ~InPlay(p)
    BY <1>7 DEF InPlay
  <2> QED
    BY <1>10, <2>1 DEF TableInv, NewcomersHaveNotPlayed
<1> QED
  BY <1>9, <1>11, <1>13, <1>14 DEF TableInv

\* The next games of the round.
LEMMA DealAgainTables ==
    ASSUME MatchInv, TableInv, MatchInv', NEW m \in Matches, DealAgain(m)
    PROVE  TableInv'
<1>1. /\ status[m] = "gaming" /\ UNCHANGED <<status, round, finished, fixedAllocate>>
      /\ list' = [list EXCEPT ![m] = SortUser(list[m])]
  <2>1. list' = [list EXCEPT ![m] = SortUser(list[m])]
    BY DEF DealAgain
  <2> QED
    BY <2>1 DEF DealAgain, config
<1>2. GoodRound(list[m], wait[m], round[m], finished[m], info, Occupied(seats), fixedAllocate)
  BY <1>1 DEF TableInv, GoodRounds
<1>3. CASE fixedAllocate /\ AllocateRoom(m, wait[m])
  <2>1. InBlocks(wait[m], info, fixedAllocate) /\ ToSet(wait[m]) = ToSet(wait[m])
        /\ (~fixedAllocate => ToSet(wait[m]) = ToSet(list[m]))
    BY <1>2, <1>3 DEF GoodRound, Even
  <2> QED
    BY <1>1, <1>3, <2>1, DealTwice
<1>4. ASSUME ~fixedAllocate, Len(list[m]) = Len(wait[m]), NEW w \in SetToSeqs(ToSet(wait[m])), AllocateRoom(m, w)
      PROVE  TableInv'
  <2>1. PICK v, l : v = wait[m] /\ l = list[m]
    OBVIOUS
  <2>2. PICK n \in Nat : Len(v) = n * TableSize
    <3>1. Len(l) = PlayersIn(round[m]) /\ round[m] \in Rounds
      BY <1>1, <2>1 DEF MatchInv, MatchTypes, AllGood, GoodMatch
    <3> QED
      BY <1>4, <2>1, <3>1, RoundsFillTables
  <2>3. /\ v \in Seq(Players) /\ IsInjective(v) /\ l \in Seq(Players) /\ IsInjective(l)
        /\ ToSet(v) \subseteq ToSet(l)
    BY <1>2, <2>1 DEF MatchInv, MatchTypes, AllGood, GoodMatch, GoodRound, OnePlace
  <2>4. /\ IsFiniteSet(ToSet(v)) /\ ToSet(v) \subseteq Players /\ Cardinality(ToSet(v)) = Len(v)
        /\ IsFiniteSet(ToSet(l)) /\ Cardinality(ToSet(l)) = Len(l)
    BY <2>3, MembersCount
  <2>5. ToSet(v) = ToSet(l)
    <3>1. Cardinality(ToSet(v)) = Cardinality(ToSet(l))
      BY <1>4, <2>1, <2>4
    <3> QED
      BY <2>3, <2>4, <3>1, FS_Subset
  <2>6. w \in Seq(Players) /\ Len(w) = n * TableSize /\ IsInjective(w) /\ ToSet(w) = ToSet(v)
    <3>1. w \in SetToSeqs(ToSet(v))
      BY <1>4, <2>1
    <3>2. w \in Seq(Players) /\ Len(w) = Cardinality(ToSet(v)) /\ IsInjective(w) /\ ToSet(w) = ToSet(v)
      BY <2>4, <3>1, OrdersOfSet
    <3> QED
      BY <2>2, <2>4, <3>2
  <2>7. Even(fixedAllocate) => \A p, q \in ToSet(w) : info[p].count = info[q].count
    <3>1. \A p \in ToSet(l) : p \notin Occupied(seats)
      BY <1>2, <2>1, <2>5 DEF GoodRound, OnePlace
    <3> QED
      BY <1>2, <1>4, <2>1, <2>5, <2>6, <3>1 DEF GoodRound, InStep, Even
  <2>8. InBlocks(w, info, fixedAllocate)
    BY <2>6, <2>7, EqualBlocks
  <2>9. ToSet(w) = ToSet(wait[m]) /\ ToSet(w) = ToSet(list[m])
    BY <2>1, <2>5, <2>6
  <2> QED
    BY <1>1, <1>4, <2>8, <2>9, DealTwice
<1> QED
  BY <1>3, <1>4 DEF DealAgain

\* The round is over: its players are at no table, and those who pass begin the next together.
LEMMA EndTables ==
    ASSUME MatchInv, TableInv, MatchInv', NEW m \in Matches, EndRound(m)
    PROVE  TableInv'
<1>1. PICK l : l = SortUser(list[m])
  OBVIOUS
<1>2. PICK r, pass : r = round[m] /\ pass = Pass[r]
  OBVIOUS
<1>3. PICK stay, out : stay = SubSeq(l, 1, pass) /\ out = {l[i] : i \in pass + 1 .. Len(l)}
  OBVIOUS
<1>4. /\ status[m] = "gaming" /\ RoundOver(m)
      /\ info' = [p \in Players |-> IF p \in out THEN NoInfo
                                    ELSE IF p \in ToSet(stay) THEN [info[p] EXCEPT !.count = 0]
                                    ELSE info[p]]
      /\ \/ /\ pass = 0 /\ status' = [status EXCEPT ![m] = "end"]
            /\ round' = [round EXCEPT ![m] = 1] /\ list' = [list EXCEPT ![m] = <<>>]
            /\ wait' = [wait EXCEPT ![m] = <<>>] /\ tabs' = [tabs EXCEPT ![m] = {}] /\ UNCHANGED finished
         \/ /\ pass > 0 /\ round' = [round EXCEPT ![m] = r + 1] /\ list' = [list EXCEPT ![m] = stay]
            /\ finished' = [finished EXCEPT ![m] = 0] /\ wait' = [wait EXCEPT ![m] = stay]
            /\ UNCHANGED <<status, tabs>>
      /\ UNCHANGED <<seats, owner, phase, fixedAllocate>>
  BY <1>1, <1>2, <1>3 DEF EndRound, table, config
<1>5. /\ status \in [Matches -> {"wait", "gaming", "end"}] /\ list \in [Matches -> Seq(Players)]
      /\ round \in [Matches -> Rounds] /\ info \in [Players -> [count : Nat, waitStart : BOOLEAN, score : Nat]]
      /\ finished \in [Matches -> 0 .. MaxPlayers]
      /\ wait \in [Matches -> Seq(Players)] /\ tabs \in [Matches -> SUBSET Tables]
  BY DEF MatchInv, MatchTypes, InfoOK, TableInv, TableTypes
<1>6. GoodMatch(list[m], "gaming", r, m \in used) /\ IsInjective(list[m]) /\ list[m] \in Seq(Players) /\ r \in Rounds
  BY <1>2, <1>4, <1>5 DEF MatchInv, AllGood, GoodMatch
<1>7. l \in Seq(Players) /\ ToSet(l) = ToSet(list[m]) /\ IsInjective(l) /\ Len(l) = PlayersIn(r)
  <2>1. InfoOK
    BY DEF MatchInv, MatchTypes
  <2>2. GoodMatch(l, "gaming", r, m \in used)
    BY <1>1, <1>6, <2>1, SortKeepsGood
  <2> QED
    BY <1>1, <1>6, <2>1, <2>2, SortPermutes DEF GoodMatch
<1>8. pass \in Nat /\ pass <= Len(l) /\ Len(l) \in Nat
  <2>1. Len(l) \in Nat
    BY <1>7, LenProperties
  <2>2. Pass[r] \in Nat /\ Pass[r] < PlayersIn(r)
    BY <1>6, Layout
  <2> QED
    BY <1>2, <1>7, <2>1, <2>2
<1>9. stay \in Seq(Players) /\ Len(stay) = pass /\ ToSet(stay) = ToSet(l) \ out /\ IsInjective(stay)
  BY <1>3, <1>7, <1>8, CutMembers
<1>10. out \subseteq ToSet(l) /\ ToSet(l) \subseteq Players
  <2>1. \A i \in pass + 1 .. Len(l) : i \in DOMAIN l
    BY <1>7, <1>8, LenProperties
  <2>2. out \subseteq ToSet(l)
    BY <1>3, <2>1 DEF ToSet
  <2> QED
    BY <1>7, <2>2, MembersCount
<1>11. /\ \A p \in ToSet(l) : info'[p].count = 0
       /\ \A p \in Players \ ToSet(l) : info'[p] = info[p]
  BY <1>4, <1>5, <1>9, <1>10 DEF NoInfo
<1>12. \A p \in ToSet(l) : p \notin Occupied(seats)
  <2>1. GoodRound(list[m], wait[m], r, finished[m], info, Occupied(seats), fixedAllocate)
    BY <1>2, <1>4 DEF TableInv, GoodRounds
  <2>2. Finished(list[m], r, info) \subseteq ToSet(list[m])
    BY DEF Finished
  <2>3. Cardinality(Finished(list[m], r, info)) = Cardinality(ToSet(list[m])) /\ IsFiniteSet(ToSet(list[m]))
    BY <1>4, <1>6, <2>1, MembersCount DEF RoundOver, GoodRound
  <2>4. Finished(list[m], r, info) = ToSet(list[m])
    BY <2>2, <2>3, FS_Subset
  <2> QED
    BY <1>7, <2>1, <2>4 DEF GoodRound, OnePlace
<1>13. \A t \in Tables : seats[t] # {} => owner[t] # m
  <2> SUFFICES ASSUME NEW t \in Tables, NEW p \in seats[t], owner[t] = m PROVE FALSE
    OBVIOUS
  <2>1. p \in ToSet(l)
    BY <1>7 DEF TableInv, GoodTables, GoodTable
  <2> QED
    BY <1>12, <2>1 DEF Occupied
<1>14. \A k \in Matches \ {m} : /\ status'[k] = status[k] /\ list'[k] = list[k] /\ round'[k] = round[k]
                                /\ wait'[k] = wait[k] /\ finished'[k] = finished[k]
  BY <1>4, <1>5
<1>15. TableTypes'
  <2>1. <<>> \in Seq(Players) /\ 0 \in 0 .. MaxPlayers
    BY EmptyList, Layout
  <2>2. wait' \in [Matches -> Seq(Players)]
    BY <1>4, <1>5, <1>9, <2>1
  <2>3. tabs' \in [Matches -> SUBSET Tables]
    BY <1>4, <1>5
  <2>4. finished' \in [Matches -> 0 .. MaxPlayers]
    BY <1>4, <1>5, <2>1
  <2> QED
    BY <1>4, <2>2, <2>3, <2>4 DEF TableInv, TableTypes
<1>16. GoodTables'
  <2> SUFFICES ASSUME NEW t \in Tables
               PROVE  GoodTable(seats[t], owner[t], phase[t], info', list', status', fixedAllocate)
    BY <1>4 DEF GoodTables
  <2>1. GoodTable(seats[t], owner[t], phase[t], info, list, status, fixedAllocate) /\ seats[t] \subseteq Players
    BY DEF TableInv, GoodTables, TableTypes
  <2>2. \A p \in seats[t] : info'[p].count = info[p].count /\ info'[p].waitStart = info[p].waitStart
    <3>1. \A p \in seats[t] : p \in Players \ ToSet(l)
      BY <1>12, <2>1 DEF Occupied
    <3> QED
      BY <1>11, <3>1
  <2>3. seats[t] # {} => status'[owner[t]] = "gaming" /\ seats[t] \subseteq ToSet(list'[owner[t]])
    BY <1>13, <1>14, <2>1 DEF GoodTable
  <2> QED
    BY <2>1, <2>2, <2>3, TableFrame
<1>17. OwnTables' /\ TablesApart'
  <2>1. \A k \in Matches : tabs'[k] \subseteq tabs[k]
    BY <1>4, <1>5
  <2> QED
    BY <1>4, <2>1 DEF TableInv, OwnTables, TablesApart
<1>18. pass > 0 => GoodRound(stay, stay, r + 1, 0, info', Occupied(seats), fixedAllocate)
  <2> SUFFICES ASSUME pass > 0
               PROVE  GoodRound(stay, stay, r + 1, 0, info', Occupied(seats), fixedAllocate)
    OBVIOUS
  <2>1. r + 1 \in Rounds /\ PlayersIn(r + 1) = pass
    BY <1>2, <1>6, Layout
  <2>2. PICK n \in Nat : pass = n * TableSize
    BY <2>1, RoundsFillTables
  <2>3. \A p \in ToSet(stay) : info'[p].count = 0 /\ p \notin Occupied(seats)
    BY <1>9, <1>11, <1>12
  <2>4. InBlocks(stay, info', fixedAllocate)
    BY <1>9, <2>2, <2>3, EqualBlocks
  <2>5. Finished(stay, r + 1, info') = {}
    <3>1. Games[r + 1] \in Nat \ {0}
      BY <2>1, RoundsFillTables
    <3> QED
      BY <2>3, <3>1 DEF Finished
  <2>6. OnePlace(stay, stay, r + 1, info', Occupied(seats))
    BY <2>3, <2>5 DEF OnePlace
  <2>7. InStep(stay, info', Occupied(seats))
    BY <2>3 DEF InStep
  <2> QED
    BY <1>9, <2>4, <2>5, <2>6, <2>7, FS_EmptySet DEF GoodRound
<1>19. GoodRounds'
  <2> SUFFICES ASSUME NEW h \in Matches, status'[h] = "gaming"
               PROVE  GoodRound(list'[h], wait'[h], round'[h], finished'[h], info', Occupied(seats'), fixedAllocate')
    BY DEF GoodRounds
  <2>1. CASE h = m
    <3>1. pass > 0 /\ list'[m] = stay /\ wait'[m] = stay /\ round'[m] = r + 1 /\ finished'[m] = 0
      BY <1>4, <1>5, <2>1
    <3> QED
      BY <1>4, <1>18, <2>1, <3>1
  <2>2. CASE h # m
    <3>1. GoodRound(list[h], wait[h], round[h], finished[h], info, Occupied(seats), fixedAllocate)
      BY <1>14, <2>2 DEF TableInv, GoodRounds
    <3>2. ToSet(list[h]) \subseteq Players
      BY <1>5, MembersCount
    <3>3. \A p \in ToSet(list[h]) : p \in Players \ ToSet(l)
      BY <1>7, <2>2, <3>2 DEF MatchInv, InOneMatch
    <3>4. \A p \in ToSet(list[h]) : info'[p].count = info[p].count /\ (p \in Occupied(seats) <=> p \in Occupied(seats))
      BY <1>11, <3>3
    <3>5. GoodRound(list[h], wait[h], round[h], finished[h], info', Occupied(seats), fixedAllocate)
      BY <3>1, <3>4, RoundFrame
    <3> QED
      BY <1>4, <1>14, <2>2, <3>5
  <2> QED
    BY <2>1, <2>2
<1>20. NewcomersHaveNotPlayed'
  <2> SUFFICES ASSUME NEW p \in Players, ~InPlay(p)', p \notin ToSet(l) PROVE info'[p].count = 0
    BY <1>11 DEF NewcomersHaveNotPlayed
  <2>1. ~InPlay(p)
    BY <1>7, <1>14 DEF InPlay
  <2> QED
    BY <1>11, <2>1 DEF TableInv, NewcomersHaveNotPlayed
<1> QED
  BY <1>15, <1>16, <1>17, <1>19, <1>20 DEF TableInv

\* A game is over: the players stay in their chairs, the table is no longer one of the match's.
LEMMA ConcludeTables ==
    ASSUME MatchInv, TableInv, NEW t \in Tables, OnEventGameConclude(t)
    PROVE  TableInv'
<1>1. /\ phase[t] = "play" /\ phase' = [phase EXCEPT ![t] = "end"]
      /\ tabs' = [tabs EXCEPT ![owner[t]] = tabs[owner[t]] \ {t}]
      /\ UNCHANGED <<status, list, wait, round, finished, seats, owner, fixedAllocate>>
  <2>1. tabs' = [tabs EXCEPT ![owner[t]] = tabs[owner[t]] \ {t}]
    BY DEF OnEventGameConclude
  <2> QED
    BY <2>1 DEF OnEventGameConclude, config
<1>2. info \in [Players -> [count : Nat, waitStart : BOOLEAN, score : Nat]] /\ Scores \subseteq Nat
  BY MoneyAssumption DEF MatchInv, MatchTypes, InfoOK
<1>3. \A p \in Players : info'[p].count = info[p].count /\ info'[p].waitStart = info[p].waitStart
  <2>1. PICK result : info' = [p \in Players |-> IF p \in seats[t] THEN [info[p] EXCEPT !.score = result[p]]
                                                                   ELSE info[p]]
    BY DEF OnEventGameConclude
  <2> QED
    BY <1>2, <2>1
<1>4. /\ phase \in [Tables -> {"init", "play", "end"}] /\ tabs \in [Matches -> SUBSET Tables]
      /\ seats \in [Tables -> SUBSET Players]
  BY DEF TableInv, TableTypes
<1>5. TableTypes'
  <2>1. phase' \in [Tables -> {"init", "play", "end"}] /\ tabs' \in [Matches -> SUBSET Tables]
    BY <1>1, <1>4
  <2> QED
    BY <1>1, <2>1 DEF TableInv, TableTypes
<1>6. GoodTables'
  <2> SUFFICES ASSUME NEW s \in Tables
               PROVE  GoodTable(seats[s], owner[s], phase'[s], info', list', status', fixedAllocate)
    BY <1>1 DEF GoodTables
  <2>1. GoodTable(seats[s], owner[s], phase[s], info, list, status, fixedAllocate)
    BY DEF TableInv, GoodTables
  <2>2. GoodTable(seats[s], owner[s], phase'[s], info, list, status, fixedAllocate)
    BY <1>1, <1>4, <2>1 DEF GoodTable
  <2>3. \A p \in seats[s] : info'[p].count = info[p].count /\ info'[p].waitStart = info[p].waitStart
    BY <1>3, <1>4
  <2>4. seats[s] # {} => status'[owner[s]] = "gaming" /\ seats[s] \subseteq ToSet(list'[owner[s]])
    BY <1>1, <2>1 DEF GoodTable
  <2> QED
    BY <2>2, <2>3, <2>4, TableFrame
<1>7. OwnTables' /\ TablesApart'
  <2>1. TablesApart'
    BY <1>1 DEF TableInv, TablesApart
  <2>2. ASSUME NEW s \in Tables, NEW m \in Matches, s \in tabs'[m] PROVE owner[s] = m /\ phase'[s] = "play"
    <3>1. s \in tabs[m]
      BY <1>1, <1>4, <2>2
    <3>2. owner[s] = m /\ phase[s] = "play"
      BY <3>1 DEF TableInv, OwnTables
    <3>3. s # t
      BY <1>1, <1>4, <2>2, <3>2
    <3> QED
      BY <1>1, <1>4, <3>2, <3>3
  <2> QED
    BY <1>1, <2>1, <2>2 DEF OwnTables
<1>8. GoodRounds'
  <2> SUFFICES ASSUME NEW h \in Matches, status[h] = "gaming"
               PROVE  GoodRound(list[h], wait[h], round[h], finished[h], info', Occupied(seats), fixedAllocate)
    BY <1>1 DEF GoodRounds
  <2>1. GoodRound(list[h], wait[h], round[h], finished[h], info, Occupied(seats), fixedAllocate)
    BY DEF TableInv, GoodRounds
  <2>2. ToSet(list[h]) \subseteq Players
    BY MembersCount DEF MatchInv, MatchTypes
  <2>3. \A p \in ToSet(list[h]) : info'[p].count = info[p].count /\ (p \in Occupied(seats) <=> p \in Occupied(seats))
    BY <1>3, <2>2
  <2> QED
    BY <2>1, <2>3, RoundFrame
<1>9. NewcomersHaveNotPlayed'
  <2>1. \A p : InPlay(p)' <=> InPlay(p)
    BY <1>1 DEF InPlay
  <2> QED
    BY <1>3, <2>1 DEF TableInv, NewcomersHaveNotPlayed
<1> QED
  BY <1>5, <1>6, <1>7, <1>8, <1>9 DEF TableInv

\* The players st of a table come back, with one more game played: what their match knows of the others.
LEMMA BackInStep ==
    ASSUME NEW l, NEW inf, NEW S, NEW inf2, NEW S2, NEW st, st \subseteq ToSet(l), st \subseteq S, st # {},
           InStep(l, inf, S), \A p \in ToSet(l) : inf[p].count \in Nat,
           \A p \in ToSet(l) : inf2[p].count = IF p \in st THEN inf[p].count + 1 ELSE inf[p].count,
           \A p \in ToSet(l) : p \in S2 <=> p \in S /\ p \notin st
    PROVE  InStep(l, inf2, S2)
<1>1. PICK x \in st : TRUE
  OBVIOUS
<1>2. PICK c \in Nat : c = inf[x].count
  BY <1>1
<1>3. \A p \in ToSet(l) : inf[p].count = IF p \in S THEN c ELSE c + 1
  BY <1>1, <1>2 DEF InStep
<1>4. \A p \in ToSet(l) : inf2[p].count = IF p \in S2 THEN c ELSE c + 1
  BY <1>3
<1> QED
  BY <1>4 DEF InStep

\* One list of players after another.
LEMMA JoinedLists ==
    ASSUME NEW w \in Seq(Players), NEW v \in Seq(Players), IsInjective(w), IsInjective(v), ToSet(v) \cap ToSet(w) = {}
    PROVE  w \o v \in Seq(Players) /\ IsInjective(w \o v) /\ ToSet(w \o v) = ToSet(w) \cup ToSet(v)
<1>1. PICK c \in Nat, d \in Nat : c = Len(w) /\ d = Len(v)
  BY LenProperties
<1>2. PICK x : x = w \o v
  OBVIOUS
<1>3. /\ x \in Seq(Players) /\ Len(x) = c + d /\ DOMAIN x = 1 .. c + d /\ DOMAIN w = 1 .. c /\ DOMAIN v = 1 .. d
      /\ \A i \in 1 .. c + d : x[i] = IF i <= c THEN w[i] ELSE v[i - c]
  BY <1>1, <1>2, ConcatProperties, LenProperties
<1>4. ToSet(w) = {w[i] : i \in 1 .. c} /\ ToSet(v) = {v[i] : i \in 1 .. d} /\ ToSet(x) = {x[i] : i \in 1 .. c + d}
  BY <1>3 DEF ToSet
<1>5. /\ \A i \in 1 .. c + d : i <= c => i \in 1 .. c
      /\ \A i \in 1 .. c + d : ~(i <= c) => i - c \in 1 .. d
      /\ \A i \in 1 .. c : i \in 1 .. c + d /\ i <= c
      /\ \A i \in 1 .. d : c + i \in 1 .. c + d /\ ~(c + i <= c) /\ (c + i) - c = i
  OBVIOUS
<1>6. ToSet(x) = ToSet(w) \cup ToSet(v)
  <2>1. ToSet(x) \subseteq ToSet(w) \cup ToSet(v)
    BY <1>3, <1>4, <1>5
  <2>2. ToSet(w) \subseteq ToSet(x)
    BY <1>3, <1>4, <1>5
  <2>3. ToSet(v) \subseteq ToSet(x)
    <3> SUFFICES ASSUME NEW i \in 1 .. d PROVE v[i] \in ToSet(x)
      BY <1>4
    <3>1. x[c + i] = v[i] /\ c + i \in 1 .. c + d
      BY <1>3, <1>5
    <3> QED
      BY <1>4, <3>1
  <2> QED
    BY <2>1, <2>2, <2>3
<1>7. IsInjective(x)
  <2> SUFFICES ASSUME NEW i \in 1 .. c + d, NEW j \in 1 .. c + d, x[i] = x[j] PROVE i = j
    BY <1>3 DEF IsInjective
  <2>1. /\ \A a, b \in 1 .. c : w[a] = w[b] => a = b
        /\ \A a, b \in 1 .. d : v[a] = v[b] => a = b
        /\ \A a \in 1 .. c, b \in 1 .. d : w[a] # v[b]
    <3>1. \A a, b \in 1 .. c : w[a] = w[b] => a = b
      BY <1>3 DEF IsInjective
    <3>2. \A a, b \in 1 .. d : v[a] = v[b] => a = b
      BY <1>3 DEF IsInjective
    <3>3. \A a \in 1 .. c, b \in 1 .. d : w[a] # v[b]
      <4> SUFFICES ASSUME NEW a \in 1 .. c, NEW b \in 1 .. d, w[a] = v[b] PROVE FALSE
        OBVIOUS
      <4>1. w[a] \in ToSet(w) /\ v[b] \in ToSet(v)
        BY <1>4
      <4> QED
        BY <4>1
    <3> QED
      BY <3>1, <3>2, <3>3
  <2>2. CASE i <= c /\ j <= c
    BY <1>3, <1>5, <2>1, <2>2
  <2>3. CASE ~(i <= c) /\ ~(j <= c)
    BY <1>3, <1>5, <2>1, <2>3
  <2>4. CASE (i <= c /\ ~(j <= c)) \/ (~(i <= c) /\ j <= c)
    BY <1>3, <1>5, <2>1, <2>4
  <2> QED
    BY <2>2, <2>3, <2>4
<1> QED
  BY <1>2, <1>3, <1>6, <1>7

\* Those who play in step and have games left wait again as a block.
LEMMA BackInBlocks ==
    ASSUME NEW l, NEW w, NEW inf, NEW fixed, Even(fixed), InBlocks(w, inf, fixed), ToSet(w) \subseteq ToSet(l),
           NEW inf2, NEW st, Cardinality(st) = TableSize, st \cap ToSet(w) = {}, st \subseteq ToSet(l),
           \A p \in ToSet(l) : inf2[p].count = IF p \in st THEN inf[p].count + 1 ELSE inf[p].count,
           \A p, q \in st : inf[p].count = inf[q].count,
           NEW chairs \in Seq(Players), IsInjective(chairs),
           (ToSet(chairs) = st /\ Len(chairs) = TableSize) \/ (ToSet(chairs) = {} /\ Len(chairs) = 0)
    PROVE  InBlocks(w \o chairs, inf2, fixed)
<1>1. PICK n \in 0 .. Len(w) : /\ WholeTables(w, n)
                               /\ \A b \in 0 .. n - 1 : \A p, q \in Block(w, b) : inf[p].count = inf[q].count
  BY DEF InBlocks
<1>2. \A b \in 0 .. n - 1 : Block(w, b) \subseteq ToSet(w)
  BY <1>1, BlocksPart
<1>3. \A p \in ToSet(w) : inf2[p].count = inf[p].count
  OBVIOUS
<1>4. \A b \in 0 .. n - 1 : \A p, q \in Block(w, b) : inf2[p].count = inf2[q].count
  BY <1>1, <1>2, <1>3
<1>5. CASE ToSet(chairs) = {} /\ Len(chairs) = 0
  <2>1. w \o chairs = w
    BY <1>1, <1>5, ConcatEmptySeq, EmptySeq DEF WholeTables
  <2> QED
    BY <1>1, <1>4, <2>1 DEF InBlocks
<1>6. CASE ToSet(chairs) = st /\ Len(chairs) = TableSize
  <2>1. PICK x : x = w \o chairs
    OBVIOUS
  <2>2. /\ WholeTables(x, n + 1) /\ Block(x, n) = st
        /\ \A b \in 0 .. n - 1 : Block(x, b) = Block(w, b)
    BY <1>1, <1>6, <2>1, BlocksAppend
  <2>3. n \in Nat /\ \A b \in 0 .. (n + 1) - 1 : b \in 0 .. n - 1 \/ b = n
    BY <1>1 DEF WholeTables
  <2>4. \A p, q \in Block(x, n) : inf2[p].count = inf2[q].count
    BY <2>2
  <2>5. \A b \in 0 .. (n + 1) - 1 : \A p, q \in Block(x, b) : inf2[p].count = inf2[q].count
    BY <1>4, <2>2, <2>3, <2>4
  <2>6. n + 1 \in 0 .. Len(x)
    <3>1. TableSize \in Nat \ {0} /\ Len(x) = (n + 1) * TableSize
      BY <2>2, LayoutAssumption DEF WholeTables
    <3>2. PICK s \in Nat : TableSize = s + 1
      <4>1. TableSize - 1 \in Nat /\ TableSize = (TableSize - 1) + 1
        BY <3>1
      <4> QED
        BY <4>1
    <3>3. PICK k \in Nat : k = n + 1
      BY <2>3
    <3>4. k * (s + 1) = k * s + k /\ k * s \in Nat
      OBVIOUS
    <3>5. Len(x) = k * s + k
      BY <3>1, <3>2, <3>3, <3>4
    <3> QED
      BY <3>3, <3>4, <3>5
  <2> QED
    BY <2>1, <2>2, <2>5, <2>6 DEF InBlocks
<1> QED
  BY <1>5, <1>6

\* The players st of a table of the list l have played a game of round r and left it: inf and S
\* become inf2 and S2, and those in again have games left.
Played(l, r, inf, S, inf2, S2, st, again, fixed) ==
    /\ st \subseteq ToSet(l) /\ st \subseteq S /\ st # {} /\ Cardinality(st) = TableSize
    /\ ToSet(l) \subseteq Players /\ IsFiniteSet(ToSet(l)) /\ Games[r] \in Nat
    /\ \A p \in ToSet(l) : inf[p].count \in Nat
    /\ \A p \in ToSet(l) : inf2[p].count = IF p \in st THEN inf[p].count + 1 ELSE inf[p].count
    /\ \A p \in ToSet(l) : p \in S2 <=> p \in S /\ p \notin st
    /\ Even(fixed) => \A p, q \in st : inf[p].count = inf[q].count
    /\ again \subseteq st
    /\ \A p \in st : p \in again <=> inf[p].count + 1 < Games[r]

\* Those in again wait, the others are counted as done.
LEMMA BackFromTable ==
    ASSUME NEW l, NEW w, NEW r, NEW fin, NEW inf, NEW S, NEW fixed, GoodRound(l, w, r, fin, inf, S, fixed),
           NEW inf2, NEW S2, NEW st, NEW again, Played(l, r, inf, S, inf2, S2, st, again, fixed),
           NEW chairs \in SetToSeqs(again)
    PROVE  /\ GoodRound(l, w \o chairs, r, fin + Cardinality(st \ again), inf2, S2, fixed)
           /\ w \o chairs \in Seq(Players) /\ fin + Cardinality(st \ again) <= Cardinality(ToSet(l))
<1> USE DEF Played
<1>1. again \subseteq Players /\ IsFiniteSet(again) /\ IsFiniteSet(st \ again)
  BY FS_Subset
<1>2. /\ chairs \in Seq(Players) /\ Len(chairs) = Cardinality(again) /\ IsInjective(chairs) /\ ToSet(chairs) = again
  BY <1>1, OrdersOfSet
<1>3. w \in Seq(Players) /\ IsInjective(w) /\ ToSet(w) \subseteq ToSet(l) /\ st \cap ToSet(w) = {}
  BY DEF GoodRound, OnePlace
<1>4. PICK x : x = w \o chairs
  OBVIOUS
<1>5. x \in Seq(Players) /\ IsInjective(x) /\ ToSet(x) = ToSet(w) \cup again
  <2>1. ToSet(chairs) \cap ToSet(w) = {}
    BY <1>2, <1>3
  <2> QED
    BY <1>2, <1>3, <1>4, <2>1, JoinedLists
<1>6. PICK done, more : done = Finished(l, r, inf) /\ more = Finished(l, r, inf2)
  OBVIOUS
<1>7. /\ done \subseteq ToSet(l) /\ more \subseteq ToSet(l) /\ more = done \cup (st \ again)
      /\ done \cap (st \ again) = {}
  <2>1. \A p \in st : ~(p \in done)
    BY <1>6 DEF GoodRound, OnePlace
  <2>2. \A p \in st : p \in more <=> p \notin again
    BY <1>6 DEF Finished
  <2>3. \A p \in ToSet(l) \ st : p \in more <=> p \in done
    BY <1>6 DEF Finished
  <2>4. done \subseteq ToSet(l) /\ more \subseteq ToSet(l)
    BY <1>6 DEF Finished
  <2> QED
    BY <2>1, <2>2, <2>3, <2>4
<1>8. IsFiniteSet(done) /\ Cardinality(more) <= Cardinality(ToSet(l))
  BY <1>7, FS_Subset
<1>9. Cardinality(more) = fin + Cardinality(st \ again)
  <2>1. Cardinality(done \cup (st \ again)) =
            Cardinality(done) + Cardinality(st \ again) - Cardinality(done \cap (st \ again))
    BY <1>1, <1>8, FS_Union
  <2>2. Cardinality(done \cap (st \ again)) = 0
    BY <1>7, FS_EmptySet
  <2>3. Cardinality(done) = fin /\ Cardinality(done) \in Nat /\ Cardinality(st \ again) \in Nat
    BY <1>1, <1>6, <1>8, FS_CardinalityType DEF GoodRound
  <2> QED
    BY <1>7, <2>1, <2>2, <2>3
<1>10. OnePlace(l, x, r, inf2, S2)
  BY <1>3, <1>5, <1>6, <1>7 DEF GoodRound, OnePlace
<1>11. Even(fixed) => InBlocks(x, inf2, fixed)
  <2> SUFFICES ASSUME Even(fixed) PROVE InBlocks(w \o chairs, inf2, fixed)
    BY <1>4
  <2>1. InBlocks(w, inf, fixed)
    BY DEF GoodRound
  <2>2. again = st \/ again = {}
    OBVIOUS
  <2>3. (ToSet(chairs) = st /\ Len(chairs) = TableSize) \/ (ToSet(chairs) = {} /\ Len(chairs) = 0)
    BY <1>2, <2>2, FS_EmptySet
  <2> QED
    BY <1>2, <1>3, <2>1, <2>3, BackInBlocks
<1>12. ~fixed /\ TablesSuffice => InStep(l, inf2, S2)
  BY BackInStep DEF GoodRound
<1> QED
  BY <1>4, <1>5, <1>6, <1>8, <1>9, <1>10, <1>11, <1>12 DEF GoodRound

\* The players of a table stand up together.
LEMMA TimerEndTables ==
    ASSUME MatchInv, TableInv, NEW t \in Tables, GameTimerEnd(t)
    PROVE  TableInv'
<1>1. PICK m, st : m = owner[t] /\ st = seats[t]
  OBVIOUS
<1>2. /\ status \in [Matches -> {"wait", "gaming", "end"}] /\ list \in [Matches -> Seq(Players)]
      /\ round \in [Matches -> Rounds] /\ info \in [Players -> [count : Nat, waitStart : BOOLEAN, score : Nat]]
      /\ finished \in [Matches -> 0 .. MaxPlayers] /\ wait \in [Matches -> Seq(Players)]
      /\ seats \in [Tables -> SUBSET Players] /\ phase \in [Tables -> {"init", "play", "end"}]
  BY DEF MatchInv, MatchTypes, InfoOK, TableInv, TableTypes
<1>3. phase[t] = "end"
  BY DEF GameTimerEnd
<1>4. /\ st # {} /\ m \in Matches /\ status[m] = "gaming" /\ st \subseteq ToSet(list[m]) /\ Cardinality(st) = TableSize
      /\ Even(fixedAllocate) => \A p, q \in st : info[p].count = info[q].count
  BY <1>1, <1>3 DEF TableInv, GoodTables, GoodTable
<1>5. \A p \in st : ~info[p].waitStart
  BY <1>1 DEF TableInv, GoodTables, GoodTable
<1>6. PICK l, r : l = list[m] /\ r = round[m]
  OBVIOUS
<1>7. /\ l \in Seq(Players) /\ r \in Rounds /\ ToSet(l) \subseteq Players /\ IsFiniteSet(ToSet(l))
      /\ Cardinality(ToSet(l)) <= MaxPlayers /\ Games[r] \in Nat /\ st \subseteq ToSet(l)
  <2>1. l \in Seq(Players) /\ r \in Rounds /\ IsInjective(l)
    BY <1>2, <1>4, <1>6 DEF MatchInv, AllGood, GoodMatch
  <2>2. Games[r] \in Nat
    BY <2>1, RoundsFillTables
  <2> QED
    BY <1>4, <1>6, <2>1, <2>2, MembersCount, ListsFit
<1>8. {p \in seats[t] : p \in ToSet(list[owner[t]]) /\ ~info[p].waitStart} = st
  BY <1>1, <1>4, <1>5
<1>9. PICK again : again = {p \in st : UserOutTable(m, p).again}
  OBVIOUS
<1>10. /\ \E chairs \in SetToSeqs(again) : wait' = [wait EXCEPT ![m] = wait[m] \o chairs]
       /\ finished' = [finished EXCEPT ![m] = finished[m] + Cardinality(st \ again)]
       /\ info' = [p \in Players |-> IF p \in st THEN UserOutTable(m, p).played ELSE info[p]]
       /\ seats' = [seats EXCEPT ![t] = {}]
       /\ phase' = [phase EXCEPT ![t] = "init"]
       /\ UNCHANGED <<status, list, tabs, round, owner, fixedAllocate>>
  <2>1. /\ \E chairs \in SetToSeqs(again) : wait' = [wait EXCEPT ![m] = @ \o chairs]
        /\ finished' = [finished EXCEPT ![m] = @ + Cardinality(st \ again)]
        /\ info' = [p \in Players |-> IF p \in st THEN UserOutTable(m, p).played ELSE info[p]]
    BY <1>1, <1>8, <1>9 DEF GameTimerEnd
  <2> QED
    BY <1>1, <2>1 DEF GameTimerEnd, config
<1>11. \A p \in Players : info'[p].count = IF p \in st THEN info[p].count + 1 ELSE info[p].count
  BY <1>2, <1>10 DEF UserOutTable
<1>12. \A p \in Players \ st : info'[p].waitStart = info[p].waitStart
  BY <1>10
<1>13. \A p \in st : p \in again <=> info[p].count + 1 < Games[r]
  BY <1>6, <1>9 DEF UserOutTable
<1>14. PICK S, S2 : S = Occupied(seats) /\ S2 = Occupied(seats')
  OBVIOUS
<1>15. st \subseteq S /\ \A p : p \in S2 <=> p \in S /\ p \notin st
  <2>1. \A s \in Tables : s # t => seats[s] \cap st = {}
    BY <1>1 DEF TableInv, TablesApart
  <2>2. \A s \in Tables : seats'[s] = IF s = t THEN {} ELSE seats[s]
    BY <1>2, <1>10
  <2> QED
    BY <1>1, <1>14, <2>1, <2>2 DEF Occupied
<1>16. PICK w, fin : w = wait[m] /\ fin = finished[m]
  OBVIOUS
<1>17. GoodRound(l, w, r, fin, info, S, fixedAllocate) /\ fin \in Nat /\ w \in Seq(Players)
  BY <1>2, <1>4, <1>6, <1>14, <1>16 DEF TableInv, GoodRounds
<1>18. /\ \A p \in ToSet(l) : info[p].count \in Nat
       /\ \A p \in ToSet(l) : info'[p].count = IF p \in st THEN info[p].count + 1 ELSE info[p].count
       /\ \A p \in ToSet(l) : p \in S2 <=> p \in S /\ p \notin st
  BY <1>2, <1>7, <1>11, <1>15
<1>19. /\ GoodRound(l, wait'[m], r, finished'[m], info', S2, fixedAllocate)
       /\ wait' \in [Matches -> Seq(Players)] /\ \A k \in Matches \ {m} : wait'[k] = wait[k]
       /\ finished' \in [Matches -> 0 .. MaxPlayers] /\ \A k \in Matches \ {m} : finished'[k] = finished[k]
  <2>1. PICK chairs \in SetToSeqs(again) : wait' = [wait EXCEPT ![m] = w \o chairs]
    BY <1>10, <1>16
  <2>2. wait'[m] = w \o chairs /\ \A k \in Matches \ {m} : wait'[k] = wait[k] /\ finished'[k] = finished[k]
    BY <1>2, <1>4, <1>10, <2>1
  <2>3. finished' = [finished EXCEPT ![m] = fin + Cardinality(st \ again)]
        /\ finished'[m] = fin + Cardinality(st \ again)
    BY <1>2, <1>4, <1>10, <1>16
  <2>4. /\ GoodRound(l, w \o chairs, r, fin + Cardinality(st \ again), info', S2, fixedAllocate)
        /\ w \o chairs \in Seq(Players) /\ fin + Cardinality(st \ again) <= Cardinality(ToSet(l))
    <3>1. PICK inf2 : inf2 = info'
      OBVIOUS
    <3>2. \A p \in ToSet(l) : inf2[p].count = IF p \in st THEN info[p].count + 1 ELSE info[p].count
      BY <1>18, <3>1
    <3>3. again \subseteq st
      BY <1>9
    <3>4. PICK fx, inf : fx = fixedAllocate /\ inf = info
      OBVIOUS
    <3>5. GoodRound(l, w, r, fin, inf, S, fx) /\ Played(l, r, inf, S, inf2, S2, st, again, fx)
      BY <1>4, <1>7, <1>13, <1>15, <1>17, <1>18, <3>2, <3>3, <3>4 DEF Played
    <3>6. /\ GoodRound(l, w \o chairs, r, fin + Cardinality(st \ again), inf2, S2, fx)
          /\ w \o chairs \in Seq(Players) /\ fin + Cardinality(st \ again) <= Cardinality(ToSet(l))
      BY <3>5, BackFromTable
    <3> QED
      BY <3>1, <3>4, <3>6
  <2>5. fin + Cardinality(st \ again) \in 0 .. MaxPlayers
    <3>1. Cardinality(ToSet(l)) \in Nat /\ MaxPlayers \in Nat
      BY <1>7, FS_CardinalityType, LayoutAssumption
    <3>2. Cardinality(st \ again) \in Nat
      BY <1>7, FS_Subset, FS_CardinalityType
    <3> QED
      BY <1>7, <1>17, <2>4, <3>1, <3>2
  <2> QED
    BY <1>2, <2>1, <2>2, <2>3, <2>4, <2>5
<1>20. TableTypes'
  <2>1. seats' \in [Tables -> SUBSET Players] /\ phase' \in [Tables -> {"init", "play", "end"}]
    BY <1>2, <1>10
  <2> QED
    BY <1>10, <1>19, <2>1 DEF TableInv, TableTypes
<1>21. \A s \in Tables \ {t} : seats'[s] = seats[s] /\ phase'[s] = phase[s] /\ seats[s] \cap st = {}
  BY <1>1, <1>2, <1>10 DEF TableInv, TablesApart
<1>22. seats'[t] = {} /\ phase'[t] = "init"
  BY <1>2, <1>10
<1>23. GoodTables'
  <2> SUFFICES ASSUME NEW s \in Tables
               PROVE  GoodTable(seats'[s], owner'[s], phase'[s], info', list', status', fixedAllocate')
    BY DEF GoodTables
  <2>1. CASE s = t
    BY <1>22, <2>1 DEF GoodTable
  <2>2. CASE s # t
    <3>1. GoodTable(seats[s], owner[s], phase[s], info, list, status, fixedAllocate) /\ seats[s] \subseteq Players
      BY <1>2 DEF TableInv, GoodTables
    <3>2. \A p \in seats[s] : p \in Players \ st
      BY <1>21, <2>2, <3>1
    <3>3. \A p \in seats[s] : info'[p].count = info[p].count
      BY <1>11, <3>2
    <3>4. \A p \in seats[s] : info'[p].count = info[p].count /\ info'[p].waitStart = info[p].waitStart
      BY <1>12, <3>2, <3>3
    <3>5. seats[s] # {} => status'[owner[s]] = "gaming" /\ seats[s] \subseteq ToSet(list'[owner[s]])
      BY <1>10, <3>1 DEF GoodTable
    <3>6. GoodTable(seats[s], owner[s], phase[s], info', list', status', fixedAllocate)
      BY <3>1, <3>4, <3>5, TableFrame
    <3> QED
      BY <1>10, <1>21, <2>2, <3>6
  <2> QED
    BY <2>1, <2>2
<1>24. OwnTables' /\ TablesApart'
  <2>1. \A k \in Matches : t \notin tabs[k]
    BY <1>3 DEF TableInv, OwnTables
  <2>2. OwnTables'
    BY <1>10, <1>21, <2>1 DEF TableInv, OwnTables
  <2>3. TablesApart'
    BY <1>21, <1>22 DEF TableInv, TablesApart
  <2> QED
    BY <2>2, <2>3
<1>25. GoodRounds'
  <2> SUFFICES ASSUME NEW h \in Matches, status[h] = "gaming"
               PROVE  GoodRound(list[h], wait'[h], round[h], finished'[h], info', S2, fixedAllocate)
    BY <1>10, <1>14 DEF GoodRounds
  <2>1. CASE h = m
    BY <1>6, <1>19, <2>1
  <2>2. CASE h # m
    <3>1. GoodRound(list[h], wait[h], round[h], finished[h], info, S, fixedAllocate)
      BY <1>14 DEF TableInv, GoodRounds
    <3>2. ToSet(list[h]) \subseteq Players
      BY <1>2, MembersCount
    <3>3. \A p \in ToSet(list[h]) : p \in Players /\ p \notin st
      BY <1>4, <2>2, <3>2 DEF MatchInv, InOneMatch
    <3>4. \A p \in ToSet(list[h]) : info'[p].count = info[p].count /\ (p \in S2 <=> p \in S)
      BY <1>11, <1>15, <3>3
    <3>5. GoodRound(list[h], wait[h], round[h], finished[h], info', S2, fixedAllocate)
      BY <3>1, <3>4, RoundFrame
    <3> QED
      BY <1>19, <2>2, <3>5
  <2> QED
    BY <2>1, <2>2
<1>26. NewcomersHaveNotPlayed'
  <2> SUFFICES ASSUME NEW p \in Players, ~InPlay(p)' PROVE info'[p].count = 0
    BY DEF NewcomersHaveNotPlayed
  <2>1. ~InPlay(p)
    BY <1>10 DEF InPlay
  <2>2. p \notin st
    BY <1>4, <2>1 DEF InPlay
  <2> QED
    BY <1>11, <2>1, <2>2 DEF TableInv, NewcomersHaveNotPlayed
<1> QED
  BY <1>20, <1>23, <1>24, <1>25, <1>26 DEF TableInv

\* What happens to the clock and in the hall leaves the tables alone.
LEMMA OthersTables ==
    ASSUME MatchInv, TableInv,
           \/ \E u \in Users : GrantMatch(u) \/ EnterRefused(u) \/ CooldownExpires(u)
           \/ openMatchTimer
           \/ UNCHANGED vars
    PROVE  TableInv'
<1>1. UNCHANGED <<seats, owner, phase, tabs, wait, finished, fixedAllocate, status, list, round, info>>
  BY DEF GrantMatch, EnterRefused, CooldownExpires, openMatchTimer, vars, room, table, config
<1>2. /\ \A k \in Matches : status'[k] = "gaming" <=> status[k] = "gaming"
      /\ \A k \in Matches : status[k] = "gaming" => list'[k] = list[k] /\ round'[k] = round[k]
      /\ \A p \in Players : info'[p].count = info[p].count
      /\ \A p \in Players : InPlay(p) => info'[p].waitStart = info[p].waitStart
  BY <1>1
<1> QED
  BY <1>1, <1>2, QuietStep

\* Nobody has sat down yet.
LEMMA TableInit == Init => TableInv
<1> SUFFICES ASSUME Init PROVE TableInv
  OBVIOUS
<1>1. TableTypes
  BY EmptyList, Layout DEF Init, TableTypes
<1>2. GoodTables /\ OwnTables /\ TablesApart
  BY DEF Init, GoodTables, GoodTable, OwnTables, TablesApart
<1>3. GoodRounds /\ NewcomersHaveNotPlayed
  BY DEF Init, GoodRounds, NewcomersHaveNotPlayed, NoInfo
<1> QED
  BY <1>1, <1>2, <1>3 DEF TableInv

\* The remaining types, and the configuration, which no step changes.
RestTypes ==
    /\ cooldown \in [Users -> BOOLEAN] /\ canJoin \in BOOLEAN
    /\ entries \in [Users -> 0 .. MaxEntries]

\* Every step keeps the types of what is neither matches, money nor tables, and the way players are dealt.
LEMMA RestNext ==
    ASSUME RestTypes, [Next]_vars
    PROVE  RestTypes' /\ UNCHANGED fixedAllocate
<1>1. ASSUME NEW u \in Users, GrantMatch(u) PROVE RestTypes' /\ UNCHANGED fixedAllocate
  <2>1. entries[u] + 1 \in 0 .. MaxEntries
    BY <1>1, MoneyAssumption DEF RestTypes, GrantMatch
  <2>2. entries' = [entries EXCEPT ![u] = entries[u] + 1] /\ UNCHANGED <<cooldown, canJoin, fixedAllocate>>
    BY <1>1 DEF GrantMatch
  <2> QED
    BY <2>1, <2>2 DEF RestTypes
<1>2. ASSUME NEW u \in Users, EnterRefused(u) PROVE RestTypes' /\ UNCHANGED fixedAllocate
  BY <1>2 DEF RestTypes, EnterRefused, config
<1>3. ASSUME NEW u \in Users, CooldownExpires(u) PROVE RestTypes' /\ UNCHANGED fixedAllocate
  BY <1>3 DEF RestTypes, CooldownExpires, config
<1>4. ASSUME NEW u \in Users, NEW m \in Matches, cmd_enter_match(u, m) PROVE RestTypes' /\ UNCHANGED fixedAllocate
  BY <1>4 DEF RestTypes, cmd_enter_match, config
<1>5. ASSUME NEW u \in Users, NEW m \in Matches, LeftMatch(u, m) PROVE RestTypes' /\ UNCHANGED fixedAllocate
  BY <1>5 DEF RestTypes, LeftMatch, config
<1>6. ASSUME NEW m \in Matches, OnTimerCheckUserIn(m) PROVE RestTypes' /\ UNCHANGED fixedAllocate
  BY <1>6 DEF RestTypes, OnTimerCheckUserIn, config, redis
<1>7. ASSUME NEW m \in Matches, AllocateUser(m) PROVE RestTypes' /\ UNCHANGED fixedAllocate
  BY <1>7 DEF RestTypes, AllocateUser, EndRound, DealAgain, config, redis
<1>8. ASSUME NEW t \in Tables, OnEventGameConclude(t) \/ GameTimerEnd(t) PROVE RestTypes' /\ UNCHANGED fixedAllocate
  BY <1>8 DEF RestTypes, OnEventGameConclude, GameTimerEnd, config, redis
<1>9. CASE openMatchTimer
  BY <1>9 DEF RestTypes, openMatchTimer, config, redis
<1>10. CASE UNCHANGED vars
  BY <1>10 DEF RestTypes, vars, config, redis
<1> QED
  BY <1>1, <1>2, <1>3, <1>4, <1>5, <1>6, <1>7, <1>8, <1>9, <1>10 DEF Next

\* Every step keeps the tables as they should be.
LEMMA TableNext ==
    ASSUME MatchInv, TableInv, [Next]_vars
    PROVE  TableInv'
<1>1. MatchInv'
  BY MatchNext
<1> QED
  BY <1>1, EnterTables, LeftTables, TimerTables, EndTables, DealAgainTables, ConcludeTables, TimerEndTables,
     OthersTables DEF Next, AllocateUser

\* All of it together.
DealtInv == MoneyInv /\ RestTypes /\ TableInv

\* The invariant of the matches, the money and the tables.
LEMMA DealtInvariant == Spec => []DealtInv
<1>1. Init => DealtInv
  <2>1. Init => RestTypes
    <3> SUFFICES ASSUME Init PROVE RestTypes
      OBVIOUS
    <3>1. canJoin \in {TRUE, ~HasOpenTimes} /\ HasOpenTimes \in BOOLEAN
      BY NamesAssumption DEF Init
    <3>2. canJoin \in BOOLEAN
      BY <3>1, Zenon
    <3>3. cooldown \in [Users -> BOOLEAN] /\ entries \in [Users -> 0 .. MaxEntries]
      BY MoneyAssumption DEF Init
    <3> QED
      BY <3>2, <3>3 DEF RestTypes
  <2> QED
    BY <2>1, MoneyInit, TableInit DEF DealtInv
<1>2. DealtInv /\ [Next]_vars => DealtInv'
  <2> SUFFICES ASSUME DealtInv, [Next]_vars PROVE DealtInv'
    OBVIOUS
  <2>1. MoneyInv' /\ RestTypes'
    BY MoneyNext, RestNext DEF DealtInv
  <2>2. TableInv'
    BY TableNext DEF DealtInv, MoneyInv
  <2> QED
    BY <2>1, <2>2 DEF DealtInv
<1> QED
  BY <1>1, <1>2, PTL DEF Spec

-----------------------------------------------------------------------------
(* The theorems about the tables. *)

\* In every layout, with any number of matches and of tables, and however players are dealt, a table serves one
\* match at a time and holds only players of the match it reports to (getSuitTable, TableFinish).
THEOREM TablesServeOneMatch == Spec => []OneMatchPerTable
<1>1. DealtInv => OneMatchPerTable
  BY DEF DealtInv, TableInv, GoodTables, GoodTable, OwnTables, OneMatchPerTable
<1> QED
  BY <1>1, DealtInvariant, PTL

\* Those at one table have played equally often, so that they finish the round together (UserOutTable, AllocateRoom),
\* if players are dealt in fixed groups or there are tables for all matches.  Dealt at random with too few tables,
\* those who got none are mixed with those who have played.
THEOREM TablesPlayInStep == Spec => [](fixedAllocate \/ TablesSuffice => InStepAtTable)
<1>1. DealtInv => (fixedAllocate \/ TablesSuffice => InStepAtTable)
  BY DEF DealtInv, TableInv, GoodTables, GoodTable, InStepAtTable, Even
<1> QED
  BY <1>1, DealtInvariant, PTL

\* However players are dealt, each player of a match that is played is at a table, waiting or done, and
\* m_cur_round_finish_count counts those who are done, each once (UserOutTable, AllocateUser).
THEOREM EveryPlayerIsSomewhere == Spec => []NobodyIsLost
<1>1. DealtInv => NobodyIsLost
  <2> SUFFICES ASSUME MatchInv, TableInv PROVE NobodyIsLost
    BY DEF DealtInv, MoneyInv
  <2> SUFFICES ASSUME NEW m \in Matches, status[m] = "gaming"
               PROVE  LET all == ToSet(list[m])
                          seated == UNION {seats[t] : t \in {t \in Tables : owner[t] = m}}
                          waiting == ToSet(wait[m])
                          done == {p \in all : info[p].count >= Games[round[m]]}
                      IN  /\ Len(list[m]) = Cardinality(all) /\ Len(wait[m]) = Cardinality(waiting)
                          /\ seated \cup waiting \cup done = all
                          /\ seated \cap waiting = {} /\ seated \cap done = {} /\ waiting \cap done = {}
                          /\ finished[m] = Cardinality(done)
    BY DEF NobodyIsLost
  <2>1. PICK seated, done : /\ seated = UNION {seats[t] : t \in {t \in Tables : owner[t] = m}}
                            /\ done = Finished(list[m], round[m], info)
    OBVIOUS
  <2>2. GoodRound(list[m], wait[m], round[m], finished[m], info, Occupied(seats), fixedAllocate)
    BY DEF TableInv, GoodRounds
  <2>3. Len(list[m]) = Cardinality(ToSet(list[m])) /\ ToSet(list[m]) \subseteq Players
    BY MembersCount DEF MatchInv, MatchTypes, AllGood, GoodMatch
  <2>4. Len(wait[m]) = Cardinality(ToSet(wait[m]))
    <3>1. wait[m] \in Seq(Players) /\ IsInjective(wait[m])
      BY <2>2 DEF GoodRound
    <3> QED
      BY <3>1, MembersCount
  <2>5. seated \subseteq ToSet(list[m]) /\ \A p \in ToSet(list[m]) : p \in seated <=> p \in Occupied(seats)
    <3>1. \A t \in Tables : seats[t] # {} => owner[t] \in Matches /\ seats[t] \subseteq ToSet(list[owner[t]])
      BY DEF TableInv, GoodTables, GoodTable
    <3>2. \A t \in Tables : \A p \in seats[t] : p \in ToSet(list[m]) => owner[t] = m
      BY <2>3, <3>1 DEF MatchInv, InOneMatch
    <3> QED
      BY <2>1, <3>1, <3>2 DEF Occupied
  <2>6. done \subseteq ToSet(list[m]) /\ done = {p \in ToSet(list[m]) : info[p].count >= Games[round[m]]}
    BY <2>1 DEF Finished
  <2>7. /\ seated \cup ToSet(wait[m]) \cup done = ToSet(list[m])
        /\ seated \cap ToSet(wait[m]) = {} /\ seated \cap done = {} /\ ToSet(wait[m]) \cap done = {}
    BY <2>1, <2>2, <2>5, <2>6 DEF GoodRound, OnePlace
  <2>8. finished[m] = Cardinality(done)
    BY <2>1, <2>2 DEF GoodRound
  <2> QED
    BY <2>1, <2>3, <2>4, <2>6, <2>7, <2>8
<1> QED
  BY <1>1, DealtInvariant, PTL

\* Every variable keeps its type: m_cur_round_finish_count never exceeds the players of a match, and only fees the
\* account can pay are taken.
THEOREM MatchTypeOK == Spec => []TypeOK
<1>1. DealtInv => TypeOK
  BY DEF DealtInv, MoneyInv, MatchInv, MatchTypes, MoneyTypes, InfoOK, TableInv, TableTypes, RestTypes, TypeOK
<1> QED
  BY <1>1, DealtInvariant, PTL
=============================================================================
