-------------------------- MODULE SettlementProofs --------------------------
(***************************************************************************)
(* The money of a round for every number of players, every score, call, bet *)
(* and hand: SmallForSmall, BetsAreCovered and BooksBalance.               *)
(*                                                                         *)
(* The banker's balance is the difference of the two totals the loop of    *)
(* NormalGameEnd adds up, so that what is shared is less than what it is   *)
(* shared by, and no share is larger than what it was cut from.  Each      *)
(* division cuts off less than one, so that the shares fall short of the   *)
(* whole by less than their number.                                        *)
(***************************************************************************)
EXTENDS Settlement, SumTheorems, FiniteSetTheorems, SequenceTheorems, TLAPS

\* The products and quotients below are natural numbers.
LEMMA ProductType == ASSUME NEW a \in Nat, NEW b \in Nat PROVE a * b \in Nat
OBVIOUS

\* Positive factors have a positive product.
LEMMA ProductPositive ==
    ASSUME NEW a \in Nat \ {0}, NEW b \in Nat \ {0} PROVE a * b \in Nat \ {0}
OBVIOUS

\* A larger factor gives no smaller product.
LEMMA ProductMonotone ==
    ASSUME NEW a \in Nat, NEW b \in Nat, NEW c \in Nat, a <= b PROVE a * c <= b * c
OBVIOUS

\* A quotient of natural numbers is one.
LEMMA QuotientType == ASSUME NEW a \in Nat, NEW b \in Nat \ {0} PROVE a \div b \in Nat
OBVIOUS

\* The quotient of no more than b * c by b is no more than c.
LEMMA QuotientBound ==
    ASSUME NEW a \in Nat, NEW b \in Nat \ {0}, NEW c \in Nat, a <= b * c
    PROVE  a \div b <= c
<1> DEFINE q == a \div b
<1>1. q \in Nat /\ b * q <= a
  BY QuotientType
<1>2. CASE q > c
  <2>1. b * (c + 1) <= b * q
    BY <1>1, <1>2, ProductMonotone, c + 1 \in Nat, c + 1 <= q, b \in Nat
  <2>2. b * (c + 1) = b * c + b
    OBVIOUS
  <2> QED
    BY <1>1, <2>1, <2>2
<1> QED
  BY <1>1, <1>2

\* A share of a part of the whole is not larger than what it was a share of.
LEMMA ShareBound ==
    ASSUME NEW w \in Nat, NEW x \in Nat, NEW t \in Nat \ {0}, w <= t
    PROVE  (w * x) \div t \in Nat /\ (w * x) \div t <= x
<1>1. w * x \in Nat /\ w * x <= t * x
  BY ProductType, ProductMonotone
<1> QED
  BY <1>1, QuotientType, QuotientBound

\* What Min says of two numbers.
LEMMA SmallerOfTwo ==
    ASSUME NEW a \in Int, NEW b \in Int
    PROVE  Min({a, b}) \in {a, b} /\ Min({a, b}) <= a /\ Min({a, b}) <= b
BY DEF Min

\* CalculateRevenue takes a part of what is won.
LEMMA RevenueBound ==
    ASSUME NEW w \in Int
    PROVE  /\ Revenue(w) \in Nat
           /\ w > 0 => Revenue(w) <= w
           /\ w <= 0 => Revenue(w) = 0
<1>1. CASE w > 0
  <2>1. RevenueRatio \in Nat /\ RevenueRatio <= 100 /\ w \in Nat /\ 100 \in Nat \ {0}
    BY <1>1, SettlementAssumption
  <2>2. (RevenueRatio * w) \div 100 \in Nat /\ (RevenueRatio * w) \div 100 <= w
    BY <2>1, ShareBound
  <2>3. RevenueRatio * w = w * RevenueRatio
    BY <2>1
  <2> QED
    BY <1>1, <2>2, <2>3 DEF Revenue
<1>2. CASE w <= 0
  BY <1>2 DEF Revenue
<1> QED
  BY <1>1, <1>2

-----------------------------------------------------------------------------
(***************************************************************************)
(* The inductive invariant.                                                *)
(***************************************************************************)
Amounts ==
    /\ phase \in {"call", "score", "open", "compare", "end"}
    /\ score \in [Chairs -> Nat]
    /\ call \in [Chairs -> Nat \cup {-1}]
    /\ bet \in [Chairs -> Nat \cup {-1}]
    /\ hand \in [Chairs -> Multiples]
    /\ todo \subseteq Chairs
    /\ win \in [Chairs -> Int]
    /\ won \in Nat /\ lost \in Nat

\* After the calls there is a banker, who called.
BankerKnown == phase # "call" => banker \in Chairs /\ call[banker] \in Nat \ {0}

BetsPlaced ==
    /\ phase \in {"open", "compare"} => \A i \in Players : bet[i] \in Nat
    /\ phase = "compare" => todo \subseteq Players

NothingWon == phase \in {"call", "score", "open"} => win = [i \in Chairs |-> 0] /\ won = 0 /\ lost = 0

\* While the hands are compared nobody has won or lost more than he has, and the totals hold what each of them did.
Limits(i) ==
    /\ -score[i] <= win[i] /\ win[i] <= score[i]
    /\ win[i] < 0 => -win[i] <= lost
    /\ win[i] > 0 => win[i] <= won

Totals == phase = "compare" => win[banker] = lost - won /\ \A i \in Players : Limits(i)

SettlementInv == Amounts /\ BankerKnown /\ BetsPlaced /\ NothingWon /\ Totals /\ SmallForSmall

-----------------------------------------------------------------------------
\* Somebody plays against the banker.
LEMMA OthersPositive == Others \in Nat \ {0}
<1>1. Cardinality(Chairs) \in Nat
  BY SettlementAssumption, FS_CardinalityType
<1> QED
  BY <1>1, SettlementAssumption DEF Others

\* Somebody is the richest only if he is one of them.
LEMMA BankerIsChair ==
    ASSUME NEW flags \in [Chairs -> Nat \cup {-1}], NEW b \in Bankers(flags)
    PROVE  b \in Chairs
BY DEF Bankers, Richest

\* What is bet is a natural number.
LEMMA JettonType ==
    ASSUME SettlementInv, phase = "score", NEW i \in Chairs, NEW j \in DOMAIN JettionList
    PROVE  Jettonable(i)[j] \in Nat
<1> USE SettlementAssumption
<1>1. score[banker] \in Nat /\ score[i] \in Nat /\ call[banker] \in Nat \ {0}
  BY DEF SettlementInv, Amounts, BankerKnown
<1>2. CellScore * call[banker] \in Nat \ {0} /\ CellScore * Others \in Nat \ {0}
  BY <1>1, OthersPositive, ProductPositive
<1>3. CellScore * Others * call[banker] \in Nat \ {0}
  BY <1>1, <1>2, ProductPositive
<1>4. score[banker] \div (CellScore * Others * call[banker]) \in Nat
  BY <1>1, <1>3, QuotientType
<1>5. score[i] \div (CellScore * call[banker]) \in Nat
  BY <1>1, <1>2, QuotientType
<1>6. CallMaxTimes(i) \in Nat
  <2> DEFINE a == score[banker] \div (CellScore * Others * call[banker])
             b == score[i] \div (CellScore * call[banker])
  <2>1. a \in Nat /\ b \in Nat /\ CallMaxTimes(i) = Min({a, b})
    BY <1>4, <1>5 DEF CallMaxTimes
  <2> HIDE DEF a, b
  <2>2. Min({a, b}) \in {a, b}
    <3>1. a \in Int /\ b \in Int
      BY <2>1
    <3> QED
      BY <3>1, SmallerOfTwo, Zenon
  <2> QED
    BY <2>1, <2>2
<1>7. j \in Nat /\ JettionList[j] \in Nat
  <2>1. JettionList \in Seq(1 .. 20) /\ j \in 1 .. Len(JettionList) /\ Len(JettionList) \in Nat
    OBVIOUS
  <2>2. JettionList[j] \in 1 .. 20
    BY <2>1, ElementOfSeq
  <2> QED
    BY <2>1, <2>2
<1>8. CallMaxTimes(i) * j \in Nat
  BY <1>6, <1>7, ProductType
<1>9. (CallMaxTimes(i) * j) \div 4 \in Nat
  BY <1>8, QuotientType
<1> QED
  BY <1>6, <1>7, <1>9 DEF Jettonable

\* Nobody stakes more than he has.
LEMMA StakeBound ==
    ASSUME SettlementInv, phase = "compare", NEW i \in Players, NEW m \in Multiples
    PROVE  Stake(i, m) \in Nat /\ Stake(i, m) <= score[i]
<1>1. i \in Chairs /\ score[i] \in Nat /\ call[banker] \in Nat /\ bet[i] \in Nat /\ m \in Nat /\ CellScore \in Nat
  BY SettlementAssumption DEF SettlementInv, Amounts, BankerKnown, BetsPlaced, Players, Multiples
<1>2. CellScore * m \in Nat
  BY <1>1, ProductType
<1>3. CellScore * m * call[banker] \in Nat
  BY <1>1, <1>2, ProductType
<1>4. CellScore * m * call[banker] * bet[i] \in Nat
  BY <1>1, <1>3, ProductType
<1> DEFINE a == CellScore * m * call[banker] * bet[i]
<1>5. a \in Nat /\ Stake(i, m) = Min({a, score[i]})
  BY <1>4 DEF Stake
<1> HIDE DEF a
<1>6. Min({a, score[i]}) \in {a, score[i]} /\ Min({a, score[i]}) <= score[i]
  <2>1. a \in Int /\ score[i] \in Int
    BY <1>1, <1>5
  <2> QED
    BY <2>1, SmallerOfTwo, Zenon
<1> QED
  BY <1>1, <1>5, <1>6

\* Sharing leaves everybody, the banker too, within his means.
LEMMA SharedBound ==
    ASSUME SettlementInv, phase = "compare", NEW i \in Chairs
    PROVE  Shared[i] \in Int /\ -score[i] <= Shared[i] /\ Shared[i] <= score[i]
<1>1. /\ banker \in Chairs /\ score[i] \in Nat /\ score[banker] \in Nat /\ won \in Nat /\ lost \in Nat
      /\ win[i] \in Int /\ win[banker] \in Int /\ win[banker] = lost - won
      /\ i # banker => Limits(i)
  BY DEF SettlementInv, Amounts, BankerKnown, Totals, Players
<1>2. CASE win[banker] > score[banker]
  <2>1. LosersPay \in Nat /\ lost \in Nat \ {0} /\ LosersPay <= lost
    BY <1>1, <1>2 DEF LosersPay
  <2>2. CASE i # banker /\ win[i] < 0
    <3>1. (LosersPay * (-win[i])) \div lost \in Nat /\ (LosersPay * (-win[i])) \div lost <= -win[i]
      BY <1>1, <2>1, <2>2, ShareBound, -win[i] \in Nat
    <3>2. Shared[i] = -((LosersPay * (-win[i])) \div lost)
      BY <1>2, <2>2 DEF Shared
    <3>3. -win[i] <= score[i]
      BY <1>1, <2>2 DEF Limits
    <3> QED
      BY <1>1, <2>2, <3>1, <3>2, <3>3
  <2>3. CASE ~(i # banker /\ win[i] < 0)
    BY <1>1, <1>2, <2>3 DEF Shared, Limits
  <2> QED
    BY <2>2, <2>3
<1>3. CASE ~(win[banker] > score[banker]) /\ -win[banker] > score[banker]
  <2>1. WinnersGet \in Nat /\ won \in Nat \ {0} /\ WinnersGet <= won
    BY <1>1, <1>3 DEF WinnersGet
  <2>2. CASE i # banker /\ win[i] > 0
    <3>1. (WinnersGet * win[i]) \div won \in Nat /\ (WinnersGet * win[i]) \div won <= win[i]
      BY <1>1, <2>1, <2>2, ShareBound, win[i] \in Nat
    <3>2. Shared[i] = (WinnersGet * win[i]) \div won
      BY <1>3, <2>2 DEF Shared
    <3>3. win[i] <= score[i]
      BY <1>1, <2>2 DEF Limits
    <3> QED
      BY <1>1, <2>2, <3>1, <3>2, <3>3
  <2>3. CASE ~(i # banker /\ win[i] > 0)
    BY <1>1, <1>3, <2>3 DEF Shared, Limits
  <2> QED
    BY <2>2, <2>3
<1>4. CASE ~(win[banker] > score[banker]) /\ ~(-win[banker] > score[banker])
  BY <1>1, <1>4 DEF Shared, Limits
<1> QED
  BY <1>2, <1>3, <1>4

\* A round begins with nothing called, bet or won.
LEMMA InitSettlement == Init => SettlementInv
<1> SUFFICES ASSUME Init PROVE SettlementInv
  OBVIOUS
<1>1. \A x \in Scores : x \in Nat
  BY SettlementAssumption
<1>2. Amounts
  BY <1>1 DEF Init, Amounts, Multiples
<1>3. BankerKnown /\ BetsPlaced /\ NothingWon /\ Totals /\ SmallForSmall
  BY DEF Init, BankerKnown, BetsPlaced, NothingWon, Totals, SmallForSmall
<1> QED
  BY <1>2, <1>3 DEF SettlementInv

-----------------------------------------------------------------------------
(* One lemma per action. *)

\* A call keeps the invariant (OnUserCallBanker),
LEMMA CallKeeps ==
    ASSUME SettlementInv, NEW i \in Chairs, NEW flag \in Callable(i), OnUserCallBanker(i, flag)
    PROVE  SettlementInv'
<1> USE SettlementAssumption
<1> DEFINE flags == [call EXCEPT ![i] = flag]
<1>1. CallMulti[1] \in Nat \ {0} /\ flag \in Nat
  BY DEF Callable
<1>2. flags \in [Chairs -> Nat \cup {-1}]
  BY <1>1 DEF SettlementInv, Amounts
<1>3. CASE \E j \in Chairs : flags[j] = -1
  BY <1>2, <1>3 DEF OnUserCallBanker, SettlementInv, Amounts, BankerKnown, BetsPlaced, NothingWon, Totals,
     SmallForSmall
<1>4. CASE \A j \in Chairs : flags[j] # -1
  <2>1. PICK b \in Bankers(flags) :
            /\ call' = IF flags[b] <= 0 THEN [flags EXCEPT ![b] = CallMulti[1]] ELSE flags
            /\ banker' = b
    BY <1>4 DEF OnUserCallBanker
  <2>2. b \in Chairs
    BY <1>2, BankerIsChair
  <2>3. call' \in [Chairs -> Nat \cup {-1}] /\ call'[b] \in Nat \ {0}
    BY <1>1, <1>2, <1>4, <2>1, <2>2
  <2>4. phase = "call" /\ phase' = "score" /\ UNCHANGED <<score, bet, hand, todo, win, won, lost>>
    BY <1>4 DEF OnUserCallBanker
  <2> QED
    BY <2>1, <2>2, <2>3, <2>4 DEF SettlementInv, Amounts, BankerKnown, BetsPlaced, NothingWon, Totals, SmallForSmall
<1> QED
  BY <1>3, <1>4

\* and so does a bet (OnUserAddScore),
LEMMA BetKeeps ==
    ASSUME SettlementInv, NEW i \in Chairs, NEW j \in DOMAIN JettionList, OnUserAddScore(i, j)
    PROVE  SettlementInv'
<1> DEFINE amount == Jettonable(i)[IF Jettonable(i)[j] <= 0 THEN 1 ELSE j]
           bets == [bet EXCEPT ![i] = amount]
<1>1. /\ phase = "score" /\ bet' = bets
      /\ phase' = IF \E k \in Players : bets[k] = -1 THEN "score" ELSE "open"
      /\ UNCHANGED <<score, call, banker, hand, todo, win, won, lost>>
  BY DEF OnUserAddScore
<1>2. amount \in Nat
  <2>1. 1 \in DOMAIN JettionList
    BY SettlementAssumption
  <2> QED
    BY <1>1, <2>1, JettonType
<1> HIDE DEF amount
<1>3. bets \in [Chairs -> Nat \cup {-1}]
  BY <1>2 DEF SettlementInv, Amounts
<1>4. Players' = Players /\ Players \subseteq Chairs
  BY <1>1 DEF Players
<1>5. phase' = "open" => \A k \in Players : bets[k] \in Nat
  BY <1>1, <1>3, <1>4
<1>6. phase' \in {"score", "open"}
  BY <1>1
<1> HIDE DEF bets
<1> QED
  BY <1>1, <1>3, <1>4, <1>5, <1>6
     DEF SettlementInv, Amounts, BankerKnown, BetsPlaced, NothingWon, Totals, SmallForSmall

\* opening the hands,
LEMMA OpenKeeps ==
    ASSUME SettlementInv, NEW h \in [Chairs -> Hands], OpenCards(h)
    PROVE  SettlementInv'
<1>1. /\ phase = "open" /\ phase' = "compare" /\ hand' = h /\ todo' = Players /\ Players' = Players
      /\ UNCHANGED <<score, call, banker, bet, win, won, lost>>
  BY DEF OpenCards, Players
<1>2. Amounts' /\ BankerKnown' /\ BetsPlaced' /\ NothingWon' /\ SmallForSmall'
  BY <1>1, SettlementAssumption
     DEF SettlementInv, Amounts, BankerKnown, BetsPlaced, NothingWon, SmallForSmall, Players
<1>3. Totals'
  <2>1. banker \in Chairs /\ \A i \in Chairs : win[i] = 0 /\ score[i] \in Nat
    BY <1>1 DEF SettlementInv, Amounts, BankerKnown, NothingWon
  <2> QED
    BY <1>1, <2>1 DEF SettlementInv, NothingWon, Totals, Limits, Players
<1> QED
  BY <1>2, <1>3 DEF SettlementInv

\* One player's gain or loss is added to the totals and taken from the banker's balance.
LEMMA CompareKeeps ==
    ASSUME SettlementInv, NEW i \in Chairs, Compare(i)
    PROVE  SettlementInv'
<1>1. /\ phase = "compare" /\ i \in todo /\ todo' = todo \ {i}
      /\ UNCHANGED <<phase, score, call, banker, bet, hand>> /\ Players' = Players
  BY DEF Compare, Players
<1>2. /\ i \in Players /\ i # banker /\ banker \in Chairs
      /\ hand[i] \in Multiples /\ hand[banker] \in Multiples
      /\ score[i] \in Nat /\ win \in [Chairs -> Int] /\ won \in Nat /\ lost \in Nat
      /\ win[banker] = lost - won /\ \A k \in Players : Limits(k)
  BY <1>1 DEF SettlementInv, Amounts, BankerKnown, BetsPlaced, Totals, Players
<1>3. ASSUME NEW delta \in Nat, delta <= score[i],
             \/ /\ win' = [win EXCEPT ![i] = -delta, ![banker] = @ + delta]
                /\ lost' = lost + delta /\ won' = won
             \/ /\ win' = [win EXCEPT ![i] = delta, ![banker] = @ - delta]
                /\ won' = won + delta /\ lost' = lost
      PROVE  /\ win' \in [Chairs -> Int] /\ won' \in Nat /\ lost' \in Nat
             /\ win'[banker] = lost' - won' /\ \A k \in Players : Limits(k)'
  <2>1. /\ win' \in [Chairs -> Int] /\ won' \in Nat /\ lost' \in Nat /\ lost <= lost' /\ won <= won'
        /\ win'[banker] = lost' - won'
    BY <1>2, <1>3
  <2>2. ASSUME NEW k \in Players
        PROVE  Limits(k)'
    <3>1. k \in Chairs /\ k # banker /\ score'[k] = score[k] /\ win[k] \in Int /\ score[k] \in Nat
      BY <1>1, <1>2 DEF Players, SettlementInv, Amounts
    <3>2. CASE k = i
      <4>1. \/ win'[k] = -delta /\ lost' = lost + delta
            \/ win'[k] = delta /\ won' = won + delta
        BY <1>2, <1>3, <3>1, <3>2
      <4> QED
        BY <1>2, <1>3, <2>1, <3>1, <3>2, <4>1 DEF Limits
    <3>3. CASE k # i
      <4>1. win'[k] = win[k]
        BY <1>2, <1>3, <3>1, <3>3
      <4> QED
        BY <1>2, <2>1, <3>1, <4>1 DEF Limits
    <3> QED
      BY <3>2, <3>3
  <2> QED
    BY <2>1, <2>2
<1>4. /\ win' \in [Chairs -> Int] /\ won' \in Nat /\ lost' \in Nat
      /\ win'[banker] = lost' - won' /\ \A k \in Players : Limits(k)'
  <2>1. /\ Stake(i, hand[banker]) \in Nat /\ Stake(i, hand[banker]) <= score[i]
        /\ Stake(i, hand[i]) \in Nat /\ Stake(i, hand[i]) <= score[i]
    BY <1>1, <1>2, StakeBound
  <2>2. \/ /\ win' = [win EXCEPT ![i] = -Stake(i, hand[banker]), ![banker] = @ + Stake(i, hand[banker])]
           /\ lost' = lost + Stake(i, hand[banker]) /\ won' = won
        \/ /\ win' = [win EXCEPT ![i] = Stake(i, hand[i]), ![banker] = @ - Stake(i, hand[i])]
           /\ won' = won + Stake(i, hand[i]) /\ lost' = lost
    BY DEF Compare
  <2> QED
    BY <1>3, <2>1, <2>2
<1>5. Totals'
  BY <1>1, <1>4 DEF Totals
<1>6. Amounts' /\ BankerKnown' /\ BetsPlaced' /\ NothingWon' /\ SmallForSmall'
  BY <1>1, <1>4 DEF SettlementInv, Amounts, BankerKnown, BetsPlaced, NothingWon, SmallForSmall
<1> QED
  BY <1>5, <1>6 DEF SettlementInv

\* and the sharing at the end (NormalGameEnd).
LEMMA EndKeeps ==
    ASSUME SettlementInv, NormalGameEnd
    PROVE  SettlementInv'
<1>1. /\ phase = "compare" /\ phase' = "end" /\ win' = Shared
      /\ score' = [i \in Chairs |-> score[i] + Shared[i] - Revenue(Shared[i])]
      /\ UNCHANGED <<call, banker, bet, hand, todo, won, lost>>
  BY DEF NormalGameEnd
<1>2. \A i \in Chairs : Shared[i] \in Int /\ -score[i] <= Shared[i] /\ Shared[i] <= score[i]
  BY <1>1, SharedBound
<1>3. Shared \in [Chairs -> Int]
  <2>1. Shared = [i \in Chairs |-> Shared[i]]
    BY DEF Shared, SettlementInv, Amounts
  <2> QED
    BY <1>2, <2>1
<1> HIDE DEF Shared
<1>4. ASSUME NEW i \in Chairs
      PROVE  /\ score'[i] \in Nat
             /\ score'[i] - win'[i] + Revenue(win'[i]) = score[i]
             /\ -score[i] <= win'[i] /\ win'[i] <= score[i]
  <2>1. /\ score[i] \in Nat /\ Shared[i] \in Int
        /\ -score[i] <= Shared[i] /\ Shared[i] <= score[i]
        /\ win'[i] = Shared[i] /\ score'[i] = score[i] + Shared[i] - Revenue(Shared[i])
    BY <1>1, <1>2 DEF SettlementInv, Amounts
  <2>2. /\ Revenue(Shared[i]) \in Nat
        /\ Shared[i] > 0 => Revenue(Shared[i]) <= Shared[i]
        /\ Shared[i] <= 0 => Revenue(Shared[i]) = 0
    BY <2>1, RevenueBound
  <2> QED
    BY <2>1, <2>2
<1>5. score' \in [Chairs -> Nat]
  BY <1>1, <1>4
<1>6. Amounts' /\ BankerKnown' /\ BetsPlaced' /\ NothingWon' /\ Totals'
  BY <1>1, <1>3, <1>5 DEF SettlementInv, Amounts, BankerKnown, BetsPlaced, NothingWon, Totals
<1>7. SmallForSmall'
  <2>1. \A i \in Chairs : Revenue(win[i])' = Revenue(win'[i])
    BY DEF Revenue
  <2> QED
    BY <1>4, <2>1 DEF SmallForSmall
<1> QED
  BY <1>6, <1>7 DEF SettlementInv

\* Every step of a round keeps the invariant.
LEMMA NextSettlement == SettlementInv /\ [Next]_vars => SettlementInv'
<1> SUFFICES ASSUME SettlementInv, [Next]_vars PROVE SettlementInv'
  OBVIOUS
<1>1. CASE UNCHANGED vars
  BY <1>1 DEF vars, SettlementInv, Amounts, BankerKnown, BetsPlaced, NothingWon, Totals, SmallForSmall, Limits,
     Players, Revenue
<1>2. CASE Next
  BY <1>2, CallKeeps, BetKeeps, OpenKeeps, CompareKeeps, EndKeeps DEF Next
<1> QED
  BY <1>1, <1>2

-----------------------------------------------------------------------------
\* Nobody leaves a round of Game_Qzzjh with a debt, and nobody wins or loses more than he brought along: for every
\* number of players, every score, hand, call and bet, every jetton list and every revenue ratio.
THEOREM RoundStaysSmall == Spec => []SmallForSmall
<1>1. SettlementInv => SmallForSmall
  BY DEF SettlementInv
<1> QED
  BY <1>1, InitSettlement, NextSettlement, PTL DEF Spec

-----------------------------------------------------------------------------
(***************************************************************************)
(* BetsAreCovered: a bet is no more than one share of what the banker has. *)
(***************************************************************************)
Covered(i) ==
    /\ bet[i] \in Nat
    /\ CellScore * call[banker] * bet[i] <= score[i]
    /\ CellScore * Others * call[banker] * bet[i] <= score[banker]

BetInv ==
    /\ phase = "call" => bet = [i \in Chairs |-> -1]
    /\ phase \in {"score", "open", "compare"} => \A i \in Players : bet[i] # -1 => Covered(i)

\* What is left after a division times the divisor is not more than what was divided.
LEMMA QuotientFits ==
    ASSUME NEW a \in Nat, NEW b \in Nat \ {0}, NEW c \in Nat, c <= a \div b
    PROVE  b * c <= a
<1>1. a \div b \in Nat /\ b * (a \div b) <= a
  BY QuotientType
<1>2. c * b <= (a \div b) * b
  BY <1>1, ProductMonotone, b \in Nat
<1>3. c * b = b * c /\ (a \div b) * b = b * (a \div b) /\ b * c \in Nat
  BY <1>1
<1> QED
  BY <1>1, <1>2, <1>3

\* A jetton on offer is at most CallMaxTimes.
LEMMA JettonBound ==
    ASSUME SettlementInv, phase = "score", NEW i \in Chairs, NEW j \in DOMAIN JettionList
    PROVE  /\ Jettonable(i)[j] \in Nat /\ CallMaxTimes(i) \in Nat /\ Jettonable(i)[j] <= CallMaxTimes(i)
           /\ CallMaxTimes(i) <= score[banker] \div (CellScore * Others * call[banker])
           /\ CallMaxTimes(i) <= score[i] \div (CellScore * call[banker])
<1> USE SettlementAssumption
<1>1. score[banker] \in Nat /\ score[i] \in Nat /\ call[banker] \in Nat \ {0}
  BY DEF SettlementInv, Amounts, BankerKnown
<1>2. CellScore * call[banker] \in Nat \ {0} /\ CellScore * Others \in Nat \ {0}
  BY <1>1, OthersPositive, ProductPositive
<1>3. CellScore * Others * call[banker] \in Nat \ {0}
  BY <1>1, <1>2, ProductPositive
<1>4. PICK a \in Nat : a = score[banker] \div (CellScore * Others * call[banker])
  BY <1>1, <1>3, QuotientType
<1>5. PICK b \in Nat : b = score[i] \div (CellScore * call[banker])
  BY <1>1, <1>2, QuotientType
<1>6. CallMaxTimes(i) = Min({a, b})
  BY <1>4, <1>5 DEF CallMaxTimes
<1>7. Min({a, b}) \in {a, b} /\ Min({a, b}) <= a /\ Min({a, b}) <= b
  <2>1. a \in Int /\ b \in Int
    OBVIOUS
  <2> QED
    BY <2>1, SmallerOfTwo, Zenon
<1>8. PICK most \in Nat : most = CallMaxTimes(i) /\ most <= a /\ most <= b
  BY <1>6, <1>7
<1>9. JettionList[j] \in 1 .. 20 /\ j \in 1 .. 4
  <2>1. JettionList \in Seq(1 .. 20) /\ j \in 1 .. Len(JettionList) /\ Len(JettionList) = 4
    OBVIOUS
  <2> QED
    BY <2>1, ElementOfSeq
<1>10. Jettonable(i)[j] <= most
  <2>1. Jettonable(i)[j] = IF most < 5 THEN IF j <= most THEN j ELSE 0
                           ELSE IF most < 20 THEN (most * j) \div 4
                           ELSE JettionList[j]
    BY <1>8 DEF Jettonable
  <2>2. (most * j) \div 4 <= most
    <3>1. most * j \in Nat /\ j * most <= 4 * most /\ j * most = most * j
      BY <1>9, ProductMonotone, ProductType, 4 \in Nat, j \in Nat
    <3> QED
      BY <3>1, QuotientBound, 4 \in Nat \ {0}
  <2>3. CASE most < 5
    BY <2>1, <2>3, <1>9
  <2>4. CASE ~(most < 5) /\ most < 20
    BY <2>1, <2>2, <2>4
  <2>5. CASE ~(most < 5) /\ ~(most < 20)
    BY <2>1, <2>5, <1>9
  <2> QED
    BY <2>3, <2>4, <2>5
<1> QED
  BY <1>4, <1>5, <1>8, <1>10, JettonType

\* A jetton that is offered can be paid by the player, and by the banker to all players (Jettonable).
LEMMA BetIsCovered ==
    ASSUME SettlementInv, phase = "score", NEW i \in Chairs, NEW j \in DOMAIN JettionList,
           NEW b \in Nat, b = Jettonable(i)[j]
    PROVE  CellScore * call[banker] * b <= score[i] /\ CellScore * Others * call[banker] * b <= score[banker]
<1>1. score[banker] \in Nat /\ score[i] \in Nat /\ call[banker] \in Nat \ {0} /\ CellScore \in Nat \ {0}
  BY SettlementAssumption DEF SettlementInv, Amounts, BankerKnown
<1>2. CellScore * call[banker] \in Nat \ {0} /\ CellScore * Others \in Nat \ {0}
  BY <1>1, OthersPositive, ProductPositive
<1>3. CellScore * Others * call[banker] \in Nat \ {0}
  BY <1>1, <1>2, ProductPositive
<1>4. PICK c \in Nat \ {0} : c = CellScore * call[banker]
  BY <1>2
<1>5. PICK d \in Nat \ {0} : d = CellScore * Others * call[banker]
  BY <1>3
<1>6. b <= score[banker] \div d /\ b <= score[i] \div c
  <2>1. score[banker] \div d \in Nat /\ score[i] \div c \in Nat
    BY <1>1, QuotientType
  <2>2. /\ CallMaxTimes(i) \in Nat /\ b <= CallMaxTimes(i)
        /\ CallMaxTimes(i) <= score[banker] \div d /\ CallMaxTimes(i) <= score[i] \div c
    BY <1>4, <1>5, JettonBound
  <2> QED
    BY <2>1, <2>2
<1>7. c * b <= score[i] /\ d * b <= score[banker]
  BY <1>1, <1>6, QuotientFits
<1> QED
  BY <1>4, <1>5, <1>7

\* A round begins without bets.
LEMMA InitBets == Init => BetInv
BY DEF Init, BetInv

\* Every step keeps the bets covered.
LEMMA NextBets == SettlementInv /\ BetInv /\ [Next]_vars => BetInv'
<1> SUFFICES ASSUME SettlementInv, BetInv, [Next]_vars PROVE BetInv'
  OBVIOUS
<1>1. CASE UNCHANGED vars
  BY <1>1 DEF vars, BetInv, Covered, Players
<1>2. ASSUME NEW i \in Chairs, NEW flag \in Callable(i), OnUserCallBanker(i, flag)
      PROVE  BetInv'
  <2>1. phase = "call" /\ bet' = bet /\ phase' \in {"call", "score"}
    BY <1>2 DEF OnUserCallBanker
  <2>2. bet' = [k \in Chairs |-> -1]
    BY <2>1 DEF BetInv
  <2> QED
    BY <2>1, <2>2 DEF BetInv, Players
<1>3. ASSUME NEW i \in Chairs, NEW j \in DOMAIN JettionList, OnUserAddScore(i, j)
      PROVE  BetInv'
  <2>1. PICK k \in DOMAIN JettionList : k = IF Jettonable(i)[j] <= 0 THEN 1 ELSE j
    <3>1. 1 \in DOMAIN JettionList
      BY SettlementAssumption
    <3> QED
      BY <3>1
  <2>2. PICK b \in Nat : b = Jettonable(i)[k]
    BY <1>3, JettonType DEF OnUserAddScore
  <2>3. /\ phase = "score" /\ phase' \in {"score", "open"} /\ bet' = [bet EXCEPT ![i] = b] /\ i \in Players
        /\ UNCHANGED <<score, call, banker>> /\ Players' = Players
    BY <1>3, <2>1, <2>2 DEF OnUserAddScore, Players
  <2>4. CellScore * call[banker] * b <= score[i] /\ CellScore * Others * call[banker] * b <= score[banker]
    BY <2>2, <2>3, BetIsCovered
  <2>5. ASSUME NEW p \in Players, bet'[p] # -1
        PROVE  Covered(p)'
    <3>1. p \in Chairs /\ bet \in [Chairs -> Nat \cup {-1}]
      BY DEF Players, SettlementInv, Amounts
    <3>2. CASE p = i
      <4>1. bet'[p] = b
        BY <2>3, <3>1, <3>2
      <4> QED
        BY <2>3, <2>4, <3>2, <4>1 DEF Covered
    <3>3. CASE p # i
      <4>1. bet'[p] = bet[p]
        BY <2>3, <3>1, <3>3
      <4>2. Covered(p)
        BY <2>3, <2>5, <4>1 DEF BetInv
      <4> QED
        BY <2>3, <4>1, <4>2 DEF Covered
    <3> QED
      BY <3>2, <3>3
  <2> QED
    BY <2>3, <2>5 DEF BetInv
<1>4. ASSUME NEW h \in [Chairs -> Hands], OpenCards(h)
      PROVE  BetInv'
  BY <1>4 DEF OpenCards, BetInv, Covered, Players
<1>5. ASSUME NEW i \in Chairs, Compare(i)
      PROVE  BetInv'
  BY <1>5 DEF Compare, BetInv, Covered, Players
<1>6. CASE NormalGameEnd
  BY <1>6 DEF NormalGameEnd, BetInv
<1> QED
  BY <1>1, <1>2, <1>3, <1>4, <1>5, <1>6 DEF Next

\* There are Others players beside the banker.
LEMMA PlayersCount ==
    ASSUME banker \in Chairs
    PROVE  IsFiniteSet(Players) /\ Cardinality(Players) = Others
<1>1. IsFiniteSet(Chairs) /\ Players = Chairs \ {banker}
  BY SettlementAssumption DEF Players
<1>2. IsFiniteSet(Chairs \ {banker}) /\ Cardinality(Chairs \ {banker}) = Cardinality(Chairs) - 1
  BY <1>1, FS_RemoveElement
<1> QED
  BY <1>1, <1>2 DEF Others

\* The products of Covered, with the number of players in front.
LEMMA FactorOut ==
    ASSUME NEW a \in Nat, NEW n \in Nat, NEW c \in Nat, NEW b \in Nat
    PROVE  n * (a * c * b) = a * n * c * b
<1>1. a * n = n * a /\ a * n \in Nat /\ a * c \in Nat
  OBVIOUS
<1>2. (n * a) * c = n * (a * c) /\ (n * a) * c \in Nat
  BY <1>1
<1>3. (n * (a * c)) * b = n * ((a * c) * b)
  BY <1>1
<1> QED
  BY <1>1, <1>2, <1>3

\* Since each of the others can be paid an equal part of the banker's score, all can be paid together.
LEMMA CoveredAdds == SettlementInv /\ BetInv => BetsAreCovered
<1> SUFFICES ASSUME SettlementInv, BetInv, phase \in {"open", "compare"}
             PROVE  LET stake == [i \in Players |-> CellScore * call[banker] * bet[i]]
                    IN  /\ \A i \in Players : 0 <= stake[i] /\ stake[i] <= score[i]
                        /\ SumOver(Players, stake) <= score[banker]
  BY DEF BetsAreCovered
<1> DEFINE st == [i \in Players |-> CellScore * call[banker] * bet[i]]
           nst == [i \in Players |-> CellScore * Others * call[banker] * bet[i]]
           all == [i \in Players |-> score[banker]]
<1>1. banker \in Chairs /\ call[banker] \in Nat /\ score[banker] \in Nat /\ CellScore \in Nat /\ Others \in Nat \ {0}
  BY SettlementAssumption, OthersPositive DEF SettlementInv, BankerKnown, Amounts
<1>2. \A i \in Players : Covered(i) /\ score[i] \in Nat
  <2>1. \A i \in Players : bet[i] \in Nat
    BY DEF SettlementInv, BetsPlaced
  <2>2. \A i \in Players : bet[i] # -1
    BY <2>1
  <2> QED
    BY <2>2 DEF BetInv, SettlementInv, Amounts, Players
<1>3. ASSUME NEW i \in Players
      PROVE  /\ st[i] \in Nat /\ st[i] <= score[i]
             /\ nst[i] = Others * st[i] /\ nst[i] <= all[i] /\ all[i] = score[banker]
  <2>1. bet[i] \in Nat /\ CellScore * call[banker] * bet[i] <= score[i]
        /\ CellScore * Others * call[banker] * bet[i] <= score[banker]
    BY <1>2 DEF Covered
  <2>2. CellScore * call[banker] \in Nat
    BY <1>1, ProductType
  <2>3. CellScore * call[banker] * bet[i] \in Nat
    BY <2>1, <2>2, ProductType
  <2>4. Others * (CellScore * call[banker] * bet[i]) = CellScore * Others * call[banker] * bet[i]
    BY <1>1, <2>1, FactorOut
  <2> QED
    BY <2>1, <2>3, <2>4
<1> HIDE DEF st, nst, all
<1>4. IsFiniteSet(Players) /\ Cardinality(Players) = Others
  BY <1>1, PlayersCount
<1>5. SumOver(Players, st) \in Int /\ SumOver(Players, nst) = Others * SumOver(Players, st)
  <2>1. \A i \in Players : st[i] \in Int /\ nst[i] = Others * st[i]
    BY <1>3
  <2>2. Others \in Int
    BY <1>1
  <2> QED
    BY <1>4, <2>1, <2>2, SumType, SumOfProducts
<1>6. SumOver(Players, nst) <= SumOver(Players, all)
  <2>1. \A i \in Players : nst[i] \in Int /\ all[i] \in Int /\ nst[i] <= all[i]
    <3>1. \A i \in Players : Others * st[i] \in Int
      BY <1>1, <1>3
    <3> QED
      BY <1>1, <1>3, <3>1
  <2> QED
    BY <1>4, <2>1, SumOrder
<1>7. SumOver(Players, all) = score[banker] * Others
  <2>1. score[banker] \in Int /\ \A i \in Players : all[i] = score[banker]
    BY <1>1, <1>3
  <2> QED
    BY <1>4, <2>1, SumOfEquals
<1>8. SumOver(Players, st) <= score[banker]
  <2>1. PICK s \in Int : s = SumOver(Players, st)
    BY <1>5
  <2>2. PICK n \in Nat \ {0} : n = Others
    BY <1>1
  <2>3. PICK k \in Nat : k = score[banker]
    BY <1>1
  <2>4. n * s <= k * n
    BY <1>5, <1>6, <1>7, <2>1, <2>2, <2>3
  <2>5. CASE s > k
    <3>1. n * (k + 1) <= n * s
      <4>1. (k + 1) * n <= s * n
        BY <2>5, ProductMonotone, k + 1 \in Nat, s \in Nat, n \in Nat
      <4> QED
        BY <4>1
    <3>2. n * (k + 1) = k * n + n
      OBVIOUS
    <3> QED
      BY <2>4, <3>1, <3>2
  <2> QED
    BY <2>1, <2>3, <2>5
<1> QED
  BY <1>3, <1>8 DEF st

\* Whatever is called and bet, the bets of a round of plain hands can be paid: by the banker to all players at once,
\* and by each of them.
THEOREM BetsCanBePaid == Spec => []BetsAreCovered
<1>1. Init => SettlementInv /\ BetInv
  BY InitSettlement, InitBets
<1>2. SettlementInv /\ BetInv /\ [Next]_vars => (SettlementInv /\ BetInv)'
  BY NextSettlement, NextBets
<1> QED
  BY <1>1, <1>2, CoveredAdds, PTL DEF Spec

-----------------------------------------------------------------------------
(***************************************************************************)
(* BooksBalance: what the divisions of the shares leave over.              *)
(***************************************************************************)
LossesOf(w) == [i \in Chairs |-> IF w[i] < 0 THEN -w[i] ELSE 0]
GainsOf(w) == [i \in Chairs |-> IF w[i] > 0 THEN w[i] ELSE 0]

\* The totals are the sums of what the players have lost and won so far.
BalanceInv ==
    /\ phase = "compare" =>
          /\ \A i \in todo : win[i] = 0
          /\ SumOver(Players, LossesOf(win)) = lost /\ SumOver(Players, GainsOf(win)) = won
    /\ BooksBalance

\* A division cuts off less than the divisor.
LEMMA QuotientRest ==
    ASSUME NEW a \in Nat, NEW b \in Nat \ {0}
    PROVE  a \div b \in Nat /\ b * (a \div b) <= a /\ a <= b * (a \div b) + (b - 1)
BY QuotientType

\* Shares of w in proportion to x add up to w less a rest smaller than the number of those who have a share.
LEMMA SharesRest ==
    ASSUME NEW S, IsFiniteSet(S), NEW P \in SUBSET S, NEW x, NEW q, NEW t \in Nat \ {0}, NEW w \in Nat,
           \A i \in S : x[i] \in Nat /\ q[i] = (w * x[i]) \div t,
           \A i \in S \ P : x[i] = 0,
           SumOver(S, x) = t
    PROVE  /\ \A i \in S : q[i] \in Nat
           /\ SumOver(S, q) \in Int /\ SumOver(S, q) <= w /\ w - SumOver(S, q) < Cardinality(P)
<1> DEFINE tq == [i \in S |-> t * q[i]]
           wx == [i \in S |-> w * x[i]]
           mark == [i \in S |-> IF i \in P THEN 1 ELSE 0]
           rest == [i \in S |-> (t - 1) * mark[i]]
           up == [i \in S |-> tq[i] + rest[i]]
<1>1. ASSUME NEW i \in S
      PROVE  /\ q[i] \in Nat /\ tq[i] = t * q[i] /\ wx[i] = w * x[i] /\ tq[i] \in Int /\ wx[i] \in Int
             /\ tq[i] <= wx[i] /\ mark[i] = (IF i \in P THEN 1 ELSE 0) /\ mark[i] \in Int
             /\ rest[i] = (t - 1) * mark[i] /\ rest[i] \in Int
             /\ up[i] = tq[i] + rest[i] /\ up[i] \in Int /\ wx[i] <= up[i]
  <2>1. PICK a \in Nat : a = w * x[i]
    BY ProductType
  <2>2. q[i] \in Nat /\ t * q[i] <= a /\ a <= t * q[i] + (t - 1)
    BY <2>1, QuotientRest
  <2>3. t * q[i] \in Nat
    BY <2>2, ProductType
  <2>4. i \notin P => a = 0 /\ q[i] = 0
    <3> SUFFICES ASSUME i \notin P PROVE a = 0 /\ q[i] = 0
      OBVIOUS
    <3>1. a = 0
      BY <2>1
    <3>2. CASE q[i] > 0
      BY <2>2, <3>1, <3>2, ProductPositive
    <3> QED
      BY <2>2, <3>1, <3>2
  <2>5. t * q[i] + (IF i \in P THEN t - 1 ELSE 0) >= a
    BY <2>2, <2>3, <2>4
  <2>6. (t - 1) * mark[i] = IF i \in P THEN t - 1 ELSE 0
    OBVIOUS
  <2> QED
    BY <2>1, <2>2, <2>3, <2>5, <2>6
<1> HIDE DEF tq, wx, mark, rest, up
<1>2. PICK s \in Int : s = SumOver(S, q)
  <2>1. \A i \in S : q[i] \in Int
    BY <1>1
  <2> QED
    BY <2>1, SumType
<1>3. SumOver(S, tq) = t * s
  <2>1. \A i \in S : q[i] \in Int /\ tq[i] = t * q[i]
    BY <1>1
  <2> QED
    BY <1>2, <2>1, SumOfProducts, t \in Int
<1>4. SumOver(S, wx) = w * t
  <2>1. \A i \in S : x[i] \in Int /\ wx[i] = w * x[i]
    BY <1>1
  <2> QED
    BY <2>1, SumOfProducts, w \in Int
<1>5. PICK n \in Nat : n = Cardinality(P) /\ SumOver(S, mark) = n
  <2>1. SumOver(S, mark) = Cardinality(P)
    BY <1>1, SumOfMarks
  <2>2. IsFiniteSet(P)
    BY FS_Subset
  <2> QED
    BY <2>1, <2>2, FS_CardinalityType
<1>6. SumOver(S, rest) = (t - 1) * n
  <2>1. PICK c \in Int : c = t - 1
    OBVIOUS
  <2>2. \A i \in S : mark[i] \in Int /\ rest[i] = c * mark[i]
    BY <1>1, <2>1
  <2>3. SumOver(S, rest) = c * SumOver(S, mark)
    BY <2>2, SumOfProducts
  <2> QED
    BY <1>5, <2>1, <2>3
<1>7. SumOver(S, up) = t * s + (t - 1) * n
  <2>1. \A i \in S : tq[i] \in Int /\ rest[i] \in Int /\ up[i] = tq[i] + rest[i]
    BY <1>1
  <2>2. SumOver(S, up) = SumOver(S, tq) + SumOver(S, rest)
    BY <2>1, SumOfSums
  <2> QED
    BY <1>3, <1>6, <2>2
<1>8. t * s <= w * t
  <2>1. \A i \in S : tq[i] \in Int /\ wx[i] \in Int /\ tq[i] <= wx[i]
    BY <1>1
  <2> QED
    BY <1>3, <1>4, <2>1, SumOrder
<1>9. w * t <= t * s + (t - 1) * n
  <2>1. \A i \in S : wx[i] \in Int /\ up[i] \in Int /\ wx[i] <= up[i]
    BY <1>1
  <2> QED
    BY <1>4, <1>7, <2>1, SumOrder
<1>10. n > 0
  <2> SUFFICES ASSUME n = 0 PROVE FALSE
    OBVIOUS
  <2>1. P = {}
    BY <1>5, FS_EmptySet, FS_Subset
  <2>2. \A i \in S : x[i] = 0
    BY <2>1
  <2>3. SumOver(S, x) = 0 * Cardinality(S)
    BY <2>2, SumOfEquals, 0 \in Int
  <2>4. Cardinality(S) \in Nat
    BY FS_CardinalityType
  <2> QED
    BY <2>3, <2>4
<1>11. PICK d \in Int : d = w - s
  BY <1>2
<1>12. t * d = w * t - t * s
  BY <1>2, <1>11
<1>13. w * t \in Int /\ t * s \in Int /\ (t - 1) * n \in Int /\ t * d \in Int
  BY <1>2, <1>11
<1>14. 0 <= t * d /\ t * d <= (t - 1) * n
  BY <1>8, <1>9, <1>12, <1>13
<1>15. 0 <= d
  <2>1. CASE d < 0
    <3>1. t * (-d) \in Nat \ {0}
      BY <2>1, ProductPositive, -d \in Nat \ {0}
    <3>2. t * (-d) = -(t * d)
      OBVIOUS
    <3> QED
      BY <1>13, <1>14, <3>1, <3>2
  <2> QED
    BY <2>1
<1>16. d < n
  <2>1. CASE n <= d
    <3>1. n * t <= d * t
      BY <2>1, ProductMonotone, d \in Nat, t \in Nat
    <3>2. (t - 1) * n = n * t - n /\ d * t = t * d /\ n * t \in Int
      OBVIOUS
    <3> QED
      BY <1>10, <1>13, <1>14, <3>1, <3>2
  <2> QED
    BY <2>1
<1> QED
  BY <1>1, <1>2, <1>5, <1>11, <1>15, <1>16

\* What the sharing in NormalGameEnd leaves of the balance.
EndBalance(w) ==
    LET sum == SumOver(Chairs, w)
        sharing == Cardinality({i \in Players : IF lost > won THEN w[i] <= 0 ELSE w[i] >= 0})
    IN  /\ (lost > won => 0 <= sum) /\ (lost <= won => sum <= 0)
        /\ sum < sharing /\ -sum < sharing

\* The banker's part and that of the others.
LEMMA SumWithBanker ==
    ASSUME banker \in Chairs, NEW w, \A i \in Chairs : w[i] \in Int
    PROVE  SumOver(Chairs, w) = w[banker] + SumOver(Players, w) /\ SumOver(Players, w) \in Int
<1>1. IsFiniteSet(Chairs) /\ IsFiniteSet(Players) /\ Players = Chairs \ {banker}
  BY SettlementAssumption, PlayersCount DEF Players
<1>2. SumOver(Players, w) \in Int
  BY <1>1, SumType
<1> QED
  BY <1>1, <1>2, SumTake

\* The banker wins more than he has: the losers pay their shares of his score and of what he pays on.
LEMMA LosersShare ==
    ASSUME SettlementInv, BalanceInv, phase = "compare", win[banker] > score[banker]
    PROVE  EndBalance(Shared)
<1>1. /\ banker \in Chairs /\ score \in [Chairs -> Nat] /\ won \in Nat /\ lost \in Nat
      /\ win \in [Chairs -> Int] /\ win[banker] = lost - won
      /\ SumOver(Players, LossesOf(win)) = lost /\ SumOver(Players, GainsOf(win)) = won
  BY DEF SettlementInv, Amounts, BankerKnown, Totals, BalanceInv
<1>2. /\ score[banker] \in Nat /\ Players \subseteq Chairs /\ IsFiniteSet(Players)
      /\ lost \in Nat \ {0} /\ lost > won /\ \A i \in Players : i # banker
  BY <1>1, PlayersCount DEF Players
<1>3. PICK w \in Nat : w = LosersPay /\ w = score[banker] + won
  BY <1>1, <1>2 DEF LosersPay
<1> DEFINE q == [i \in Players |-> (w * LossesOf(win)[i]) \div lost]
           P == {i \in Players : IF lost > won THEN Shared[i] <= 0 ELSE Shared[i] >= 0}
<1>4. ASSUME NEW i \in Players
      PROVE  /\ LossesOf(win)[i] \in Nat /\ GainsOf(win)[i] \in Nat /\ q[i] \in Nat
             /\ q[i] = (w * LossesOf(win)[i]) \div lost
             /\ Shared[i] \in Int /\ GainsOf(win)[i] = Shared[i] + q[i]
             /\ i \notin P => LossesOf(win)[i] = 0
  <2>1. i \in Chairs /\ win[i] \in Int /\ i # banker
    BY <1>1, <1>2
  <2>2. Shared[i] = IF win[i] < 0 THEN -((w * (-win[i])) \div lost) ELSE win[i]
    BY <1>3, <2>1 DEF Shared
  <2>3. CASE win[i] < 0
    <3>1. LossesOf(win)[i] = -win[i] /\ GainsOf(win)[i] = 0 /\ -win[i] \in Nat
      BY <2>1, <2>3 DEF LossesOf, GainsOf
    <3>2. q[i] = (w * (-win[i])) \div lost /\ q[i] \in Nat
      BY <1>2, <3>1, ProductType, QuotientType
    <3>3. Shared[i] = -q[i] /\ i \in P
      BY <1>2, <2>2, <2>3, <3>2
    <3> QED
      BY <3>1, <3>2, <3>3
  <2>4. CASE win[i] >= 0
    <3>1. LossesOf(win)[i] = 0 /\ GainsOf(win)[i] = win[i] /\ win[i] \in Nat
      BY <2>1, <2>4 DEF LossesOf, GainsOf
    <3>2. q[i] = 0
      <4>1. w * LossesOf(win)[i] = 0
        BY <3>1
      <4>2. 0 \div lost <= 0 /\ 0 \div lost \in Nat
        BY <1>2, QuotientBound, QuotientType, 0 <= lost * 0
      <4> QED
        BY <4>1, <4>2
    <3>3. Shared[i] = win[i]
      BY <2>1, <2>2, <2>4
    <3> QED
      BY <3>1, <3>2, <3>3
  <2> QED
    BY <2>1, <2>3, <2>4
<1>5. Shared[banker] = score[banker]
  BY <1>1 DEF Shared
<1> HIDE DEF q
<1>6. PICK r \in Int : r = SumOver(Players, q) /\ r <= w /\ w - r < Cardinality(P)
  <2>1. P \in SUBSET Players
    OBVIOUS
  <2> HIDE DEF P
  <2>2. /\ \A i \in Players : LossesOf(win)[i] \in Nat /\ q[i] = (w * LossesOf(win)[i]) \div lost
        /\ \A i \in Players \ P : LossesOf(win)[i] = 0
    BY <1>4
  <2>3. PICK S : S = Players
    OBVIOUS
  <2>4. PICK x : x = LossesOf(win)
    OBVIOUS
  <2>5. PICK t \in Nat \ {0} : t = lost
    BY <1>2
  <2>6. /\ IsFiniteSet(S) /\ P \in SUBSET S /\ SumOver(S, x) = t
        /\ \A i \in S : x[i] \in Nat /\ q[i] = (w * x[i]) \div t
        /\ \A i \in S \ P : x[i] = 0
    BY <1>1, <1>2, <2>1, <2>2, <2>3, <2>4, <2>5
  <2>7. SumOver(S, q) \in Int /\ SumOver(S, q) <= w /\ w - SumOver(S, q) < Cardinality(P)
    <3>1. PICK y, U : y = q /\ U = P
      OBVIOUS
    <3>2. /\ IsFiniteSet(S) /\ U \in SUBSET S /\ SumOver(S, x) = t
          /\ \A i \in S : x[i] \in Nat /\ y[i] = (w * x[i]) \div t
          /\ \A i \in S \ U : x[i] = 0
      BY <2>6, <3>1
    <3>3. SumOver(S, y) \in Int /\ SumOver(S, y) <= w /\ w - SumOver(S, y) < Cardinality(U)
      BY <3>2, SharesRest
    <3> QED
      BY <3>1, <3>3
  <2> QED
    BY <2>3, <2>7
<1>7. \A i \in Chairs : Shared[i] \in Int
  BY SharedBound
<1>8. SumOver(Chairs, Shared) = score[banker] + SumOver(Players, Shared) /\ SumOver(Players, Shared) \in Int
  BY <1>1, <1>5, <1>7, SumWithBanker
<1>9. won = SumOver(Players, Shared) + r
  <2>1. \A i \in Players : Shared[i] \in Int /\ q[i] \in Int /\ GainsOf(win)[i] = Shared[i] + q[i]
    BY <1>4
  <2>2. SumOver(Players, GainsOf(win)) = SumOver(Players, Shared) + SumOver(Players, q)
    BY <1>2, <2>1, SumOfSums
  <2> QED
    BY <1>1, <1>6, <2>2
<1>10. SumOver(Chairs, Shared) = w - r /\ Cardinality(P) \in Nat
  <2>1. IsFiniteSet(P)
    BY <1>2, FS_Subset, P \subseteq Players
  <2> QED
    BY <1>1, <1>2, <1>3, <1>8, <1>9, <2>1, FS_CardinalityType
<1> QED
  BY <1>1, <1>2, <1>6, <1>10 DEF EndBalance

\* The banker loses more than he has: the winners get their shares of his score and of what he has won.
LEMMA WinnersShare ==
    ASSUME SettlementInv, BalanceInv, phase = "compare", -win[banker] > score[banker]
    PROVE  EndBalance(Shared)
<1>1. /\ banker \in Chairs /\ score \in [Chairs -> Nat] /\ won \in Nat /\ lost \in Nat
      /\ win \in [Chairs -> Int] /\ win[banker] = lost - won
      /\ SumOver(Players, LossesOf(win)) = lost /\ SumOver(Players, GainsOf(win)) = won
  BY DEF SettlementInv, Amounts, BankerKnown, Totals, BalanceInv
<1>2. /\ score[banker] \in Nat /\ Players \subseteq Chairs /\ IsFiniteSet(Players)
      /\ won \in Nat \ {0} /\ ~(lost > won) /\ \A i \in Players : i # banker
  BY <1>1, PlayersCount DEF Players
<1>3. PICK w \in Nat : w = WinnersGet /\ w = score[banker] + lost
  BY <1>1, <1>2 DEF WinnersGet
<1> DEFINE q == [i \in Players |-> (w * GainsOf(win)[i]) \div won]
           P == {i \in Players : IF lost > won THEN Shared[i] <= 0 ELSE Shared[i] >= 0}
<1>4. ASSUME NEW i \in Players
      PROVE  /\ LossesOf(win)[i] \in Nat /\ GainsOf(win)[i] \in Nat /\ q[i] \in Nat
             /\ q[i] = (w * GainsOf(win)[i]) \div won
             /\ Shared[i] \in Int /\ q[i] = Shared[i] + LossesOf(win)[i]
             /\ i \notin P => GainsOf(win)[i] = 0
  <2>1. i \in Chairs /\ win[i] \in Int /\ i # banker /\ ~(win[banker] > score[banker])
    BY <1>1, <1>2
  <2>2. Shared[i] = IF win[i] > 0 THEN (w * win[i]) \div won ELSE win[i]
    BY <1>3, <2>1 DEF Shared
  <2>3. CASE win[i] > 0
    <3>1. LossesOf(win)[i] = 0 /\ GainsOf(win)[i] = win[i] /\ win[i] \in Nat
      BY <2>1, <2>3 DEF LossesOf, GainsOf
    <3>2. q[i] = (w * win[i]) \div won /\ q[i] \in Nat
      BY <1>2, <3>1, ProductType, QuotientType
    <3>3. Shared[i] = q[i] /\ i \in P
      BY <1>2, <2>2, <2>3, <3>2
    <3> QED
      BY <3>1, <3>2, <3>3
  <2>4. CASE win[i] <= 0
    <3>1. LossesOf(win)[i] = -win[i] /\ GainsOf(win)[i] = 0 /\ -win[i] \in Nat
      BY <2>1, <2>4 DEF LossesOf, GainsOf
    <3>2. q[i] = 0
      <4>1. w * GainsOf(win)[i] = 0
        BY <3>1
      <4>2. 0 \div won <= 0 /\ 0 \div won \in Nat
        BY <1>2, QuotientBound, QuotientType, 0 <= won * 0
      <4> QED
        BY <4>1, <4>2
    <3>3. Shared[i] = win[i]
      BY <2>1, <2>2, <2>4
    <3> QED
      BY <2>1, <3>1, <3>2, <3>3
  <2> QED
    BY <2>1, <2>3, <2>4
<1>5. Shared[banker] = -score[banker]
  BY <1>1, <1>2 DEF Shared
<1> HIDE DEF q
<1>6. PICK r \in Int : r = SumOver(Players, q) /\ r <= w /\ w - r < Cardinality(P)
  <2>1. P \in SUBSET Players
    OBVIOUS
  <2> HIDE DEF P
  <2>2. /\ \A i \in Players : GainsOf(win)[i] \in Nat /\ q[i] = (w * GainsOf(win)[i]) \div won
        /\ \A i \in Players \ P : GainsOf(win)[i] = 0
    BY <1>4
  <2>3. PICK S : S = Players
    OBVIOUS
  <2>4. PICK x : x = GainsOf(win)
    OBVIOUS
  <2>5. PICK t \in Nat \ {0} : t = won
    BY <1>2
  <2>6. /\ IsFiniteSet(S) /\ P \in SUBSET S /\ SumOver(S, x) = t
        /\ \A i \in S : x[i] \in Nat /\ q[i] = (w * x[i]) \div t
        /\ \A i \in S \ P : x[i] = 0
    BY <1>1, <1>2, <2>1, <2>2, <2>3, <2>4, <2>5
  <2>7. SumOver(S, q) \in Int /\ SumOver(S, q) <= w /\ w - SumOver(S, q) < Cardinality(P)
    <3>1. PICK y, U : y = q /\ U = P
      OBVIOUS
    <3>2. /\ IsFiniteSet(S) /\ U \in SUBSET S /\ SumOver(S, x) = t
          /\ \A i \in S : x[i] \in Nat /\ y[i] = (w * x[i]) \div t
          /\ \A i \in S \ U : x[i] = 0
      BY <2>6, <3>1
    <3>3. SumOver(S, y) \in Int /\ SumOver(S, y) <= w /\ w - SumOver(S, y) < Cardinality(U)
      BY <3>2, SharesRest
    <3> QED
      BY <3>1, <3>3
  <2> QED
    BY <2>3, <2>7
<1>7. \A i \in Chairs : Shared[i] \in Int
  BY SharedBound
<1>8. SumOver(Chairs, Shared) = -score[banker] + SumOver(Players, Shared) /\ SumOver(Players, Shared) \in Int
  BY <1>1, <1>5, <1>7, SumWithBanker
<1>9. r = SumOver(Players, Shared) + lost
  <2>1. \A i \in Players : Shared[i] \in Int /\ LossesOf(win)[i] \in Int /\ q[i] = Shared[i] + LossesOf(win)[i]
    BY <1>4
  <2>2. SumOver(Players, q) = SumOver(Players, Shared) + SumOver(Players, LossesOf(win))
    BY <1>2, <2>1, SumOfSums
  <2> QED
    BY <1>1, <1>6, <2>2
<1>10. SumOver(Chairs, Shared) = r - w /\ Cardinality(P) \in Nat
  <2>1. IsFiniteSet(P)
    BY <1>2, FS_Subset, P \subseteq Players
  <2> QED
    BY <1>1, <1>2, <1>3, <1>8, <1>9, <2>1, FS_CardinalityType
<1> QED
  BY <1>1, <1>2, <1>6, <1>10 DEF EndBalance

\* If a sum of natural numbers is not 0, one of them is not.
LEMMA SomeSummand ==
    ASSUME NEW S, IsFiniteSet(S), NEW f, \A i \in S : f[i] \in Nat, SumOver(S, f) # 0
    PROVE  \E i \in S : f[i] > 0
<1> SUFFICES ASSUME \A i \in S : ~(f[i] > 0) PROVE FALSE
  OBVIOUS
<1>1. \A i \in S : f[i] = 0
  OBVIOUS
<1>2. SumOver(S, f) = 0 * Cardinality(S) /\ Cardinality(S) \in Nat
  BY <1>1, SumOfEquals, FS_CardinalityType, 0 \in Int
<1> QED
  BY <1>2

\* Nobody's means are exceeded: nothing is shared, and what some win the others lose.
LEMMA NothingShared ==
    ASSUME SettlementInv, BalanceInv, phase = "compare", ~(win[banker] > score[banker]), ~(-win[banker] > score[banker])
    PROVE  EndBalance(Shared)
<1>1. /\ banker \in Chairs /\ won \in Nat /\ lost \in Nat /\ win \in [Chairs -> Int] /\ win[banker] = lost - won
      /\ SumOver(Players, LossesOf(win)) = lost /\ SumOver(Players, GainsOf(win)) = won /\ Shared = win
  BY DEF SettlementInv, Amounts, BankerKnown, Totals, BalanceInv, Shared
<1>2. Players \subseteq Chairs /\ IsFiniteSet(Players) /\ Cardinality(Players) = Others /\ Others \in Nat \ {0}
  BY <1>1, PlayersCount, OthersPositive DEF Players
<1>3. \A i \in Players : /\ win[i] \in Int /\ LossesOf(win)[i] \in Nat /\ GainsOf(win)[i] \in Nat
                         /\ GainsOf(win)[i] = win[i] + LossesOf(win)[i]
                         /\ (LossesOf(win)[i] > 0 <=> win[i] < 0) /\ (GainsOf(win)[i] > 0 <=> win[i] > 0)
  BY <1>1, <1>2 DEF LossesOf, GainsOf
<1>4. SumOver(Chairs, win) = 0
  <2>1. SumOver(Chairs, win) = win[banker] + SumOver(Players, win) /\ SumOver(Players, win) \in Int
    BY <1>1, SumWithBanker
  <2>2. \A i \in Players : /\ win[i] \in Int /\ LossesOf(win)[i] \in Int
                           /\ GainsOf(win)[i] = win[i] + LossesOf(win)[i]
    BY <1>3
  <2>3. won = SumOver(Players, win) + lost
    BY <1>1, <1>2, <2>2, SumOfSums
  <2> QED
    BY <1>1, <2>1, <2>3
<1> DEFINE P == {i \in Players : IF lost > won THEN win[i] <= 0 ELSE win[i] >= 0}
<1>5. P # {}
  <2>1. CASE lost > won
    <3>1. \E i \in Players : LossesOf(win)[i] > 0
      BY <1>1, <1>2, <1>3, <2>1, SomeSummand
    <3> QED
      BY <1>3, <2>1, <3>1
  <2>2. CASE ~(lost > won) /\ won # 0
    <3>1. \E i \in Players : GainsOf(win)[i] > 0
      BY <1>1, <1>2, <1>3, <2>2, SomeSummand
    <3> QED
      BY <1>3, <2>2, <3>1
  <2>3. CASE ~(lost > won) /\ won = 0
    <3>1. Players # {}
      BY <1>2, FS_EmptySet
    <3>2. ASSUME NEW i \in Players, win[i] < 0 PROVE FALSE
      <4>1. LossesOf(win)[i] > 0 /\ LossesOf(win)[i] \in Nat
        BY <1>3, <3>2
      <4>2. lost = LossesOf(win)[i] + SumOver(Players \ {i}, LossesOf(win))
        <5>1. \A k \in Players : LossesOf(win)[k] \in Int
          BY <1>3
        <5> QED
          BY <1>1, <1>2, <5>1, SumTake
      <4>3. SumOver(Players \ {i}, LossesOf(win)) >= 0 /\ SumOver(Players \ {i}, LossesOf(win)) \in Int
        <5> DEFINE S == Players \ {i}
                   zero == [k \in Players |-> 0]
        <5>1. IsFiniteSet(S)
          BY <1>2, FS_Subset, S \subseteq Players
        <5>2. \A k \in S : zero[k] \in Int /\ LossesOf(win)[k] \in Int /\ zero[k] <= LossesOf(win)[k] /\ zero[k] = 0
          BY <1>3
        <5> HIDE DEF S, zero
        <5>3. SumOver(S, zero) <= SumOver(S, LossesOf(win))
          BY <5>1, <5>2, SumOrder
        <5>4. SumOver(S, zero) = 0 * Cardinality(S) /\ Cardinality(S) \in Nat
          BY <5>1, <5>2, SumOfEquals, FS_CardinalityType, 0 \in Int
        <5>5. SumOver(S, LossesOf(win)) \in Int
          BY <5>1, <5>2, SumType
        <5>6. SumOver(S, LossesOf(win)) >= 0
          BY <5>3, <5>4, <5>5
        <5> QED
          BY <5>5, <5>6 DEF S
      <4> QED
        BY <1>1, <2>3, <4>1, <4>2, <4>3
    <3> QED
      BY <1>3, <2>3, <3>1, <3>2
  <2> QED
    BY <2>1, <2>2, <2>3
<1>6. Cardinality(P) \in Nat /\ Cardinality(P) > 0
  <2>1. IsFiniteSet(P)
    BY <1>2, FS_Subset, P \subseteq Players
  <2> HIDE DEF P
  <2> QED
    BY <1>5, <2>1, FS_CardinalityType, FS_EmptySet
<1> QED
  BY <1>1, <1>4, <1>6 DEF EndBalance

\* At the start there is nothing to balance.
LEMMA InitBalance == Init => BalanceInv
BY DEF Init, BalanceInv, BooksBalance

\* Every step keeps the totals those of the loop, and the end of a round balances.
LEMMA NextBalance == SettlementInv /\ BalanceInv /\ [Next]_vars => BalanceInv'
<1> SUFFICES ASSUME SettlementInv, BalanceInv, [Next]_vars PROVE BalanceInv'
  OBVIOUS
<1>1. CASE UNCHANGED vars
  BY <1>1 DEF vars, BalanceInv, BooksBalance, LossesOf, GainsOf, Players
<1>2. ASSUME NEW i \in Chairs, NEW flag \in Callable(i), OnUserCallBanker(i, flag)
      PROVE  BalanceInv'
  <2>1. phase' \in {"call", "score"}
    BY <1>2 DEF OnUserCallBanker
  <2> QED
    BY <2>1 DEF BalanceInv, BooksBalance
<1>3. ASSUME NEW i \in Chairs, NEW j \in DOMAIN JettionList, OnUserAddScore(i, j)
      PROVE  BalanceInv'
  <2>1. phase' \in {"score", "open"}
    BY <1>3 DEF OnUserAddScore
  <2> QED
    BY <2>1 DEF BalanceInv, BooksBalance
<1>4. ASSUME NEW h \in [Chairs -> Hands], OpenCards(h)
      PROVE  BalanceInv'
  <2>1. /\ phase' = "compare" /\ todo' = Players /\ Players' = Players /\ win' = [i \in Chairs |-> 0]
        /\ won' = 0 /\ lost' = 0 /\ Players \subseteq Chairs /\ IsFiniteSet(Players)
    BY <1>4, PlayersCount DEF OpenCards, SettlementInv, NothingWon, BankerKnown, Players
  <2>2. \A i \in Players : win'[i] = 0 /\ LossesOf(win')[i] = 0 /\ GainsOf(win')[i] = 0
    BY <2>1 DEF LossesOf, GainsOf
  <2>3. /\ SumOver(Players, LossesOf(win')) = 0 * Cardinality(Players)
        /\ SumOver(Players, GainsOf(win')) = 0 * Cardinality(Players) /\ Cardinality(Players) \in Nat
    BY <2>1, <2>2, SumOfEquals, FS_CardinalityType, 0 \in Int
  <2>4. SumOver(Players, LossesOf(win')) = 0 /\ SumOver(Players, GainsOf(win')) = 0
    BY <2>3
  <2> QED
    BY <2>1, <2>2, <2>4 DEF BalanceInv, BooksBalance, LossesOf, GainsOf
<1>5. ASSUME NEW i \in Chairs, Compare(i)
      PROVE  BalanceInv'
  <2>1. /\ phase = "compare" /\ phase' = "compare" /\ i \in todo /\ todo' = todo \ {i} /\ UNCHANGED banker
        /\ i \in Players /\ Players' = Players /\ banker \in Chairs /\ i # banker /\ todo \subseteq Players
        /\ win \in [Chairs -> Int] /\ win' \in [Chairs -> Int] /\ won \in Nat /\ lost \in Nat /\ win[i] = 0
        /\ SumOver(Players, LossesOf(win)) = lost /\ SumOver(Players, GainsOf(win)) = won
    <3>1. win' \in [Chairs -> Int]
      BY <1>5, CompareKeeps DEF SettlementInv, Amounts
    <3> QED
      BY <1>5, <3>1 DEF Compare, SettlementInv, BetsPlaced, BankerKnown, Amounts, BalanceInv, Players
  <2>2. PICK delta \in Nat :
            \/ /\ win' = [win EXCEPT ![i] = -delta, ![banker] = @ + delta]
               /\ lost' = lost + delta /\ won' = won
            \/ /\ win' = [win EXCEPT ![i] = delta, ![banker] = @ - delta]
               /\ won' = won + delta /\ lost' = lost
    <3>1. hand[i] \in Multiples /\ hand[banker] \in Multiples
      BY <2>1 DEF SettlementInv, Amounts
    <3>2. Stake(i, hand[banker]) \in Nat /\ Stake(i, hand[i]) \in Nat
      BY <2>1, <3>1, StakeBound
    <3> QED
      BY <1>5, <3>2 DEF Compare
  <2>3. Players \subseteq Chairs /\ IsFiniteSet(Players) /\ \A k \in Players : k # banker
    BY <2>1, PlayersCount DEF Players
  <2>4. \A k \in Players : k # i => win'[k] = win[k]
    BY <2>1, <2>2, <2>3
  <2>5. \/ win'[i] = -delta /\ lost' = lost + delta /\ won' = won
        \/ win'[i] = delta /\ won' = won + delta /\ lost' = lost
    BY <2>1, <2>2
  <2>6. \A k \in Players : /\ LossesOf(win)[k] \in Int /\ LossesOf(win')[k] \in Int
                           /\ GainsOf(win)[k] \in Int /\ GainsOf(win')[k] \in Int
    BY <2>1, <2>3 DEF LossesOf, GainsOf
  <2>7. \A k \in Players \ {i} : LossesOf(win)[k] = LossesOf(win')[k] /\ GainsOf(win)[k] = GainsOf(win')[k]
    BY <2>3, <2>4 DEF LossesOf, GainsOf
  <2>8. /\ SumOver(Players, LossesOf(win')) = lost + LossesOf(win')[i] - LossesOf(win)[i]
        /\ SumOver(Players, GainsOf(win')) = won + GainsOf(win')[i] - GainsOf(win)[i]
    <3>1. PICK f, g : f = LossesOf(win) /\ g = LossesOf(win')
      OBVIOUS
    <3>2. PICK h, k : h = GainsOf(win) /\ k = GainsOf(win')
      OBVIOUS
    <3>3. PICK S : S = Players
      OBVIOUS
    <3>4. /\ IsFiniteSet(S) /\ i \in S /\ \A n \in S : f[n] \in Int /\ g[n] \in Int /\ h[n] \in Int /\ k[n] \in Int
          /\ \A n \in S \ {i} : f[n] = g[n] /\ h[n] = k[n]
      BY <2>1, <2>3, <2>6, <2>7, <3>1, <3>2, <3>3
    <3>5. SumOver(S, g) = SumOver(S, f) + g[i] - f[i]
      <4>1. IsFiniteSet(S) /\ i \in S /\ (\A n \in S : f[n] \in Int /\ g[n] \in Int) /\ \A n \in S \ {i} : f[n] = g[n]
        BY <3>4
      <4> QED
        BY <4>1, SumChange
    <3>6. SumOver(S, k) = SumOver(S, h) + k[i] - h[i]
      <4>1. IsFiniteSet(S) /\ i \in S /\ (\A n \in S : h[n] \in Int /\ k[n] \in Int) /\ \A n \in S \ {i} : h[n] = k[n]
        BY <3>4
      <4> QED
        BY <4>1, SumChange
    <3> QED
      BY <2>1, <3>1, <3>2, <3>3, <3>5, <3>6
  <2>9. LossesOf(win)[i] = 0 /\ GainsOf(win)[i] = 0
    BY <2>1, <2>3 DEF LossesOf, GainsOf
  <2>10. lost' = lost + LossesOf(win')[i] /\ won' = won + GainsOf(win')[i]
    BY <2>1, <2>3, <2>5 DEF LossesOf, GainsOf
  <2>11. SumOver(Players, LossesOf(win')) = lost' /\ SumOver(Players, GainsOf(win')) = won'
    <3> HIDE DEF LossesOf, GainsOf
    <3> QED
      BY <2>1, <2>6, <2>8, <2>9, <2>10
  <2>12. \A k \in todo' : win'[k] = 0
    BY <2>1, <2>4 DEF BalanceInv
  <2> QED
    BY <2>1, <2>11, <2>12 DEF BalanceInv, BooksBalance, LossesOf, GainsOf
<1>6. CASE NormalGameEnd
  <2>1. phase = "compare" /\ phase' = "end" /\ win' = Shared /\ UNCHANGED <<won, lost, banker>> /\ Players' = Players
    BY <1>6 DEF NormalGameEnd, Players
  <2>2. EndBalance(win')
    BY <2>1, LosersShare, WinnersShare, NothingShared
  <2> QED
    BY <2>1, <2>2 DEF BalanceInv, BooksBalance, EndBalance
<1> QED
  BY <1>1, <1>2, <1>3, <1>4, <1>5, <1>6 DEF Next

\* What some win in a round the others lose, but for a rest of the divisions smaller than the number of those who
\* share, on the side of those who share: for every number of players and all amounts.
THEOREM RoundBalances == Spec => []BooksBalance
<1>1. Init => SettlementInv /\ BalanceInv
  BY InitSettlement, InitBalance
<1>2. SettlementInv /\ BalanceInv /\ [Next]_vars => (SettlementInv /\ BalanceInv)'
  BY NextSettlement, NextBalance
<1>3. BalanceInv => BooksBalance
  BY DEF BalanceInv
<1> QED
  BY <1>1, <1>2, <1>3, PTL DEF Spec
=============================================================================
