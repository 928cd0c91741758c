----------------------------- MODULE Settlement -----------------------------
(***************************************************************************)
(* The money of one round of Game_Qzzjh: what the players may call and     *)
(* bet, who is the banker, and how NormalGameEnd settles the round.        *)
(*                                                                         *)
(* GameRoom has the phases of a round, its messages and its timers; here   *)
(* are the amounts.  They are integers, in the code's order of operations, *)
(* with its divisions.  Cards are abstracted to the type of a hand: of two *)
(* hands of one type either may be the better one.                         *)
(***************************************************************************)
EXTENDS Integers, Sequences, FiniteSets, FiniteSetsExt, Sums

CONSTANTS
    Chairs,         \* the chairs at which somebody sits, numbers from 0
    Androids,       \* the chairs of robot players
    Scores,         \* what a player may bring along, in cents
    Hands,          \* the multiples of the hands that are dealt
    CellScore,      \* floorScore of the room
    JettionList,    \* jettons of the room
    CallMulti,      \* s_CallBankerMulti_
    RevenueRatio,   \* revenueRatio, in percent
    ReduceRatio     \* systemReduceRatio, in thousandths

Multiples == 1 .. 4     \* GetMultiple

ASSUME SettlementAssumption ==
    /\ Chairs \subseteq Nat /\ IsFiniteSet(Chairs) /\ Cardinality(Chairs) >= 2
    /\ Androids \subseteq Chairs
    /\ Scores \subseteq Nat \ {0} /\ Hands \subseteq Multiples
    /\ CellScore \in Nat \ {0}
    /\ JettionList \in Seq(1 .. 20) /\ Len(JettionList) = 4
    /\ CallMulti \in Seq(Nat \ {0}) /\ Len(CallMulti) >= 1
    /\ RevenueRatio \in 0 .. 100 /\ ReduceRatio \in 0 .. 1000

VARIABLES
    phase,      \* "call", "score", "open", "compare", "end"
    score,      \* GetUserScore
    call,       \* callBankerFlag_
    banker,     \* bankerUser_
    bet,        \* addScoreIndex_, as the multiple of multiJettonable_ it stands for
    hand,       \* handCardsType_, as its multiple
    todo,       \* the loop of NormalGameEnd: players not compared yet
    win,        \* userWinScore
    won, lost,  \* totalWinScore, totalLostScore
    stock       \* the change of the system's stock by this round

vars == <<phase, score, call, banker, bet, hand, todo, win, won, lost, stock>>

INVALID_CHAIR == -1
Players == Chairs \ {banker}
Others == Cardinality(Chairs) - 1
-----------------------------------------------------------------------------
Init ==
    /\ phase = "call"
    /\ score \in [Chairs -> Scores]
    /\ call = [i \in Chairs |-> -1]
    /\ banker = INVALID_CHAIR
    /\ bet = [i \in Chairs |-> -1]
    /\ hand = [i \in Chairs |-> 1]
    /\ todo = {}
    /\ win = [i \in Chairs |-> 0]
    /\ won = 0 /\ lost = 0 /\ stock = 0

\* The multiples i may call (multiCallable_, 0 standing for those above his means) beside 0, not to call.
Callable(i) ==
    LET maxCallTimes == score[i] \div (CellScore * Others * 10)
    IN  {0, CallMulti[1]} \cup {CallMulti[j] : j \in {j \in DOMAIN CallMulti : CallMulti[j] <= maxCallTimes}}

\* The first chair of those that have the most.
Richest(S) == {i \in S : \A j \in S : score[j] < score[i] \/ (score[j] = score[i] /\ i <= j)}

\* Who called highest, or RandBanker.
Bankers(flags) ==
    LET callers == {i \in Chairs : flags[i] > 0}
        highest == {i \in callers : \A j \in callers : flags[j] <= flags[i]}
    IN  Richest(IF callers = {} THEN Chairs ELSE highest)

\* OnUserCallBanker, also for OnTimerCallBanker with 0.  With the last call the banker is known.
OnUserCallBanker(i, flag) ==
    LET flags == [call EXCEPT ![i] = flag]
    IN  /\ phase = "call" /\ call[i] = -1
        /\ \/ /\ \E j \in Chairs : flags[j] = -1
              /\ call' = flags
              /\ UNCHANGED <<phase, banker>>
           \/ /\ \A j \in Chairs : flags[j] # -1
              /\ \E b \in Bankers(flags) :
                    /\ call' = IF flags[b] <= 0 THEN [flags EXCEPT ![b] = CallMulti[1]] ELSE flags
                    /\ banker' = b
              /\ phase' = "score"
        /\ UNCHANGED <<score, bet, hand, todo, win, won, lost, stock>>

\* Mutant: the player's own means only.
CallMaxTimesOwn(i) == score[i] \div (CellScore * call[banker])

\* How many times the banker's multiple i may bet: what the banker can pay to everybody and i to the banker.
CallMaxTimes(i) == Min({score[banker] \div (CellScore * Others * call[banker]),
                        score[i] \div (CellScore * call[banker])})

\* multiJettonable_
Jettonable(i) ==
    LET most == CallMaxTimes(i)
    IN  [j \in DOMAIN JettionList |->
            IF most < 5 THEN IF j <= most THEN j ELSE 0
            ELSE IF most < 20 THEN (most * j) \div 4
            ELSE JettionList[j]]

\* OnUserAddScore, also for OnTimerAddScore with the first jetton, which stands for one that is not offered, too.
OnUserAddScore(i, j) ==
    LET bets == [bet EXCEPT ![i] = Jettonable(i)[IF Jettonable(i)[j] <= 0 THEN 1 ELSE j]]
    IN  /\ phase = "score" /\ i \in Players /\ bet[i] = -1
        /\ bet' = bets
        /\ phase' = IF \E k \in Players : bets[k] = -1 THEN "score" ELSE "open"
        /\ UNCHANGED <<score, call, banker, hand, todo, win, won, lost, stock>>

\* The last hand is open: GameConclude begins to compare.
OpenCards(h) ==
    /\ phase = "open"
    /\ phase' = "compare"
    /\ hand' = h
    /\ todo' = Players
    /\ UNCHANGED <<score, call, banker, bet, win, won, lost, stock>>

\* CompareHandCards of the banker's hand and that of i is positive.
BankerMayWin(i) == hand[banker] >= hand[i]
PlayerMayWin(i) == hand[banker] <= hand[i]

\* deltascore: nobody wins or loses more than he has.
Stake(i, multi) == Min({CellScore * multi * call[banker] * bet[i], score[i]})

\* The next player is compared with the banker.
Compare(i) ==
    /\ phase = "compare" /\ i \in todo /\ \A j \in todo : i <= j
    /\ todo' = todo \ {i}
    /\ \/ LET delta == Stake(i, hand[banker])
          IN  /\ BankerMayWin(i)
              /\ win' = [win EXCEPT ![i] = -delta, ![banker] = @ + delta]
              /\ lost' = lost + delta /\ UNCHANGED won
       \/ LET delta == Stake(i, hand[i])
          IN  /\ PlayerMayWin(i)
              /\ win' = [win EXCEPT ![i] = delta, ![banker] = @ - delta]
              /\ won' = won + delta /\ UNCHANGED lost
    /\ UNCHANGED <<phase, score, call, banker, bet, hand, stock>>

\* Mutant: what the banker pays on is forgotten.
LosersPayForgets == score[banker]

\* W: what the losers pay in all to a banker who wins no more than he has, and what he has to pay the winners with.
LosersPay == score[banker] + won
WinnersGet == score[banker] + lost

\* Mutant: a banker's losses are not limited.
SharedUnlimited ==
    IF win[banker] > score[banker]
    THEN [i \in Chairs |-> IF i = banker THEN score[banker]
                           ELSE IF win[i] < 0 THEN -((LosersPay * (-win[i])) \div lost) ELSE win[i]]
    ELSE win

\* The banker wins and loses no more than he has; the losers or the winners share in proportion.  A division cuts
\* off.
Shared ==
    IF win[banker] > score[banker]
    THEN [i \in Chairs |-> IF i = banker THEN score[banker]
                           ELSE IF win[i] < 0 THEN -((LosersPay * (-win[i])) \div lost) ELSE win[i]]
    ELSE IF -win[banker] > score[banker]
    THEN [i \in Chairs |-> IF i = banker THEN -score[banker]
                           ELSE IF win[i] > 0 THEN (WinnersGet * win[i]) \div won ELSE win[i]]
    ELSE win

\* CalculateRevenue of what is won.
Revenue(w) == IF w > 0 THEN (w * RevenueRatio) \div 100 ELSE 0

\* systemWinScore, less CalculateAndroidRevenue.
SystemWin(w) ==
    LET sum == SumOver(Androids, w)
    IN  IF sum > 0 THEN sum - (sum * ReduceRatio) \div 1000 ELSE sum

\* The rest of NormalGameEnd, with UpdateStorageScore and WriteUserScore.
NormalGameEnd ==
    /\ phase = "compare" /\ todo = {}
    /\ phase' = "end"
    /\ win' = Shared
    /\ score' = [i \in Chairs |-> score[i] + Shared[i] - Revenue(Shared[i])]
    /\ stock' = SystemWin(Shared)
    /\ UNCHANGED <<call, banker, bet, hand, todo, won, lost>>

Next ==
    \/ \E i \in Chairs : \E flag \in Callable(i) : OnUserCallBanker(i, flag)
    \/ \E i \in Chairs, j \in DOMAIN JettionList : OnUserAddScore(i, j)
    \/ \E h \in [Chairs -> Hands] : OpenCards(h)
    \/ \E i \in Chairs : Compare(i)
    \/ NormalGameEnd

Spec == Init /\ [][Next]_vars
-----------------------------------------------------------------------------
(* Properties. *)

\* Nobody leaves a round with a debt, and nobody wins more than he brought along, the banker no more than the
\* others, whatever was bet and however often the winnings of the one are cut to the means of another.
SmallForSmall ==
    phase = "end" => \A i \in Chairs :
        LET brought == score[i] - win[i] + Revenue(win[i])
        IN  /\ score[i] >= 0
            /\ -brought <= win[i] /\ win[i] <= brought

\* The bets on offer can be paid, by the banker to all players and by each of them, as long as no hand multiplies
\* them: neither is cut at the settlement of a round of plain hands.
BetsAreCovered ==
    phase \in {"open", "compare"} =>
        LET stake == [i \in Players |-> CellScore * call[banker] * bet[i]]
        IN  /\ \A i \in Players : 0 <= stake[i] /\ stake[i] <= score[i]
            /\ SumOver(Players, stake) <= score[banker]

\* What some win the others lose, but for a rest of the divisions smaller than the number of those who share: it is
\* the losers' gain or the winners' loss, and it is never booked.
BooksBalance ==
    phase = "end" =>
        LET sum == SumOver(Chairs, win)
            sharing == Cardinality({i \in Players : IF lost > won THEN win[i] <= 0 ELSE win[i] >= 0})
        IN  /\ (lost > won => 0 <= sum) /\ (lost <= won => sum <= 0)
            /\ sum < sharing /\ -sum < sharing
=============================================================================
