-------------------------- MODULE MatchCoordinator --------------------------
(***************************************************************************)
(* The MatchCoordinator of backend/app/game_engine/match.py with the part  *)
(* of PokerKitAdapter that moves chips: the hands of a match, the button,  *)
(* the blinds, settlement, a quit, and the end of the match, followed      *)
(* through the chips of every seat.                                        *)
(*                                                                         *)
(* Accounts are identified with their seats 0..N-1 (player_ids is fixed    *)
(* for the match).  PokerKit itself is not in the repository: its betting  *)
(* rounds are the actions Wager, Fold and CollectBets, free in order and   *)
(* outcome except for where the chips go, and its showdown pays the pot    *)
(* to players who have not folded in any way.  MatchActor, which calls     *)
(* settle_hand and start_hand in one step, is the caller modelled here.    *)
(***************************************************************************)
EXTENDS Integers, FiniteSets, Functions

CONSTANTS
    N,              \* number of players
    StartingChips,  \* rules.starting_chips
    SmallBlind,     \* rules.small_blind; the big blind is twice as much
    IncreaseEvery,  \* rules.blind_increase_every_hands
    FixedHands,     \* rules.fixed_hand_count, 0 for winner_takes_all
    ShowdownChoice, \* rules.winner_may_show_hand
    LastStreet,     \* bound: betting rounds of a hand (four in Hold'em)
    MaxHands        \* bound: hands of a match

ASSUME CoordinatorAssumption ==
    /\ N \in 2..8
    /\ StartingChips \in Nat \ {0}
    /\ SmallBlind \in Nat \ {0}
    /\ IncreaseEvery \in Nat \ {0}
    /\ FixedHands \in Nat
    /\ ShowdownChoice \in BOOLEAN
    /\ LastStreet \in Nat \ {0}
    /\ MaxHands \in Nat \ {0}

Seats == 0..(N - 1)

VARIABLES
    status,     \* _status
    button,     \* _button_index
    handNumber, \* _hand_number
    stacks,     \* _stacks, updated when a hand is settled
    players,    \* _hand_player_ids, {} between the last hand and the end
    dealer,     \* the button_account_id given to create_hand
    posted,     \* the blind each seat owes in this hand
    chips,      \* PokerKit's stacks
    bets,       \* PokerKit's bets of the current street
    pot,        \* chips collected from earlier streets
    folded,     \* players who folded
    street,     \* betting round of the hand; LastStreet + 1 is the showdown
    dealtOver,  \* PokerKit played the hand out while it was being dealt
    vanished    \* history: chips that left the match at a quit

handVars == <<players, dealer, posted, chips, bets, pot, folded, street, dealtOver>>
matchVars == <<status, button, handNumber, stacks>>
vars == <<matchVars, handVars, vanished>>

Total == N * StartingChips

-----------------------------------------------------------------------------
(***************************************************************************)
(* Seats and blinds.                                                       *)
(*                                                                         *)
(* Definitions marked "Fault" are not part of the specification: each is   *)
(* the definition after it with one mistake, and is used to see that the   *)
(* properties notice the mistake.                                          *)
(***************************************************************************)

Alive(st) == {s \in Seats: st[s] > 0}

\* How many seats clockwise from s to t.
Distance(s, t) == (t - s + N) % N

\* The first seat of S at d or more seats clockwise from s.
SeatFrom(S, s, d) ==
    CHOOSE t \in S: \A u \in S: Distance((s + d) % N, t) <= Distance((s + d) % N, u)

\* _next_active_button
NextActiveButton(S, b) == SeatFrom(S, b, 0)

\* The seat of S after s, in the order of the hand's account_ids.
After(S, s) == SeatFrom(S, s, 1)

\* blind_amounts: doubles every IncreaseEvery hands.
BlindAmount(n) == SmallBlind * 2 ^ ((n - 1) \div IncreaseEvery)

\* Fault: the button is given the small blind that it shall owe.
RawBlindsAsOwed(S, d, small) ==
    [s \in Seats |->
       IF s \notin S THEN 0
       ELSE IF Cardinality(S) = 2 THEN (IF s = d THEN small ELSE 2 * small)
       ELSE IF s = After(S, d) THEN small
       ELSE IF s = After(S, After(S, d)) THEN 2 * small
       ELSE 0]

\* _raw_blinds, by seat: with two players the button is given the big blind.
RawBlinds(S, d, small) ==
    [s \in Seats |->
       IF s \notin S THEN 0
       ELSE IF Cardinality(S) = 2 THEN (IF s = d THEN 2 * small ELSE small)
       ELSE IF s = After(S, d) THEN small
       ELSE IF s = After(S, After(S, d)) THEN 2 * small
       ELSE 0]

\* PokerKit charges two players the blinds in reverse order.
Owed(S, raw) ==
    [s \in Seats |->
       IF s \in S /\ Cardinality(S) = 2 THEN raw[After(S, s)] ELSE raw[s]]

\* Fault: blinds are not limited to the stack.
Full(a, b) == b

Least(a, b) == IF a < b THEN a ELSE b

-----------------------------------------------------------------------------
\* PokerKit asks nobody when no player of the hand has chips left: it deals the
\* board and, unless the players may choose to show, pays the pot.
PlayedOut(c) == ~ShowdownChoice /\ \A s \in Seats: c[s] = 0

(***************************************************************************)
(* start_hand: the players with chips are dealt in and post their blinds.  *)
(***************************************************************************)
Deal(st, b, n) ==
    /\ handNumber' = n
    /\ players' = Alive(st)
    /\ dealer' = NextActiveButton(Alive(st), b)
    /\ posted' = Owed(Alive(st), RawBlinds(Alive(st), dealer', BlindAmount(n)))
    /\ bets' = [s \in Seats |-> Least(st[s], posted'[s])]
    /\ chips' = [s \in Seats |-> st[s] - bets'[s]]
    /\ pot' = 0
    /\ folded' = {}
    /\ street' = 1
    /\ dealtOver' = PlayedOut(chips')

\* Fault: evaluated with the stacks before the hand.
MatchWasComplete(st) ==
    \/ Cardinality(Alive(stacks)) <= 1
    \/ FixedHands # 0 /\ handNumber >= FixedHands

\* Fault: one hand more than the rules say.
MatchIsOverdue(st) ==
    \/ Cardinality(Alive(st)) <= 1
    \/ FixedHands # 0 /\ handNumber > FixedHands

\* _match_is_complete, evaluated with the settled stacks
MatchIsComplete(st) ==
    \/ Cardinality(Alive(st)) <= 1
    \/ FixedHands # 0 /\ handNumber >= FixedHands

\* settle_hand, then start_hand when the match goes on.
SettleWith(final) ==
    LET st == [s \in Seats |-> IF s \in players THEN final[s] ELSE stacks[s]]
        b == (button + 1) % N
    IN  /\ stacks' = st
        /\ button' = b
        /\ IF MatchIsComplete(st)
             THEN /\ status' = "complete"
                  /\ players' = {}
                  /\ folded' = {}
                  /\ chips' = [s \in Seats |-> 0]
                  /\ bets' = [s \in Seats |-> 0]
                  /\ pot' = 0
                  /\ UNCHANGED <<handNumber, dealer, posted, street, dealtOver>>
             ELSE /\ handNumber < MaxHands
                  /\ UNCHANGED status
                  /\ Deal(st, b, handNumber + 1)

-----------------------------------------------------------------------------
(***************************************************************************)
(* PokerKit: betting.                                                      *)
(***************************************************************************)

In == players \ folded

HighBet == CHOOSE m \in {bets[s]: s \in players}: \A s \in players: bets[s] <= m

\* A player of the hand is asked for a decision: to bet or fold while somebody
\* who did not fold has chips, or to show or muck.  Nothing is asked, and no
\* command gets through, in a hand that was over when it was dealt.
Showdown == street = LastStreet + 1
Playing == players # {} /\ ~dealtOver
DecisionPoint == Playing /\ (Showdown \/ \E s \in In: chips[s] > 0)

\* A call, or all chips.
Wagers(s) == {Least(chips[s], HighBet - bets[s]), chips[s]} \ {0}

Wager(s) ==
    /\ Playing /\ ~Showdown
    /\ s \in In
    /\ \E c \in Wagers(s):
         /\ chips' = [chips EXCEPT ![s] = @ - c]
         /\ bets' = [bets EXCEPT ![s] = @ + c]
    /\ UNCHANGED <<matchVars, players, dealer, posted, pot, folded, street, dealtOver, vanished>>

\* A fold that leaves two players or more.
Fold(s) ==
    /\ DecisionPoint /\ ~Showdown
    /\ s \in In
    /\ Cardinality(In) > 2
    /\ folded' = folded \cup {s}
    /\ UNCHANGED <<matchVars, players, dealer, posted, chips, bets, pot, street, dealtOver,
                   vanished>>

\* The betting round ends.  A showdown waits only when there is a choice.
CollectBets ==
    /\ Playing
    /\ street < IF ShowdownChoice THEN LastStreet + 1 ELSE LastStreet
    /\ street' = street + 1
    /\ pot' = pot + SumFunction(bets)
    /\ bets' = [s \in Seats |-> 0]
    /\ UNCHANGED <<matchVars, players, dealer, posted, chips, folded, dealtOver,
                   vanished>>

\* The ways to divide p chips among W.
Payouts(W, p) == {f \in [W -> 0..p]: SumFunction(f) = p}

\* The hand ends by the rules: the last fold, or a showdown.
HandEnds ==
    /\ Playing
    /\ \E W \in {In} \cup {{s}: s \in IF Cardinality(In) = 2 THEN In ELSE {}}:
         \E f \in Payouts(W, pot + SumFunction(bets)):
           SettleWith([s \in players |-> chips[s] + (IF s \in W THEN f[s] ELSE 0)])
    /\ UNCHANGED vanished

-----------------------------------------------------------------------------
(***************************************************************************)
(* quit_player: the hand ends at once.  Bets return to their owners and    *)
(* the quitter's chips are split among the others in seat order.           *)
(***************************************************************************)

\* Fault: the remainder is dropped.
ShareRoundedDown(amount, R, s) == amount \div Cardinality(R)

\* Fault: the remainder goes to the last recipients.
ShareFromTheEnd(amount, R, s) ==
    amount \div Cardinality(R)
      + (IF Cardinality({r \in R: r > s}) < amount % Cardinality(R) THEN 1 ELSE 0)

\* divmod, the remainder one chip each to the first recipients
Share(amount, R, s) ==
    amount \div Cardinality(R)
      + (IF Cardinality({r \in R: r < s}) < amount % Cardinality(R) THEN 1 ELSE 0)

QuitSettlement(q) ==
    LET R == players \ {q}
    IN  [s \in players |-> IF s = q THEN 0
                           ELSE chips[s] + bets[s] + Share(chips[q] + bets[q], R, s)]

Quit(q) ==
    /\ DecisionPoint
    /\ q \in players
    /\ SettleWith(QuitSettlement(q))
    /\ vanished' = vanished + pot

-----------------------------------------------------------------------------

\* MatchCoordinator.__init__ with a random button, then the first start_hand.
Init ==
    /\ status = "active"
    /\ button \in Seats
    /\ handNumber = 1
    /\ stacks = [s \in Seats |-> StartingChips]
    /\ players = Seats
    /\ dealer = button
    /\ posted = Owed(Seats, RawBlinds(Seats, button, BlindAmount(1)))
    /\ bets = [s \in Seats |-> Least(StartingChips, posted[s])]
    /\ chips = [s \in Seats |-> StartingChips - bets[s]]
    /\ pot = 0
    /\ folded = {}
    /\ street = 1
    /\ dealtOver = PlayedOut(chips)
    /\ vanished = 0

Next ==
    \/ \E s \in Seats: Wager(s) \/ Fold(s) \/ Quit(s)
    \/ CollectBets
    \/ HandEnds

Spec == Init /\ [][Next]_vars
-----------------------------------------------------------------------------
(***************************************************************************)
(* Properties.                                                             *)
(***************************************************************************)

\* The chips of the running hand are those the settled stacks account for, and
\* they are all the chips of the match but those that vanished at a quit: no
\* blind, all-in, settlement, elimination or quit creates or loses any other,
\* and nobody bets chips he does not have.
ChipsAccounted ==
    /\ \A s \in Seats: stacks[s] >= 0 /\ chips[s] >= 0 /\ bets[s] >= 0
    /\ SumFunction(stacks) + vanished = Total
    /\ status = "active" => SumFunction(chips) + SumFunction(bets) + pot = SumFunction(stacks)

\* The match runs exactly as long as its rules say: a running match has two
\* players with chips, all of them in the hand, and hands left to play; a
\* complete one has a single player with chips or has played its last hand.
\* (With the showdown choice, where a quit can take all chips that are left with
\* it, a complete match may also have no player with chips.)
MatchEndsOnTime ==
    IF status = "active"
      THEN /\ Cardinality(Alive(stacks)) >= 2
           /\ players = Alive(stacks)
           /\ FixedHands # 0 => handNumber <= FixedHands
      ELSE \/ Cardinality(Alive(stacks)) = 1
           \/ FixedHands # 0 /\ handNumber = FixedHands

\* Feature.md 125-126: the seat after the button owes the small blind and the
\* next one the big blind; of two players the button owes the small one.  The
\* adapter's order for two players and PokerKit's must cancel out.  The blinds
\* double (Feature.md 128) once for every IncreaseEvery hands played.
BlindsFollowTheDealer ==
    status = "active" =>
      LET small == IF Cardinality(players) = 2 THEN dealer ELSE After(players, dealer)
          big == After(players, small)
      IN  /\ dealer \in players
          /\ posted[big] = 2 * posted[small]
          /\ posted[small] =
               SmallBlind * 2 ^ Cardinality({n \in 1..(handNumber - 1): n % IncreaseEvery = 0})
          /\ \A s \in Seats \ {small, big}: posted[s] = 0

\* Feature.md 185: after a quit nobody else has less than before his bets of
\* the street, all the quitter has at the table is paid out, and of two players
\* the one seated first gets as much as the other or one chip more.
QuitIsFair ==
    [][\A q \in players: Quit(q) =>
         LET gain == [s \in players \ {q} |-> stacks'[s] - chips[s] - bets[s]]
         IN  /\ stacks'[q] = 0
             /\ SumFunction(gain) = chips[q] + bets[q]
             /\ \A r, s \in players \ {q}: r < s => gain[r] - gain[s] \in {0, 1}]_vars

-----------------------------------------------------------------------------
(***************************************************************************)
(* What the documents and tests say and the code does not do.              *)
(***************************************************************************)

\* Architecture.md 440, and Feature.md 185: chips never leave the match.
ChipsConserved == SumFunction(stacks) = Total
=============================================================================
