--------------------------- MODULE TableViewProofs ---------------------------
(***************************************************************************)
(* Theorems about TableView, for every number of versions, players,        *)
(* messages and mounts, and for every range of bets.                       *)
(***************************************************************************)
EXTENDS TableView, FiniteSetTheorems, FunctionTheorems, TLAPS

-----------------------------------------------------------------------------
(* The invariant.                                                          *)

\* State a is b, or was seen before it.
Older(a, b) ==
    /\ a.version <= b.version
    /\ a.version = b.version => a = b
    /\ a.hand <= b.hand
    /\ a.hand = b.hand => a.acts <= b.acts /\ a.board <= b.board

\* What is on the screen is an earlier state of the server, and the baseline
\* for the next sounds is what is on the screen.
ScreenInv ==
    /\ srv \in States /\ Me \in srv.in
    /\ pub # None => pub \in States /\ Me \in pub.in /\ Older(pub, srv)
    /\ prev = pub

\* A range of bets is one of the server's, and that of the version at the
\* server if the private snapshot says it is of it.
DecisionInv ==
    /\ bet \in Nat
    /\ priv # None =>
         /\ priv.version \in 0..srv.version
         /\ priv.version = srv.version => priv.limits = Limits
         /\ priv.limits # None => \E v \in 0..MaxVersion : priv.limits = LimitsAt[v]
    /\ sent # None => sent.version \in 0..srv.version
    /\ BetFits

\* The last message is the last one said; what was read is no later; and
\* nothing came since the panel was touched exactly if the last one was read.
ChatInv ==
    /\ chat \in Seq(Nat) /\ said \in Nat /\ unseen \in Nat
    /\ chat # <<>> => chat[Len(chat)] = said
    /\ read # None => read \in 0..said
    /\ unseen = 0 => read = Latest
    /\ unseen > 0 => chat # <<>> /\ read # said

-----------------------------------------------------------------------------
(* The server.                                                             *)

\* Every step leaves the server's state alone or takes it one version further,
\* in the same hand or to the next.
LEMMA ServerSteps ==
    ASSUME srv \in States, Me \in srv.in, [Next]_vars
    PROVE  /\ srv' \in States /\ Me \in srv'.in
           /\ srv' = srv \/ srv'.version = srv.version + 1
           /\ Older(srv, srv')
  <1>1. CASE Play
    <2>0. srv.version < MaxVersion /\ srv.version + 1 \in 0..MaxVersion
      BY <1>1, TableAssumption DEF Play, States
    <2>1. CASE NextDecision
      <3>1. PICK mine \in BOOLEAN, cards \in {0, IF srv.board = 0 THEN 3 ELSE 1} :
             /\ srv.board + cards <= 5
             /\ srv' = [srv EXCEPT !.version = @ + 1, !.acts = @ + 1, !.board = @ + cards, !.mine = mine]
        BY <2>1 DEF NextDecision
      <3>2. cards \in Nat /\ srv.board + cards \in 0..5
        BY <3>1 DEF States
      <3>3. srv' = [version |-> srv.version + 1, hand |-> srv.hand, in |-> srv.in, acts |-> srv.acts + 1,
                    board |-> srv.board + cards, mine |-> mine, over |-> srv.over]
        BY <3>1 DEF States
      <3> QED BY <2>0, <3>2, <3>3 DEF States, Older
    <2>2. CASE NextHand
      <3>1. PICK left \in SUBSET srv.in, mine \in BOOLEAN :
             /\ Me \in left
             /\ srv' = [srv EXCEPT !.version = @ + 1, !.hand = @ + 1, !.in = left, !.acts = 0,
                                   !.board = 0, !.mine = mine]
        BY <2>2 DEF NextHand
      <3>2. srv' = [version |-> srv.version + 1, hand |-> srv.hand + 1, in |-> left, acts |-> 0,
                    board |-> 0, mine |-> mine, over |-> srv.over]
        BY <3>1 DEF States
      <3>3. left \in SUBSET Players /\ mine \in BOOLEAN
        BY <3>1 DEF States
      <3> QED BY <2>0, <3>1, <3>2, <3>3 DEF States, Older
    <2>3. CASE LastHand
      <3>1. srv' = [version |-> srv.version + 1, hand |-> srv.hand, in |-> srv.in, acts |-> srv.acts + 1,
                    board |-> srv.board, mine |-> FALSE, over |-> TRUE]
        BY <2>3 DEF States, LastHand
      <3> QED BY <2>0, <3>1 DEF States, Older
    <2> QED BY <2>1, <2>2, <2>3, <1>1 DEF Play
  <1>2. CASE srv' = srv
    BY <1>2 DEF States, Older
  <1> QED
    BY <1>1, <1>2 DEF Next, vars, PublicArrives, PrivateArrives, ResultArrives, ResultLeaves,
       LibraryLoads, Prime, ToggleMute, ToggleHidden, Remount, EnterAmount, Bet,
       MessageArrives, ToggleChat

LEMMA OlderTransitive ==
    ASSUME NEW a \in States, NEW b \in States, NEW c \in States, Older(a, b), Older(b, c)
    PROVE  Older(a, c)
  BY TableAssumption DEF Older, States

\* The public snapshot is taken from the server, kept, or dropped with the table.
LEMMA ScreenSteps ==
    ASSUME ScreenInv, [Next]_vars
    PROVE  /\ \/ pub' = pub /\ prev' = prev
              \/ pub' = srv /\ srv' = srv /\ prev' = srv
              \/ pub' = None /\ prev' = None
  BY TableAssumption DEF Next, vars, store, sound, Effects, ScreenInv, Play, PublicArrives, PrivateArrives, ResultArrives,
     ResultLeaves, LibraryLoads, Prime, ToggleMute, ToggleHidden, Remount, EnterAmount, Bet,
     MessageArrives, ToggleChat

LEMMA Screen == Spec => []ScreenInv
  <1>1. Init => ScreenInv
    BY TableAssumption DEF Init, ScreenInv, States, Players
  <1>2. ScreenInv /\ [Next]_vars => ScreenInv'
    <2> SUFFICES ASSUME ScreenInv, [Next]_vars PROVE ScreenInv'
      OBVIOUS
    <2>1. srv' \in States /\ Me \in srv'.in /\ Older(srv, srv')
      BY ServerSteps DEF ScreenInv
    <2>2. CASE pub' = pub /\ prev' = prev
      BY <2>1, <2>2, OlderTransitive DEF ScreenInv
    <2>3. CASE pub' = srv /\ srv' = srv /\ prev' = srv
      BY <2>3, <2>1 DEF ScreenInv
    <2>4. CASE pub' = None /\ prev' = None
      BY <2>4, <2>1 DEF ScreenInv
    <2> QED BY <2>2, <2>3, <2>4, ScreenSteps
  <1> QED BY <1>1, <1>2, PTL DEF Spec

-----------------------------------------------------------------------------
(* Bets.                                                                   *)

\* The steps that leave the user's decision alone.
LEMMA DecisionQuiet ==
    ASSUME ScreenInv, DecisionInv, srv' \in States, srv' = srv \/ srv'.version = srv.version + 1,
           priv' = priv \/ priv' = None, bet' \in Nat, sent' = sent \/ sent' = None
    PROVE  DecisionInv'
  BY DEF ScreenInv, DecisionInv, BetFits, Limits, States

\* A bet that is clamped to a range of the server's is in that range.
LEMMA ClampFits ==
    ASSUME NEW n \in Nat, NEW v \in 0..MaxVersion, priv.limits = LimitsAt[v]
    PROVE  Clamp(n) \in priv.limits.min..priv.limits.max /\ Clamp(n) \in Nat
  BY TableAssumption DEF Clamp

LEMMA DecisionStep ==
    ASSUME ScreenInv, DecisionInv, [Next]_vars
    PROVE  DecisionInv'
  <1>1. srv' \in States /\ (srv' = srv \/ srv'.version = srv.version + 1)
    BY ServerSteps DEF ScreenInv
  <1>2. CASE PrivateArrives
    <2>1. pub.version \in 0..srv.version /\ (pub.version = srv.version => pub.mine = srv.mine)
      BY <1>2 DEF PrivateArrives, ScreenInv, States, Older
    <2>2. Limits # None => \E v \in 0..MaxVersion : Limits = LimitsAt[v]
      BY DEF Limits, ScreenInv, States
    <2> QED BY <1>2, <2>1, <2>2 DEF PrivateArrives, DecisionInv, BetFits, Limits, ScreenInv, States
  <1>3. CASE EnterAmount
    <2>1. PICK n \in Typed : bet' = Clamp(n)
      BY <1>3 DEF EnterAmount
    <2>2. PICK v \in 0..MaxVersion : priv.limits = LimitsAt[v]
      BY <1>3 DEF EnterAmount, ActionBar, DecisionInv
    <2>3. bet' \in Nat
      BY <2>1, <2>2, ClampFits, TableAssumption
    <2> QED BY <1>3, <2>3, DecisionQuiet, <1>1 DEF EnterAmount, store
  <1>4. CASE Bet
    <2>1. PICK v \in 0..MaxVersion : priv.limits = LimitsAt[v]
      BY <1>4 DEF Bet, Buttons, ActionBar, DecisionInv
    <2>2. BetAmount \in priv.limits.min..priv.limits.max
      <3>1. (IF bet = 0 THEN priv.limits.min ELSE bet) \in Nat
        BY <2>1, TableAssumption DEF DecisionInv
      <3> QED BY <3>1, <2>1, ClampFits DEF BetAmount
    <2>3. /\ priv.version \in 0..srv.version
          /\ priv.version = srv.version => priv.limits = Limits
      BY <1>4 DEF Bet, Buttons, ActionBar, DecisionInv
    <2> QED BY <1>4, <2>2, <2>3 DEF Bet, store, DecisionInv, BetFits, Limits
  <1>5. CASE UNCHANGED vars
    BY <1>5, <1>1, DecisionQuiet DEF vars, store, DecisionInv
  <1> QED
    BY <1>1, <1>2, <1>3, <1>4, <1>5, DecisionQuiet DEF DecisionInv, Next, store, KeptPrivate,
       Play, PublicArrives, ResultArrives,
       ResultLeaves, LibraryLoads, Prime, ToggleMute, ToggleHidden, Remount, MessageArrives, ToggleChat

\* PokerTable.tsx, effectiveBetAmount and handleAction: whatever amount an earlier
\* decision left in the field, a bet that is not out of date when it is sent lies
\* within the limits of the decision it is for.
THEOREM BetsFit == Spec => []BetFits
  <1>1. Init => DecisionInv
    BY DEF Init, DecisionInv, BetFits
  <1>2. DecisionInv => BetFits
    BY DEF DecisionInv
  <1> QED BY <1>1, <1>2, DecisionStep, Screen, PTL DEF Spec

-----------------------------------------------------------------------------
(* Chat.                                                                   *)

LEMMA ChatStep ==
    ASSUME ChatInv, [Next]_vars
    PROVE  ChatInv'
  <1>1. CASE MessageArrives
    <2> DEFINE c == Append(chat, said + 1)
               k == 1 + (IF Len(c) > ChatCap THEN Len(c) - ChatCap ELSE 0)
    <2>1. c \in Seq(Nat) /\ Len(c) = Len(chat) + 1 /\ c[Len(c)] = said + 1
      BY DEF ChatInv
    <2>2. k \in 1..Len(c)
      BY <2>1, TableAssumption
    <2>3. chat' = SubSeq(c, k, Len(c))
      BY <1>1 DEF MessageArrives
    <2> HIDE DEF c, k
    <2>4. chat' \in Seq(Nat) /\ Len(chat') = Len(c) - k + 1 /\ chat'[Len(chat')] = said + 1
      BY <2>1, <2>2, <2>3
    <2>6. said' = said + 1 /\ unseen' = unseen + 1 /\ read' = read
      BY <1>1 DEF MessageArrives
    <2>5. chat' # <<>>
      BY <2>4, <2>2, <2>1
    <2> QED BY <2>4, <2>5, <2>6, TableAssumption DEF ChatInv
  <1>2. CASE ToggleChat
    <2>1. Latest # None => chat # <<>> /\ Latest = said
      BY DEF Latest, ChatInv
    <2> QED BY <1>2, <2>1 DEF ToggleChat, ChatInv, Latest
  <1>3. CASE Remount
    BY <1>3, TableAssumption DEF Remount, ChatInv, Latest
  <1>4. CASE UNCHANGED <<chat, said, read, unseen>>
    BY <1>4 DEF ChatInv, Latest
  <1> QED
    BY <1>1, <1>2, <1>3, <1>4 DEF Next, vars, talk, Play, PublicArrives, PrivateArrives, ResultArrives,
       ResultLeaves, LibraryLoads, Prime, ToggleMute, ToggleHidden, EnterAmount, Bet

\* PokerTable.tsx, hasUnreadChat over the list of chat:message in store/game.ts: the
\* badge says there is something new exactly when a message came after the panel
\* was last opened or closed, though the list keeps the newest messages only.
THEOREM BadgeIsRight == Spec => []UnreadIsNew
  <1>1. Init => ChatInv
    BY TableAssumption DEF Init, ChatInv, Latest
  <1>2. ChatInv => UnreadIsNew
    BY TableAssumption DEF ChatInv, UnreadIsNew, HasUnread, Latest
  <1> QED BY <1>1, <1>2, ChatStep, PTL DEF Spec

-----------------------------------------------------------------------------
(* Sounds.                                                                 *)

Results == [match: BOOLEAN, hand: Nat, won: BOOLEAN]
Shown == results \cup {hand, match}

\* The snapshot the next one is compared with; without one, the next is a baseline.
Base == IF prev = None THEN srv ELSE prev

\* A cue of a snapshot that is no news in state s.
PastCue(k, s) ==
    \/ k[1] = "new-hand" /\ k[2] <= s.hand
    \/ k[1] = "action" /\ (k[2] < s.hand \/ (k[2] = s.hand /\ k[3] <= s.acts))
    \/ k[1] = "deal-card" /\ (k[2] < s.hand \/ (k[2] = s.hand /\ k[3] <= s.board))
    \/ k[1] = "your-turn" /\ k[3] <= s.version

SnapshotCue(k) ==
    /\ k[1] \in {"new-hand", "action", "deal-card", "your-turn"}
    /\ k[2] \in Nat /\ k[3] \in Nat

\* The hand of a result is over.
Ended(h) == h \in Nat /\ h <= srv.hand /\ (h = srv.hand => srv.over)

\* A result that was heard is remembered, or can no more arrive.
ResultCue(k) ==
    /\ k[1] \in {"hand", "match"}
    /\ Ended(k[2])
    /\ k \in settledKeys \/ \A r \in Shown : k \notin DeriveSettlementCue(r)

\* What was asked for is no news any more; what shows is settled; and the button
\* is as it was saved.
SoundInv ==
    /\ again = {}
    /\ muted \in BOOLEAN /\ saved \in {"off", "on", "unavailable"}
    /\ saved # "unavailable" => muted = LoadMuted
    /\ \A r \in Shown : r # None => r \in Results /\ Ended(r.hand)
    /\ DeriveSettlementCue(hand) \cup DeriveSettlementCue(match) \subseteq settledKeys
    /\ \A k \in AskedFor : (SnapshotCue(k) /\ PastCue(k, Base)) \/ ResultCue(k)

\* The cues of a snapshot are news to the one before it, and no news to itself.
LEMMA CuesAreNews ==
    ASSUME NEW before \in States, NEW now \in States, Older(before, now),
           NEW k \in DeriveSoundCues(before, now)
    PROVE  /\ SnapshotCue(k) /\ ~PastCue(k, before) /\ PastCue(k, now)
           /\ k[1] = "your-turn" => /\ now.version = k[3] /\ now.mine
                                    /\ before.version = k[3] - 1 /\ ~before.mine
  <1>1. /\ before.version \in Nat /\ before.hand \in Nat /\ before.acts \in Nat /\ before.board \in Nat
        /\ now.version \in Nat /\ now.hand \in Nat /\ now.acts \in Nat /\ now.board \in Nat
        /\ before.mine \in BOOLEAN /\ now.mine \in BOOLEAN
    BY TableAssumption DEF States
  <1>2. IsNext(before, now)
    BY DEF DeriveSoundCues
  <1>3. now.version = before.version + 1
    BY <1>2 DEF IsNext
  <1>4. CASE k = <<"new-hand", now.hand, 0>> /\ now.hand # before.hand
    BY <1>1, <1>3, <1>4 DEF Older, SnapshotCue, PastCue
  <1>5. CASE now.hand = before.hand /\ k \in Keys("action", now.hand, (before.acts + 1)..now.acts)
    <2>1. PICK n \in (before.acts + 1)..now.acts : k = <<"action", now.hand, n>>
      BY <1>5 DEF Keys
    <2> QED BY <1>1, <1>5, <2>1 DEF SnapshotCue, PastCue
  <1>6. CASE now.hand = before.hand /\ k \in Keys("deal-card", now.hand, (before.board + 1)..now.board)
    <2>1. PICK n \in (before.board + 1)..now.board : k = <<"deal-card", now.hand, n>>
      BY <1>6 DEF Keys
    <2> QED BY <1>1, <1>6, <2>1 DEF SnapshotCue, PastCue
  <1>7. CASE k = <<"your-turn", now.hand, now.version>> /\ ~before.mine /\ now.mine
    BY <1>1, <1>3, <1>7 DEF SnapshotCue, PastCue
  <1> QED
    BY <1>2, <1>4, <1>5, <1>6, <1>7 DEF DeriveSoundCues

LEMMA PastStays ==
    ASSUME NEW a \in States, NEW b \in States, Older(a, b),
           NEW k, SnapshotCue(k), PastCue(k, a)
    PROVE  PastCue(k, b)
  <1>1. /\ a.version \in Nat /\ a.hand \in Nat /\ a.acts \in Nat /\ a.board \in Nat
        /\ b.version \in Nat /\ b.hand \in Nat /\ b.acts \in Nat /\ b.board \in Nat
    BY TableAssumption DEF States
  <1>2. /\ a.version <= b.version /\ a.hand <= b.hand
        /\ a.hand = b.hand => a.acts <= b.acts /\ a.board <= b.board
    BY DEF Older
  <1>3. CASE k[1] = "new-hand" /\ k[2] <= a.hand
    BY <1>1, <1>2, <1>3 DEF SnapshotCue, PastCue
  <1>4. CASE k[1] = "action" /\ (k[2] < a.hand \/ (k[2] = a.hand /\ k[3] <= a.acts))
    BY <1>1, <1>2, <1>4 DEF SnapshotCue, PastCue
  <1>5. CASE k[1] = "deal-card" /\ (k[2] < a.hand \/ (k[2] = a.hand /\ k[3] <= a.board))
    BY <1>1, <1>2, <1>5 DEF SnapshotCue, PastCue
  <1>6. CASE k[1] = "your-turn" /\ k[3] <= a.version
    BY <1>1, <1>2, <1>6 DEF SnapshotCue, PastCue
  <1> QED BY <1>3, <1>4, <1>5, <1>6 DEF PastCue

LEMMA SettlementKey ==
    ASSUME NEW r, r # None => r \in Results, NEW k \in DeriveSettlementCue(r)
    PROVE  r # None /\ k[1] \in {"hand", "match"} /\ k[2] = r.hand
  BY DEF DeriveSettlementCue, Results

LEMMA BaseMoves ==
    ASSUME ScreenInv, ScreenInv', srv' = srv \/ prev' = prev, Older(srv, srv'),
           prev' = prev \/ prev' = srv \/ prev' = None
    PROVE  Base \in States /\ Base' \in States /\ Older(Base, Base')
  <1>1. srv \in States /\ srv' \in States /\ srv # None
    BY TableAssumption DEF ScreenInv
  <1>2. \A s \in States : Older(s, s)
    BY TableAssumption DEF Older, States
  <1> QED BY <1>1, <1>2, OlderTransitive DEF ScreenInv, Base

\* The steps after which nothing new was asked for.
LEMMA SoundQuiet ==
    ASSUME SoundInv, ScreenInv, ScreenInv', [Next]_vars,
           again' = again, AskedFor' \subseteq AskedFor,
           muted' \in BOOLEAN, saved' \in {"off", "on", "unavailable"},
           saved' # "unavailable" => muted' = LoadMuted',
           srv' = srv \/ prev' = prev, prev' = prev \/ prev' = None,
           \/ UNCHANGED <<srv, settledKeys, hand, match>> /\ results' \subseteq results
           \/ UNCHANGED srv /\ settledKeys' = {} /\ hand' = None /\ match' = None /\ results' = {}
    PROVE  SoundInv'
  <1>1. Base \in States /\ Base' \in States /\ Older(Base, Base')
    BY BaseMoves, ServerSteps DEF ScreenInv
  <1>2. ASSUME NEW k \in AskedFor', SnapshotCue(k), PastCue(k, Base)
        PROVE  PastCue(k, Base')
    BY <1>1, <1>2, PastStays
  <1>3. DeriveSettlementCue(None) = {}
    BY DEF DeriveSettlementCue
  <1>4. ASSUME NEW k \in AskedFor', ResultCue(k)
        PROVE  ResultCue(k)'
    BY <1>3, <1>4 DEF ResultCue, Ended, Shown, DeriveSettlementCue
  <1>5. \A k \in AskedFor' : (SnapshotCue(k) /\ PastCue(k, Base))' \/ ResultCue(k)'
    BY <1>2, <1>4 DEF SoundInv, SnapshotCue, PastCue
  <1>6. \A r \in Shown' : r # None => r \in Results /\ Ended(r.hand)'
    BY DEF SoundInv, Shown, Ended
  <1>7. (DeriveSettlementCue(hand) \cup DeriveSettlementCue(match) \subseteq settledKeys)'
    BY <1>3 DEF SoundInv, DeriveSettlementCue
  <1> QED BY <1>5, <1>6, <1>7 DEF SoundInv

\* What one render asks for is news, and remembered.
Cues == IF pub' = None THEN {} ELSE DeriveSoundCues(prev, pub')
Result == DeriveSettlementCue(hand') \cup DeriveSettlementCue(match')
Got == IF muted' THEN {} ELSE Cues \cup (Result \ settledKeys)

LEMMA EffectsExpanded ==
    ASSUME Effects
    PROVE  /\ prev' = IF pub' = None THEN prev ELSE pub'
           /\ settledKeys' = settledKeys \cup Result
           /\ AskedFor' \subseteq AskedFor \cup Got
           /\ Got \cap AskedFor = {} => again' = again
           /\ hidden => heard' = heard
           /\ Got = {} => AskedFor' = AskedFor
  BY DEF Effects, Record, PlaySounds, Cues, Result, Got, AskedFor

LEMMA CuesOfRender ==
    ASSUME ScreenInv, ScreenInv', pub' = pub \/ pub' = srv, srv' = srv,
           NEW k \in Cues
    PROVE  /\ pub' # None /\ prev # None /\ prev = Base
           /\ SnapshotCue(k) /\ ~PastCue(k, prev) /\ PastCue(k, pub')
           /\ k[1] = "your-turn" => /\ pub'.version = k[3] /\ pub'.mine
                                    /\ prev.version = k[3] - 1 /\ ~prev.mine
  <1>1. pub' # None /\ k \in DeriveSoundCues(prev, pub')
    BY DEF Cues
  <1>2. prev # None
    BY <1>1 DEF DeriveSoundCues, IsNext
  <1>3. prev \in States /\ pub' \in States
    BY <1>1, <1>2 DEF ScreenInv
  <1>4. Older(prev, pub')
    <2>1. \A s \in States : Older(s, s)
      BY TableAssumption DEF Older, States
    <2> QED BY <1>2, <1>3, <2>1 DEF ScreenInv
  <1> QED BY <1>1, <1>2, <1>3, <1>4, CuesAreNews DEF Base

LEMMA EffectsStep ==
    ASSUME SoundInv, ScreenInv, ScreenInv', [Next]_vars, Effects,
           srv' = srv, pub' = pub \/ pub' = srv, results' \subseteq results,
           hand' \in results \cup {hand, None}, match' \in results \cup {match, None},
           muted' \in BOOLEAN, saved' \in {"off", "on", "unavailable"},
           saved' # "unavailable" => muted' = LoadMuted'
    PROVE  SoundInv'
  <1>1. \A r \in Shown' : r # None => r \in Results /\ Ended(r.hand) /\ Ended(r.hand)' /\ r \in Shown
    BY DEF SoundInv, Shown, Ended
  <1>2. DeriveSettlementCue(None) = {}
    BY DEF DeriveSettlementCue
  <1>3. ASSUME NEW k \in Result
        PROVE  k[1] \in {"hand", "match"} /\ Ended(k[2])' /\ (k \in AskedFor => k \in settledKeys)
    <2>1. PICK r : r \in {hand', match'} /\ k \in DeriveSettlementCue(r)
      BY <1>3 DEF Result
    <2>2. r # None /\ r \in Shown' /\ r \in Results
      BY <1>1, <1>2, <2>1 DEF Shown
    <2>3. k[1] \in {"hand", "match"} /\ k[2] = r.hand
      BY <2>1, <2>2, SettlementKey
    <2>4. k \in AskedFor => k \in settledKeys
      BY <1>1, <2>1, <2>2, <2>3 DEF SoundInv, ResultCue, SnapshotCue
    <2> QED BY <1>1, <2>2, <2>3, <2>4
  <1>4. ASSUME NEW k \in Cues
        PROVE  k \notin AskedFor
    BY <1>4, CuesOfRender DEF SoundInv, SnapshotCue, ResultCue
  <1>5. again' = {}
    BY <1>3, <1>4, EffectsExpanded DEF Got, SoundInv
  <1>6. settledKeys' = settledKeys \cup Result
    BY EffectsExpanded
  <1>7. Base \in States /\ Base' \in States /\ Older(Base, Base')
    <2>1. prev' = prev \/ prev' = srv \/ prev' = None
      BY EffectsExpanded DEF ScreenInv
    <2> QED BY <2>1, BaseMoves, ServerSteps DEF ScreenInv
  <1>8. ASSUME NEW k \in AskedFor'
        PROVE  ((SnapshotCue(k) /\ PastCue(k, Base)) \/ ResultCue(k))'
    <2>1. CASE k \in AskedFor /\ SnapshotCue(k) /\ PastCue(k, Base)
      BY <1>7, <2>1, PastStays DEF SnapshotCue, PastCue
    <2>2. CASE k \in AskedFor /\ ResultCue(k)
      BY <1>1, <1>2, <1>6, <2>2 DEF ResultCue, Ended, Shown, DeriveSettlementCue
    <2>3. CASE k \in Cues
      <3>1. SnapshotCue(k) /\ PastCue(k, pub') /\ pub' # None
        BY <2>3, CuesOfRender
      <3>2. Base' = pub'
        BY <3>1, EffectsExpanded DEF Base, ScreenInv
      <3> QED BY <3>1, <3>2 DEF SnapshotCue, PastCue
    <2>4. CASE k \in Result
      BY <1>3, <1>6, <2>4 DEF ResultCue
    <2> QED BY <2>1, <2>2, <2>3, <2>4, EffectsExpanded DEF SoundInv, Got
  <1> QED
    BY <1>1, <1>5, <1>6, <1>8 DEF SoundInv, Result

LEMMA PlayStep ==
    ASSUME SoundInv, ScreenInv, ScreenInv', Play
    PROVE  SoundInv'
  <1>1. srv.hand \in Nat /\ srv'.hand \in Nat /\ srv.over \in BOOLEAN /\ ~srv.over
        /\ srv' \in States /\ srv \in States
    BY DEF Play, ScreenInv, States
  <1>2. /\ srv'.hand = srv.hand \/ srv'.hand = srv.hand + 1
        /\ \A r \in results' \ results : /\ r \in Results /\ r.hand = srv.hand
                                         /\ srv'.hand # srv.hand \/ srv'.over
    <2>1. CASE NextDecision
      BY <1>1, <2>1 DEF NextDecision, States
    <2>2. CASE NextHand
      <3>1. srv'.hand = srv.hand + 1
        BY <1>1, <2>2 DEF NextHand, States
      <3>2. \A r \in results' \ results : r = [match |-> FALSE, hand |-> srv.hand, won |-> TRUE]
        BY <2>2 DEF NextHand
      <3>3. [match |-> FALSE, hand |-> srv.hand, won |-> TRUE] \in Results
        BY <1>1 DEF Results
      <3>4. ASSUME NEW r \in results' \ results
            PROVE  r \in Results /\ r.hand = srv.hand
        <4>1. r \in Results
          BY <3>2, <3>3, <3>4
        <4>2. r.hand = srv.hand
          BY <3>2, <3>4
        <4> QED BY <4>1, <4>2
      <3> QED BY <1>1, <3>1, <3>4
    <2>3. CASE LastHand
      <3>1. srv'.hand = srv.hand /\ srv'.over = TRUE
        BY <1>1, <2>3 DEF LastHand, States
      <3>2. PICK won \in BOOLEAN : results' = results \cup {[match |-> FALSE, hand |-> srv.hand, won |-> won],
                                                        [match |-> TRUE, hand |-> srv.hand, won |-> won]}
        BY <2>3 DEF LastHand
      <3>3. \A b \in BOOLEAN : [match |-> b, hand |-> srv.hand, won |-> won] \in Results
        BY <1>1 DEF Results
      <3>4. ASSUME NEW r \in results' \ results
            PROVE  r \in Results /\ r.hand = srv.hand
        <4>1. r \in Results
          BY <3>2, <3>3, <3>4
        <4>2. r.hand = srv.hand
          BY <3>2, <3>4
        <4> QED BY <4>1, <4>2
      <3> QED BY <1>1, <3>1, <3>4
    <2> QED BY <2>1, <2>2, <2>3 DEF Play
  <1>3. \A h : Ended(h) => Ended(h)'
    BY <1>1, <1>2 DEF Ended
  <1>4. \A r \in results' \ results : r \in Results /\ Ended(r.hand)' /\ ~Ended(r.hand)
    BY <1>1, <1>2 DEF Ended
  <1>5. UNCHANGED <<pub, priv, hand, match, prev, settledKeys, heard, again, library, waiting, muted, saved>>
    BY DEF Play, store, sound, mute
  <1>6. \A r \in Shown' : r # None => r \in Results /\ Ended(r.hand)'
    BY <1>3, <1>4, <1>5 DEF SoundInv, Shown
  <1>7. Base \in States /\ Base' \in States /\ Older(Base, Base')
    BY <1>5, BaseMoves, ServerSteps DEF ScreenInv, Next
  <1>8. ASSUME NEW k \in AskedFor'
        PROVE  ((SnapshotCue(k) /\ PastCue(k, Base)) \/ ResultCue(k))'
    <2>1. k \in AskedFor
      BY <1>5 DEF AskedFor
    <2>2. CASE SnapshotCue(k) /\ PastCue(k, Base)
      BY <1>7, <2>2, PastStays DEF SnapshotCue, PastCue
    <2>3. CASE ResultCue(k)
      <3>1. \A r \in results' \ results : k \notin DeriveSettlementCue(r)
        BY <1>4, <2>3, SettlementKey DEF ResultCue
      <3> QED BY <1>3, <1>5, <2>3, <3>1 DEF ResultCue, Shown, DeriveSettlementCue
    <2> QED BY <2>1, <2>2, <2>3 DEF SoundInv
  <1> QED BY <1>5, <1>6, <1>8 DEF SoundInv, LoadMuted, DeriveSettlementCue

LEMMA SoundStep ==
    ASSUME SoundInv, ScreenInv, ScreenInv', [Next]_vars
    PROVE  SoundInv'
  <1> USE DEF LoadMuted
  <1>1. CASE Play
    BY <1>1, PlayStep
  <1>2. CASE PublicArrives
    BY <1>2, EffectsStep DEF PublicArrives, mute, SoundInv
  <1>3. CASE PrivateArrives
    BY <1>3, EffectsStep DEF PrivateArrives, mute, SoundInv
  <1>4. CASE ResultArrives
    BY <1>4, EffectsStep DEF ResultArrives, mute, SoundInv
  <1>5. CASE ResultLeaves
    BY <1>5, EffectsStep DEF ResultLeaves, mute, SoundInv
  <1>6. CASE ToggleMute
    <2>1. saved' \in {"off", "on", "unavailable"} /\ muted' \in BOOLEAN
          /\ (saved' # "unavailable" => (muted' <=> saved' = "on"))
      BY <1>6 DEF ToggleMute, SoundInv
    <2> QED BY <1>6, <2>1, EffectsStep DEF ToggleMute, store, SoundInv
  <1>7. CASE LibraryLoads
    BY <1>7, SoundQuiet DEF LibraryLoads, store, mute, SoundInv, AskedFor
  <1>8. CASE Remount
    <2>1. AskedFor' \subseteq AskedFor
      BY <1>8 DEF Remount, AskedFor
    <2>2. muted' \in BOOLEAN /\ (saved' # "unavailable" => muted' = LoadMuted')
      BY <1>8 DEF Remount, SoundInv
    <2> QED BY <1>8, <2>1, <2>2, SoundQuiet DEF Remount, SoundInv
  <1>9. CASE UNCHANGED <<srv, results, store, prev, settledKeys, heard, again, waiting, muted, saved>>
    BY <1>9, SoundQuiet DEF store, SoundInv, AskedFor
  <1> QED
    BY <1>1, <1>2, <1>3, <1>4, <1>5, <1>6, <1>7, <1>8, <1>9 DEF Next, vars, sound, mute, Prime, ToggleHidden,
       EnterAmount, Bet, MessageArrives, ToggleChat

LEMMA Sounds == Spec => []SoundInv
  <1>1. Init => SoundInv
    BY TableAssumption DEF Init, SoundInv, Shown, AskedFor, LoadMuted, DeriveSettlementCue
  <1> QED BY <1>1, SoundStep, Screen, PTL DEF Spec

\* The steps after which nothing new was asked for are silent or play what waited.
LEMMA TurnCuesOfRender ==
    ASSUME ScreenInv, ScreenInv', SoundInv, Effects, srv' = srv, pub' = pub \/ pub' = srv,
           hand' \in results \cup {hand, None}, match' \in results \cup {match, None}
    PROVE  \A k \in TurnCues(AskedFor' \ AskedFor) :
               pub'.version = k[3] /\ pub'.mine /\ prev.version = k[3] - 1 /\ ~prev.mine
  <1> SUFFICES ASSUME NEW k \in AskedFor' \ AskedFor, k[1] = "your-turn"
               PROVE  pub'.version = k[3] /\ pub'.mine /\ prev.version = k[3] - 1 /\ ~prev.mine
    BY DEF TurnCues
  <1>1. k \in Cues \/ k \in Result
    BY EffectsExpanded DEF Got
  <1>2. CASE k \in Result
    <2>1. PICK r : r \in {hand', match'} /\ k \in DeriveSettlementCue(r)
      BY <1>2 DEF Result
    <2>2. r # None => r \in Results
      BY <2>1 DEF SoundInv, Shown
    <2> QED BY <2>1, <2>2, SettlementKey
  <1> QED BY <1>1, <1>2, CuesOfRender

\* The button is pressed: nothing is asked for that was silent before.
LEMMA UnmutingIsSilent ==
    ASSUME ScreenInv, ScreenInv', SoundInv, ToggleMute
    PROVE  AskedFor' = AskedFor
  <1>1. pub' = pub /\ hand' = hand /\ match' = match /\ prev = pub
    BY DEF ToggleMute, store, ScreenInv
  <1>2. Result \subseteq settledKeys
    BY <1>1 DEF Result, SoundInv, DeriveSettlementCue
  <1>3. Cues = {}
    <2>1. pub # None => pub.version \in Nat
      BY TableAssumption DEF ScreenInv, States
    <2> QED BY <1>1, <2>1 DEF Cues, DeriveSoundCues, IsNext
  <1>4. Got = {}
    BY <1>2, <1>3 DEF Got
  <1> QED BY <1>4, EffectsExpanded DEF ToggleMute

\* sound/derive.ts, provider.tsx and engine.ts: no cue is played twice, nothing is
\* played while muted or hidden, and a turn is announced only for the very snapshot
\* that gives it, whatever snapshots were missed and however often the table is
\* mounted again.
THEOREM SoundsNews == Spec => SoundsAreNews
  <1> DEFINE News ==
               /\ again' = {}
               /\ muted /\ ~muted' /\ mounts' = mounts => AskedFor' = AskedFor
               /\ hidden \/ hidden' => heard' = heard
               /\ mounts' # mounts /\ saved # "unavailable" => muted' = muted
               /\ \A k \in TurnCues(AskedFor' \ AskedFor) :
                    pub'.version = k[3] /\ pub'.mine /\ prev.version = k[3] - 1 /\ ~prev.mine
  <1>1. ASSUME SoundInv, ScreenInv, SoundInv', ScreenInv', [Next]_vars
        PROVE  [News]_vars
    <2> SUFFICES ASSUME Next PROVE News
      BY <1>1
    <2>0. again' = {}
      BY <1>1 DEF SoundInv
    <2>1. CASE Play
      BY <2>0, <2>1 DEF Play, store, sound, mute, AskedFor, TurnCues
    <2>2. CASE PublicArrives
      BY <1>1, <2>0, <2>2, TurnCuesOfRender, EffectsExpanded DEF PublicArrives, mute
    <2>3. CASE PrivateArrives
      BY <1>1, <2>0, <2>3, TurnCuesOfRender, EffectsExpanded DEF PrivateArrives, mute
    <2>4. CASE ResultArrives
      BY <1>1, <2>0, <2>4, TurnCuesOfRender, EffectsExpanded DEF ResultArrives, mute
    <2>5. CASE ResultLeaves
      BY <1>1, <2>0, <2>5, TurnCuesOfRender, EffectsExpanded DEF ResultLeaves, mute
    <2>6. CASE ToggleMute
      <3>1. AskedFor' = AskedFor
        BY <1>1, <2>6, UnmutingIsSilent
      <3> QED BY <2>0, <2>6, <3>1 DEF ToggleMute, TurnCues
    <2>7. CASE LibraryLoads
      BY <2>0, <2>7 DEF LibraryLoads, mute, AskedFor, TurnCues
    <2>8. CASE Remount
      BY <1>1, <2>0, <2>8 DEF Remount, AskedFor, TurnCues, SoundInv
    <2>9. CASE Prime \/ ToggleHidden \/ EnterAmount \/ Bet \/ MessageArrives \/ ToggleChat
      BY <2>0, <2>9 DEF Prime, ToggleHidden, EnterAmount, Bet, MessageArrives, ToggleChat,
         sound, mute, AskedFor, TurnCues
    <2> QED BY <2>1, <2>2, <2>3, <2>4, <2>5, <2>6, <2>7, <2>8, <2>9 DEF Next
  <1>2. Spec => [][News]_vars
    BY <1>1, Sounds, Screen, PTL DEF Spec
  <1> QED BY <1>2 DEF SoundsAreNews

-----------------------------------------------------------------------------
(* The ring.                                                               *)

\* Who sits before a player: as many as his rank, the ranks are in the order of
\* the seats, and every rank below the number of players is somebody's.
LEMMA Ranks ==
    ASSUME NEW ps \in SUBSET Players
    PROVE  /\ Cardinality(ps) \in 0..8
           /\ \A p \in ps : Before(p, ps) \in 0..(Cardinality(ps) - 1)
           /\ \A p, q \in ps : SeatOf[p] < SeatOf[q] => Before(p, ps) < Before(q, ps)
           /\ \A r \in 0..(Cardinality(ps) - 1) : \E p \in ps : Before(p, ps) = r
  <1> DEFINE n == Cardinality(ps)
             Those(p) == {q \in ps : SeatOf[q] < SeatOf[p]}
  <1>1. IsFiniteSet(ps) /\ n \in 0..8
    <2>1. IsFiniteSet(Players)
      BY TableAssumption, FS_Singleton, FS_Union DEF Players
    <2> QED BY <2>1, TableAssumption, FS_Subset, FS_CardinalityType
  <1>2. \A p \in ps : IsFiniteSet(Those(p)) /\ Before(p, ps) = Cardinality(Those(p)) /\ Before(p, ps) \in Nat
    BY <1>1, FS_Subset, FS_CardinalityType DEF Before
  <1>3. ASSUME NEW p \in ps, NEW q \in ps, SeatOf[p] < SeatOf[q]
        PROVE  Before(p, ps) < Before(q, ps)
    <2>1. Those(p) \in SUBSET Those(q) /\ p \in Those(q) /\ p \notin Those(p)
      BY <1>3, TableAssumption
    <2> HIDE DEF Those
    <2>2. Cardinality(Those(p)) <= Cardinality(Those(q)) /\ Cardinality(Those(p)) # Cardinality(Those(q))
      BY <1>2, <2>1, FS_Subset
    <2> QED BY <1>2, <2>2
  <1>4. ASSUME NEW p \in ps
        PROVE  Before(p, ps) \in 0..(n - 1)
    <2>1. Those(p) \in SUBSET ps /\ p \notin Those(p)
      BY TableAssumption
    <2> HIDE DEF Those
    <2>2. Cardinality(Those(p)) <= n /\ Cardinality(Those(p)) # n
      BY <1>1, <2>1, FS_Subset
    <2> QED BY <1>1, <1>2, <2>2
  <1> DEFINE f == [p \in ps |-> Before(p, ps)]
  <1>5. f \in Injection(ps, 0..(n - 1))
    <2>1. f \in [ps -> 0..(n - 1)]
      BY <1>4
    <2>2. ASSUME NEW p \in ps, NEW q \in ps, p # q PROVE f[p] # f[q]
      <3>1. SeatOf[p] # SeatOf[q] /\ SeatOf[p] \in Nat /\ SeatOf[q] \in Nat
        BY <2>2, TableAssumption
      <3>2. Before(p, ps) \in Nat /\ Before(q, ps) \in Nat
        BY <1>2
      <3> QED BY <1>3, <3>1, <3>2
    <2> QED BY <2>1, <2>2, Fun_IsInj
  <1>6. f \in Surjection(ps, 0..(n - 1))
    <2>1. IsFiniteSet(0..(n - 1)) /\ Cardinality(0..(n - 1)) = n
      BY <1>1, FS_Interval
    <2> QED BY <1>5, <2>1, FS_Injection
  <1>7. \A r \in 0..(n - 1) : \E p \in ps : Before(p, ps) = r
    <2>1. \A r \in 0..(n - 1) : \E p \in ps : f[p] = r
      BY <1>6 DEF Surjection
    <2> QED BY <2>1
  <1> QED BY <1>1, <1>3, <1>4, <1>7

\* The players in the order of their seats.
LEMMA SeatOrderFacts ==
    ASSUME NEW ps \in SUBSET Players
    PROVE  /\ SeatOrder(ps) \in Seq(ps) /\ Len(SeatOrder(ps)) = Cardinality(ps)
           /\ \A i \in 1..Cardinality(ps) : Before(SeatOrder(ps)[i], ps) = i - 1
           /\ \A p \in ps : \E i \in 1..Cardinality(ps) : SeatOrder(ps)[i] = p
           /\ \A i, j \in 1..Cardinality(ps) :
                  i < j => SeatOf[SeatOrder(ps)[i]] < SeatOf[SeatOrder(ps)[j]]
  <1> DEFINE n == Cardinality(ps)
             s == SeatOrder(ps)
  <1>1. n \in 0..8
    BY Ranks
  <1>2. ASSUME NEW i \in 1..n PROVE s[i] \in ps /\ Before(s[i], ps) = i - 1
    <2>1. \E p \in ps : Before(p, ps) = i - 1
      BY <1>1, Ranks
    <2> QED BY <2>1 DEF SeatOrder
  <1>3. s \in Seq(ps) /\ Len(s) = n
    BY <1>1, <1>2 DEF SeatOrder
  <1>4. ASSUME NEW p \in ps, NEW q \in ps, Before(p, ps) = Before(q, ps) PROVE p = q
    <2>1. SeatOf[p] \in Nat /\ SeatOf[q] \in Nat
      BY TableAssumption
    <2>2. Before(p, ps) \in 0..(n - 1) /\ Before(q, ps) \in 0..(n - 1)
      BY Ranks
    <2>3. ~(SeatOf[p] < SeatOf[q]) /\ ~(SeatOf[q] < SeatOf[p])
      BY <1>4, <2>2, Ranks
    <2> QED BY <2>1, <2>3, TableAssumption
  <1>5. ASSUME NEW p \in ps PROVE \E i \in 1..n : s[i] = p
    <2>1. Before(p, ps) \in 0..(n - 1)
      BY Ranks
    <2>2. Before(p, ps) + 1 \in 1..n
      BY <1>1, <2>1
    <2>3. Before(s[Before(p, ps) + 1], ps) = Before(p, ps) /\ s[Before(p, ps) + 1] \in ps
      BY <1>2, <2>1, <2>2
    <2> QED BY <1>4, <2>2, <2>3
  <1>6. ASSUME NEW i \in 1..n, NEW j \in 1..n, i < j PROVE SeatOf[s[i]] < SeatOf[s[j]]
    <2>1. s[i] \in ps /\ s[j] \in ps /\ Before(s[i], ps) = i - 1 /\ Before(s[j], ps) = j - 1
      BY <1>2
    <2>2. SeatOf[s[i]] \in Nat /\ SeatOf[s[j]] \in Nat
      BY <2>1, TableAssumption
    <2>3. ~(SeatOf[s[j]] < SeatOf[s[i]])
      BY <1>6, <1>1, <2>1, Ranks
    <2>4. s[i] # s[j]
      BY <1>6, <2>1
    <2> QED BY <2>1, <2>2, <2>3, <2>4, TableAssumption
  <1> QED BY <1>2, <1>3, <1>5, <1>6

\* The seat after that of a player: the next in the order, and after the last the first.
LEMMA NextSeatFacts ==
    ASSUME NEW ps \in SUBSET Players, NEW i \in 1..Cardinality(ps)
    PROVE  NextSeat(SeatOrder(ps)[i], ps) = SeatOrder(ps)[(i % Cardinality(ps)) + 1]
  <1> DEFINE n == Cardinality(ps)
             s == SeatOrder(ps)
             after == {q \in ps : SeatOf[q] > SeatOf[s[i]]}
             Least(qs) == CHOOSE q \in qs : \A r \in qs : SeatOf[q] <= SeatOf[r]
  <1>0. NextSeat(s[i], ps) = IF after # {} THEN Least(after) ELSE Least(ps)
    BY DEF NextSeat
  <1>1. n \in 1..8
    BY Ranks
  <1>2. /\ \A j \in 1..n : s[j] \in ps /\ SeatOf[s[j]] \in Nat
        /\ \A p \in ps : \E j \in 1..n : s[j] = p
        /\ \A j, k \in 1..n : j < k => SeatOf[s[j]] < SeatOf[s[k]]
    <2>1. \A j \in 1..n : s[j] \in ps
      BY <1>1, SeatOrderFacts
    <2> QED BY <2>1, SeatOrderFacts, TableAssumption
  <1> HIDE DEF s, n
  <1>3. ASSUME NEW j \in 1..n, NEW qs \in SUBSET ps, s[j] \in qs,
               \A k \in 1..n : s[k] \in qs => j <= k
        PROVE  Least(qs) = s[j]
    <2>1. \A r \in qs : SeatOf[s[j]] <= SeatOf[r]
      <3> SUFFICES ASSUME NEW r \in qs PROVE SeatOf[s[j]] <= SeatOf[r]
        OBVIOUS
      <3>1. PICK k \in 1..n : s[k] = r
        BY <1>2
      <3> QED BY <1>2, <1>3, <3>1
    <2>2. ASSUME NEW q \in qs, \A r \in qs : SeatOf[q] <= SeatOf[r] PROVE q = s[j]
      <3>1. PICK k \in 1..n : s[k] = q
        BY <1>2
      <3> QED BY <1>2, <1>3, <2>1, <2>2, <3>1
    <2> QED BY <1>3, <2>1, <2>2
  <1>4. CASE i < n
    <2>1. i + 1 \in 1..n /\ i % n = i
      BY <1>1, <1>4 DEF n
    <2>2. s[i + 1] \in after /\ \A k \in 1..n : s[k] \in after => i + 1 <= k
      BY <1>1, <1>2, <1>4, <2>1 DEF n
    <2>3. Least(after) = s[i + 1]
      BY <1>3, <2>1, <2>2
    <2> QED BY <1>0, <2>1, <2>2, <2>3 DEF s, n
  <1>5. CASE i = n
    <2>1. after = {}
      <3> SUFFICES ASSUME NEW q \in ps, SeatOf[q] > SeatOf[s[i]] PROVE FALSE
        OBVIOUS
      <3>1. PICK k \in 1..n : s[k] = q
        BY <1>2
      <3> QED BY <1>1, <1>2, <1>5, <3>1
    <2>2. (i % n) + 1 = 1 /\ 1 \in 1..n
      BY <1>1, <1>5
    <2>3. Least(ps) = s[1]
      BY <1>2, <1>3, <2>2
    <2> QED BY <1>0, <2>1, <2>2, <2>3 DEF s, n
  <1> QED BY <1>1, <1>4, <1>5 DEF n

\* The places of a ring, position by position further around the felt.
LEMMA PlacesTurn ==
    ASSUME NEW n \in 1..8, NEW i \in 1..n, NEW j \in 1..n, i < j
    PROVE  Places[n][i] < Places[n][j]
  <1>1. CASE n <= 4
    BY <1>1 DEF Places
  <1>2. CASE n = 5 \/ n = 6
    BY <1>2 DEF Places
  <1>3. CASE n = 7
    BY <1>3 DEF Places
  <1>4. CASE n = 8
    BY <1>4 DEF Places
  <1> QED BY <1>1, <1>2, <1>3, <1>4

\* orderPlayersForViewer turns the order of the seats.
LEMMA RingFacts ==
    ASSUME NEW ps \in SUBSET Players, Me \in ps
    PROVE  LET ring == OrderPlayersForViewer(ps)
               n == Cardinality(ps)
           IN  /\ n \in 1..8 /\ Len(ring) = n /\ ring[1] = Me
               /\ \A k \in 1..n : ring[(k % n) + 1] = NextSeat(ring[k], ps)
  <1> DEFINE n == Cardinality(ps)
             s == SeatOrder(ps)
             v == CHOOSE i \in 1..Len(s) : s[i] = Me
             back == SubSeq(s, v, Len(s))
             front == SubSeq(s, 1, v - 1)
             ring == OrderPlayersForViewer(ps)
  <1>1. s \in Seq(ps) /\ Len(s) = n /\ \E i \in 1..n : s[i] = Me
    BY SeatOrderFacts
  <1>2. n \in 1..8
    BY <1>1, Ranks
  <1>3. v \in 1..n /\ s[v] = Me
    BY <1>1
  <1>4. \A k \in 1..n : NextSeat(s[k], ps) = s[(k % n) + 1]
    BY NextSeatFacts
  <1>5. ring = back \o front
    BY DEF OrderPlayersForViewer
  <1> HIDE DEF s, v, n, ring
  <1>6. /\ back \in Seq(ps) /\ Len(back) = n - v + 1
        /\ \A k \in 1..(n - v + 1) : back[k] = s[v + k - 1]
    BY <1>1, <1>2, <1>3
  <1>7. /\ front \in Seq(ps) /\ Len(front) = v - 1
        /\ \A k \in 1..(v - 1) : front[k] = s[k]
    BY <1>1, <1>2, <1>3
  <1> HIDE DEF back, front
  <1>8. /\ Len(ring) = n
        /\ \A k \in 1..n : ring[k] = IF k <= n - v + 1 THEN s[v + k - 1] ELSE s[k - (n - v + 1)]
    BY <1>2, <1>3, <1>5, <1>6, <1>7
  <1>9. ring[1] = Me
    BY <1>2, <1>3, <1>8
  <1>10. ASSUME NEW k \in 1..n
         PROVE  ring[(k % n) + 1] = NextSeat(ring[k], ps)
    <2> DEFINE i == IF k <= n - v + 1 THEN v + k - 1 ELSE k - (n - v + 1)
    <2>1. i \in 1..n /\ ring[k] = s[i]
      BY <1>2, <1>3, <1>8
    <2>2. (k % n) + 1 = (IF k = n THEN 1 ELSE k + 1) /\ (i % n) + 1 = (IF i = n THEN 1 ELSE i + 1)
      BY <1>2, <2>1
    <2>3. ring[(k % n) + 1] = s[(i % n) + 1]
      BY <1>2, <1>3, <1>8, <2>2
    <2> QED BY <1>4, <2>1, <2>3
  <1> QED BY <1>2, <1>8, <1>9, <1>10 DEF n, ring

\* lib/tableSeats.ts, orderPlayersForViewer, with seatPositionClass of PokerTable.tsx:
\* the ring on the screen is the ring of the table turned so that the viewer sits
\* first, for every set of seats and whoever was eliminated.
THEOREM RingTurned == Spec => []RingIsTurned
  <1>1. ScreenInv => RingIsTurned
    <2> SUFFICES ASSUME ScreenInv, pub # None
                 PROVE  LET ring == Seats
                        IN /\ DOMAIN ring = 1..Cardinality(pub.in) /\ ring[1].player = Me
                           /\ \A i, j \in DOMAIN ring : i < j => ring[i].place < ring[j].place
                           /\ \A i \in DOMAIN ring :
                               ring[(i % Len(ring)) + 1].player = NextSeat(ring[i].player, pub.in)
      BY DEF RingIsTurned
    <2> DEFINE n == Cardinality(pub.in)
               order == OrderPlayersForViewer(pub.in)
               ring == Seats
    <2>1. pub.in \in SUBSET Players /\ Me \in pub.in
      BY DEF ScreenInv, States
    <2>2. /\ n \in 1..8 /\ Len(order) = n /\ order[1] = Me
          /\ \A k \in 1..n : order[(k % n) + 1] = NextSeat(order[k], pub.in)
      BY <2>1, RingFacts
    <2>3. /\ DOMAIN ring = 1..n /\ Len(ring) = n
          /\ \A k \in 1..n : ring[k].player = order[k] /\ ring[k].place = Places[n][k]
      BY <2>2 DEF Seats
    <2>4. \A k \in 1..n : (k % n) + 1 \in 1..n
      BY <2>2
    <2> HIDE DEF ring, order, n
    <2>5. \A i, j \in 1..n : i < j => ring[i].place < ring[j].place
      BY <2>2, <2>3, PlacesTurn
    <2>6. ASSUME NEW i \in 1..n
          PROVE  ring[(i % n) + 1].player = NextSeat(ring[i].player, pub.in)
      <3>1. ring[(i % n) + 1].player = order[(i % n) + 1]
        BY <2>3, <2>4
      <3>2. ring[i].player = order[i]
        BY <2>3
      <3>3. order[(i % n) + 1] = NextSeat(order[i], pub.in)
        BY <2>2
      <3> QED BY <3>1, <3>2, <3>3
    <2>7. ring[1].player = Me
      BY <2>2, <2>3
    <2> QED BY <2>3, <2>5, <2>6, <2>7 DEF ring, n
  <1> QED BY <1>1, Screen, PTL DEF Spec
=============================================================================
