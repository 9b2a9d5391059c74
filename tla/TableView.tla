------------------------------ MODULE TableView ------------------------------
(***************************************************************************)
(* The poker table a player looks at (pages/PokerTable.tsx with            *)
(* lib/tableSeats.ts and what is in sound/): what it                       *)
(* derives from the snapshots the store hands it, and what it keeps from   *)
(* one render to the next.  Snapshots only move forward (VersionsAdvance   *)
(* of ClientStore), but versions may be missed, a public and a private one *)
(* of a version both arrive, and a reconnect empties the store and mounts  *)
(* the table again.                                                        *)
(*                                                                         *)
(* The actions of a hand and its board are counted, and a bet is a size    *)
(* between the limits the server offers.                                   *)
(***************************************************************************)
EXTENDS Integers, Sequences, FiniteSets

CONSTANTS
    None,
    Me,           \* the user
    Others,       \* the other players
    SeatOf,       \* seats of the match, a function of the players
    MaxVersion,   \* versions of the match
    LimitsAt,     \* the range of the user's bet at every version
    Typed,        \* amounts entered in the slider or the number field
    MaxChat,      \* messages sent in the room
    ChatCap,      \* messages the store keeps (MAX_CHAT_MESSAGES)
    MaxMounts     \* times the table is mounted

Players == {Me} \cup Others

\* A state of the server, as a public snapshot tells it.
States == [version: 0..MaxVersion, hand: Nat, in: SUBSET Players, acts: Nat, board: 0..5,
           mine: BOOLEAN, over: BOOLEAN]

ASSUME TableAssumption ==
    /\ Me \notin Others /\ IsFiniteSet(Others)
    /\ SeatOf \in [Players -> Nat]
    /\ \A p, q \in Players : p # q => SeatOf[p] # SeatOf[q]
    /\ Cardinality(Players) <= 8  \* rules.max_players
    /\ MaxVersion \in Nat /\ MaxChat \in Nat /\ MaxMounts \in Nat \ {0}
    /\ None \notin Nat /\ None \notin States
    /\ ChatCap \in Nat \ {0} /\ Typed \subseteq Nat
    /\ \A v \in 0..MaxVersion :
        /\ LimitsAt[v].min \in Nat \ {0} /\ LimitsAt[v].max \in Nat
        /\ LimitsAt[v].min <= LimitsAt[v].max

VARIABLES
    srv,       \* the server's state, as its snapshots tell it
    results,   \* settlements emitted and not received yet
    pub,       \* publicSnapshot
    priv,      \* privateSnapshot: version, hand and limits of the legal bet
    hand,      \* handSettled
    match,     \* matchSettled
    prev,      \* previousSnapshotRef
    settledKeys, \* playedSettlementKeysRef
    muted,
    saved,     \* what local storage has: "off", "on", or it is "unavailable"
    hidden,    \* the tab is hidden
    library,   \* the sound library: "none", "loading", "loaded", "failed"
    waiting,   \* keys of the cues that wait for it
    heard,     \* keys of the cues played (ghost)
    again,     \* keys asked for twice (ghost)
    bet,       \* betAmount
    sent,      \* the last command of the user
    chat,      \* chatMessages
    said,      \* messages the room has sent
    open,      \* showChat
    read,      \* lastReadChatId
    unseen,    \* messages since the panel was last touched (ghost)
    mounts

store == <<pub, priv, hand, match>>
sound == <<prev, settledKeys, heard, again, library, waiting>>
mute  == <<muted, saved, hidden>>
talk  == <<chat, said, open, read, unseen>>
vars  == <<srv, results, store, sound, mute, bet, sent, talk, mounts>>

\* readMutedFromStorage: nothing, or nothing readable, means not muted.
LoadMuted == saved = "on"

Init ==
    /\ \E mine \in BOOLEAN :
        srv = [version |-> 0, hand |-> 1, in |-> Players, acts |-> 0, board |-> 0,
               mine |-> mine, over |-> FALSE]
    /\ results = {}
    /\ pub = None /\ priv = None /\ hand = None /\ match = None
    /\ prev = None /\ settledKeys = {} /\ heard = {} /\ again = {}
    /\ saved \in {"off", "on", "unavailable"} /\ muted = LoadMuted
    /\ hidden = FALSE /\ library = "none" /\ waiting = {}
    /\ bet = 0 /\ sent = None
    /\ chat = <<>> /\ said = 0 /\ open = FALSE /\ read = None /\ unseen = 0
    /\ mounts = 1

-----------------------------------------------------------------------------
(* The server: an action of the player to act leads to the next decision,  *)
(* maybe of the next street, to the next hand, in which an eliminated      *)
(* player has no seat, or to the end.                                      *)

NextDecision ==
    /\ \E mine \in BOOLEAN, cards \in {0, IF srv.board = 0 THEN 3 ELSE 1} :
        /\ srv.board + cards <= 5
        /\ srv' = [srv EXCEPT !.version = @ + 1, !.acts = @ + 1, !.board = @ + cards,
                              !.mine = mine]
    /\ UNCHANGED results

NextHand ==
    /\ \E left \in SUBSET srv.in, mine \in BOOLEAN :
        /\ Me \in left /\ Cardinality(left) >= 2
        /\ srv' = [srv EXCEPT !.version = @ + 1, !.hand = @ + 1, !.in = left, !.acts = 0,
                              !.board = 0, !.mine = mine]
    /\ results' = results \cup {[match |-> FALSE, hand |-> srv.hand, won |-> TRUE]}

LastHand ==
    /\ srv' = [srv EXCEPT !.version = @ + 1, !.acts = @ + 1, !.mine = FALSE, !.over = TRUE]
    /\ \E won \in BOOLEAN :
        results' = results \cup {[match |-> FALSE, hand |-> srv.hand, won |-> won],
                                 [match |-> TRUE, hand |-> srv.hand, won |-> won]}

Play ==
    /\ srv.version < MaxVersion /\ ~srv.over
    /\ NextDecision \/ NextHand \/ LastHand
    /\ UNCHANGED <<store, sound, mute, bet, sent, talk, mounts>>

-----------------------------------------------------------------------------
(* Sounds.                                                                 *)

Keys(kind, h, ns) == {<<kind, h, n>> : n \in ns}

\* Fault: a gap in the versions is played through.
IsNextLater(before, now) == before # None /\ now.version > before.version
\* The first snapshot, a repeated version and a jump are baselines.
IsNext(before, now) == before # None /\ now.version = before.version + 1

\* deriveSoundCues: a new hand, or what the same hand gained.
DeriveSoundCues(before, now) ==
    IF ~IsNext(before, now) THEN {}
    ELSE IF now.hand # before.hand THEN {<<"new-hand", now.hand, 0>>}
    ELSE Keys("action", now.hand, (before.acts + 1)..now.acts)
         \cup Keys("deal-card", now.hand, (before.board + 1)..now.board)
         \cup (IF ~before.mine /\ now.mine
               THEN {<<"your-turn", now.hand, now.version>>} ELSE {})

\* deriveSettlementCue: every hand has a sound, a match only when it is won.
DeriveSettlementCue(r) ==
    IF r = None \/ (r.match /\ ~r.won) THEN {}
    ELSE {<<IF r.match THEN "match" ELSE "hand", r.hand, 0>>}

\* Fault: a settlement counts as played only if it could be heard.
RecordHeard(keys) == settledKeys' = IF muted' THEN settledKeys ELSE settledKeys \cup keys
\* A settlement is played once, heard or not.
Record(keys) == settledKeys' = settledKeys \cup keys

\* HowlerSoundEngine.play: nothing in a hidden tab; the first sound loads the
\* library, and until then sounds wait.  A load that failed is not repeated.
PlaySounds(keys) ==
    LET asked == IF hidden THEN {} ELSE keys
    IN /\ again'   = again \cup ((heard \cup waiting) \cap asked)
       /\ heard'   = IF library = "loaded" THEN heard \cup asked ELSE heard
       /\ waiting' = IF library \in {"none", "loading"} THEN waiting \cup asked ELSE waiting
       /\ library' = IF library = "none" /\ asked # {} THEN "loading" ELSE library

\* Both effects after a render: snapshot and results the table shows now,
\* with the mute button as it is now.
Effects ==
    LET cues   == IF pub' = None THEN {} ELSE DeriveSoundCues(prev, pub')
        result == DeriveSettlementCue(hand') \cup DeriveSettlementCue(match')
        got    == IF muted' THEN {} ELSE cues \cup (result \ settledKeys)
    IN /\ prev' = IF pub' = None THEN prev ELSE pub'
       /\ Record(result)
       /\ PlaySounds(got)

-----------------------------------------------------------------------------
(* What arrives.                                                           *)

\* The merge rule of the store (KeptPrivate of ClientStore).
KeptPrivate(s) == IF priv # None /\ priv.hand = s.hand THEN priv ELSE None

\* A public snapshot of the present version, any number of versions after the
\* last, or the same again.
PublicArrives ==
    /\ pub' = srv /\ priv' = KeptPrivate(srv)
    /\ UNCHANGED <<srv, results, hand, match, bet, sent, talk, mounts, mute>>
    /\ Effects

\* A bet is legal only for the user to act.
Limits == IF srv.mine THEN LimitsAt[srv.version] ELSE None

\* Its private half: it says it is of that version, and carries the legal
\* actions of the moment it is sent.
PrivateArrives ==
    /\ pub # None
    /\ priv' = [version |-> pub.version, hand |-> pub.hand, limits |-> Limits]
    /\ UNCHANGED <<srv, results, pub, hand, match, bet, sent, talk, mounts, mute>>
    /\ Effects

ResultArrives ==
    /\ \E r \in results :
        /\ results' = results \ {r}
        /\ IF r.match THEN match' = r /\ UNCHANGED hand ELSE hand' = r /\ UNCHANGED match
    /\ UNCHANGED <<srv, pub, priv, bet, sent, talk, mounts, mute>>
    /\ Effects

ResultLeaves ==
    /\ hand # None /\ hand' = None
    /\ UNCHANGED <<srv, results, pub, priv, match, bet, sent, talk, mounts, mute>>
    /\ Effects

\* The library arrives, or does not, or cannot play; what waited is played now,
\* unless the tab is hidden by now.
LibraryLoads ==
    /\ library = "loading" /\ waiting' = {}
    /\ \/ library' = "loaded" /\ heard' = heard \cup (IF hidden THEN {} ELSE waiting)
       \/ library' = "failed" /\ UNCHANGED heard
    /\ UNCHANGED <<srv, results, store, prev, settledKeys, again, mute, bet, sent, talk, mounts>>

\* The first touch of the table loads the library.
Prime ==
    /\ pub # None /\ ~hidden /\ library = "none" /\ library' = "loading"
    /\ UNCHANGED <<srv, results, store, prev, settledKeys, heard, again, waiting, mute, bet, sent,
                   talk, mounts>>

\* The button changes 'play', on which both effects depend, and is remembered.
ToggleMute ==
    /\ ~hidden /\ muted' = ~muted /\ UNCHANGED <<store, hidden>>
    /\ saved' = CASE saved = "unavailable" -> saved [] OTHER -> IF muted' THEN "on" ELSE "off"
    /\ Effects
    /\ UNCHANGED <<srv, results, bet, sent, talk, mounts>>

\* The user looks at another tab, or back.
ToggleHidden ==
    /\ hidden' = ~hidden
    /\ UNCHANGED <<srv, results, store, sound, muted, saved, bet, sent, talk, mounts>>

\* joinRoom after a reconnect: the store is empty and the table unmounts, and
\* what it kept goes with it; results sent meanwhile are lost.  Or the whole
\* application is loaded again.
Remount ==
    /\ mounts < MaxMounts /\ mounts' = mounts + 1
    /\ pub' = None /\ priv' = None /\ hand' = None /\ match' = None
    /\ prev' = None /\ settledKeys' = {} /\ bet' = 0 /\ sent' = None
    /\ results' = {}
    /\ chat' = <<>> /\ open' = FALSE /\ read' = None /\ unseen' = 0
    /\ \/ UNCHANGED <<muted, library, waiting>>
       \/ muted' = LoadMuted /\ library' = "none" /\ waiting' = {}
    /\ UNCHANGED <<srv, saved, hidden, heard, again, said>>

-----------------------------------------------------------------------------
(* The decision.                                                           *)

\* showActionBar: the user is to act, and the private snapshot is of the
\* version on the table.
ActionBar == pub # None /\ pub.mine /\ priv # None /\ priv.version = pub.version
\* The buttons are enabled until a command waits for a newer version.
Buttons == ActionBar /\ (sent # None => sent.version < pub.version)

Clamp(n) == IF n < priv.limits.min THEN priv.limits.min
            ELSE IF n > priv.limits.max THEN priv.limits.max ELSE n

\* Fault: the amount left by an earlier decision is sent as it stands.
BetAmountAsLeft == IF bet = 0 THEN priv.limits.min ELSE bet
\* effectiveBetAmount: whatever an earlier decision left, within this range.
BetAmount == Clamp(IF bet = 0 THEN priv.limits.min ELSE bet)

\* Slider and number field.
EnterAmount ==
    /\ ActionBar /\ priv.limits # None
    /\ \E n \in Typed : bet' = Clamp(n)
    /\ UNCHANGED <<srv, results, store, sound, mute, sent, talk, mounts>>

\* handleAction('bet_or_raise'): the envelope is that of the private snapshot.
Bet ==
    /\ Buttons /\ priv.limits # None
    /\ sent' = [version |-> priv.version, amount |-> BetAmount]
    /\ UNCHANGED <<srv, results, store, sound, mute, bet, talk, mounts>>

-----------------------------------------------------------------------------
(* Chat.                                                                   *)

Latest == IF chat = <<>> THEN None ELSE chat[Len(chat)]

\* Fault: new messages are those behind the one read last.
HasUnreadBehind ==
    /\ ~open /\ chat # <<>>
    /\ read # None => \E i \in 1..(Len(chat) - 1) : chat[i] = read
\* hasUnreadChat: the last message is not the one read last; the list is
\* capped, so neither counts nor positions would do.
HasUnread == ~open /\ Latest # None /\ Latest # read

MessageArrives ==
    /\ said < MaxChat /\ said' = said + 1
    /\ chat' = LET c == Append(chat, said + 1)
               IN SubSeq(c, 1 + (IF Len(c) > ChatCap THEN Len(c) - ChatCap ELSE 0), Len(c))
    /\ unseen' = unseen + 1
    /\ UNCHANGED <<srv, results, store, sound, mute, bet, sent, open, read, mounts>>

\* toggleChat and closeChat: both mark what is on the screen as read.
ToggleChat ==
    /\ read' = Latest /\ open' = ~open /\ unseen' = 0
    /\ UNCHANGED <<srv, results, store, sound, mute, bet, sent, chat, said, mounts>>

-----------------------------------------------------------------------------
(* The screen.                                                             *)

Before(p, ps) == Cardinality({q \in ps : SeatOf[q] < SeatOf[p]})
SeatOrder(ps) == [i \in 1..Cardinality(ps) |-> CHOOSE p \in ps : Before(p, ps) = i - 1]

\* Fault: the viewer is taken out of the ring instead of turning it.
ViewerFirst(ps) == <<Me>> \o SeatOrder(ps \ {Me})
\* orderPlayersForViewer: the ring is turned until the viewer comes first.
OrderPlayersForViewer(ps) ==
    LET s == SeatOrder(ps)
        i == CHOOSE i \in 1..Len(s) : s[i] = Me
    IN SubSeq(s, i, Len(s)) \o SubSeq(s, 1, i - 1)

\* Where the positions of a ring are drawn, as hours of a clock with 24 hours
\* that starts at the bottom.
Places == << <<0>>, <<0, 12>>, <<0, 9, 15>>, <<0, 6, 12, 18>>, <<0, 4, 9, 15, 20>>,
             <<0, 4, 6, 12, 18, 20>>, <<0, 4, 7, 9, 15, 17, 20>>, <<0, 4, 7, 10, 12, 14, 17, 20>> >>

\* The seats around the felt, position by position, with the marks they carry.
Seats ==
    LET order == OrderPlayersForViewer(pub.in)
    IN [i \in 1..Len(order) |-> [player |-> order[i],
                                 place  |-> Places[Len(order)][i],
                                 active |-> order[i] = Me /\ pub.mine,
                                 cards  |-> order[i] = Me /\ priv # None /\ priv.hand = pub.hand]]

Next ==
    \/ Play \/ PublicArrives \/ PrivateArrives \/ ResultArrives \/ ResultLeaves
    \/ LibraryLoads \/ Prime \/ ToggleMute \/ ToggleHidden \/ Remount
    \/ EnterAmount \/ Bet \/ MessageArrives \/ ToggleChat

Spec == Init /\ [][Next]_vars

-----------------------------------------------------------------------------
(* Properties.                                                             *)

\* Every sound is news.  None is asked for twice: not when public and private
\* halves of a version both arrive, not when results stay on the screen, and not
\* when a reconnect mounts the table anew and the whole hand arrives at once.
\* Unmuting, or coming back to the tab, plays nothing that happened in silence,
\* and the choice to be silent survives a reload.  And the turn cue is asked for
\* while the table shows the version it belongs to, when the player was not to
\* act before; only the library that loads late plays it late.
TurnCues(keys) == {k \in keys : k[1] = "your-turn"}
AskedFor == heard \cup waiting
SoundsAreNews ==
    [][/\ again' = {}
       /\ muted /\ ~muted' /\ mounts' = mounts => AskedFor' = AskedFor
       /\ hidden \/ hidden' => heard' = heard
       /\ mounts' # mounts /\ saved # "unavailable" => muted' = muted
       /\ \A k \in TurnCues(AskedFor' \ AskedFor) :
            pub'.version = k[3] /\ pub'.mine /\ prev.version = k[3] - 1 /\ ~prev.mine]_vars

\* A bet is within the limits of the decision it is for, whatever amount an
\* earlier decision left in the field: the server refuses it at most because
\* the state has moved on.
BetFits ==
    sent # None /\ sent.version = srv.version /\ srv.mine =>
        sent.amount \in Limits.min..Limits.max

\* The badge says there is something new exactly when a message came after
\* the panel was last opened or closed.
UnreadIsNew == ~open => (HasUnread <=> unseen > 0)

\* The ring on the screen is the ring of the table: the viewer sits first, and
\* the next position is the next seat and is drawn further around the felt, also
\* when eliminations have left gaps in the seat numbers.
NextSeat(p, ps) ==
    LET after == {q \in ps : SeatOf[q] > SeatOf[p]}
        least(qs) == CHOOSE q \in qs : \A r \in qs : SeatOf[q] <= SeatOf[r]
    IN IF after # {} THEN least(after) ELSE least(ps)
RingIsTurned ==
    pub # None =>
        LET ring == Seats
        IN /\ DOMAIN ring = 1..Cardinality(pub.in) /\ ring[1].player = Me
           /\ \A i, j \in DOMAIN ring : i < j => ring[i].place < ring[j].place
           /\ \A i \in DOMAIN ring :
               ring[(i % Len(ring)) + 1].player = NextSeat(ring[i].player, pub.in)
=============================================================================
