-------------------------- MODULE ClientStoreProofs --------------------------
(***************************************************************************)
(* Theorems about ClientStore, for any number of commands, matches,        *)
(* versions, lost connections and handlers.                                *)
(***************************************************************************)
EXTENDS ClientStore, FiniteSetTheorems, TLAPS

-----------------------------------------------------------------------------
(***************************************************************************)
(* The invariant.  Whatever holds a snapshot (a private one on its way,    *)
(* the cards on the table, the envelope of a command) holds one the server *)
(* had: this is what lets the server tell a command of the past by its     *)
(* version.  An acknowledgement on its way stays true: a command that was  *)
(* refused is of the past and cannot be applied when it is repeated.       *)
(***************************************************************************)

Event ==
    [k : {"room"}, match : 0..MaxMatch]
    \cup [k : {"private", "myprivate"}, s : Snapshot]
    \cup [k : {"settled"}, hand : Hand]
    \cup [k : {"over", "rejected"}, match : 1..MaxMatch]
    \cup [k : {"snapshots", "mysnapshots", "remove"}]
    \cup [k : {"ack"}, id : Ids, n : Nat \ {0}, ok : BOOLEAN]
    \cup [k : {"joined"}, ok : BOOLEAN, match : 0..MaxMatch]

Request ==
    [k : {"action"}, id : Ids, n : Nat]
    \cup [k : {"snapshot"}, match : 0..MaxMatch]
    \cup [k : {"join"}]

\* The server had this snapshot.
Had(s) ==
    /\ s.match <= srv.match
    /\ s.match = srv.match =>
         /\ s.version <= srv.version
         /\ s.version = srv.version => s.hand = srv.hand /\ s.turn = srv.turn

\* No command made for this snapshot will be applied any more.
Past(s) ==
    \/ s.match < srv.match
    \/ s.match = srv.match /\ (s.version < srv.version \/ ~srv.turn \/ srv.phase # "live")

Command(id) == [id |-> id, at |-> made[id]]

Sound(e) ==
    /\ e.k \in {"private", "myprivate"} => Had(e.s)
    /\ e.k = "ack" =>
         /\ made[e.id] # None
         /\ e.ok => Command(e.id) \in applied
         /\ ~e.ok => /\ Past(made[e.id])
                     /\ Command(e.id) \in applied => ~Registered(made[e.id].match)

SoundEvent == {e \in Event : Sound(e)}

HandlersSound == handlers \subseteq Seq(SoundEvent) \ {<<>>}
RequestsMade  == /\ up \subseteq Request
                 /\ \A r \in up : r.k = "action" => made[r.id] # None
                 /\ \A id \in Ids : loops[id] # 0 => made[id] # None
EnvelopesHad  == \A id \in Ids : made[id] # None => Had(made[id])
CardsHad      == priv # None => Had(priv)

StoreInv == /\ TypeOK /\ HandlersSound /\ RequestsMade /\ EnvelopesHad /\ CardsHad
            /\ CardsMatchTable

-----------------------------------------------------------------------------
(* Sequences and events.                                                   *)

\* What an event of each kind carries.
LEMMA EventFacts ==
    ASSUME NEW e \in Event
    PROVE  /\ e.k = "room" => e.match \in 0..MaxMatch
           /\ e.k \in {"private", "myprivate"} => e.s \in Snapshot
           /\ e.k = "settled" => e.hand \in Hand
           /\ e.k \in {"over", "rejected"} => e.match \in 1..MaxMatch
           /\ e.k = "ack" => e.id \in Ids /\ e.n \in Nat \ {0} /\ e.ok \in BOOLEAN
           /\ e.k = "joined" => e.ok \in BOOLEAN /\ e.match \in 0..MaxMatch
           /\ e.k # "public"
  BY DEF Event

\* What a request of each kind carries.
LEMMA RequestFacts ==
    ASSUME NEW r \in Request
    PROVE  /\ r.k = "action" => r.id \in Ids /\ r.n \in Nat
           /\ r.k = "snapshot" => r.match \in 0..MaxMatch
  BY DEF Request

\* The emissions that survive their connection are among those there were.
LEMMA SharedFacts ==
    ASSUME NEW S, NEW h \in Seq(S)
    PROVE  SubSeq(h, 1, Shared(h)) \in Seq(S)
  <1> DEFINE kept == {i \in 1..Len(h) : ~ForConnection(h[i])}
  <1>1. IsFiniteSet(1..Len(h)) /\ Cardinality(1..Len(h)) = Len(h)
    BY FS_Interval, 0 \in Int, 1 \in Int, Len(h) \in Nat
  <1>2. Cardinality(kept) \in Nat /\ Cardinality(kept) <= Len(h)
    <2>1. kept \subseteq 1..Len(h)
      OBVIOUS
    <2>2. IsFiniteSet(kept) /\ Cardinality(kept) <= Cardinality(1..Len(h))
      BY <2>1, <1>1, FS_Subset
    <2> QED
      BY <2>2, <1>1, FS_CardinalityType
  <1>3. Shared(h) \in Nat /\ Shared(h) <= Len(h)
    BY <1>2 DEF Shared
  <1> QED
    BY <1>3

\* A new handler keeps the set of handlers sound.
LEMMA StartSound ==
    ASSUME NEW S, NEW H, H \subseteq Seq(S) \ {<<>>}, NEW h \in Seq(S)
    PROVE  H \cup ({h} \ {<<>>}) \subseteq Seq(S) \ {<<>>}
  OBVIOUS

\* Short sequences of emissions, and an answer that may have no receiver.
LEMMA ShortSeqs ==
    ASSUME NEW S, NEW a \in S, NEW b \in S, NEW c \in S
    PROVE  <<a>> \in Seq(S) /\ <<a, b>> \in Seq(S) /\ <<a, b, c>> \in Seq(S)
  OBVIOUS

LEMMA AnswerSeq ==
    ASSUME NEW S, NEW n \in Nat, NEW s, n > 0 => s \in Seq(S)
    PROVE  (IF n > 0 THEN s ELSE <<>>) \in Seq(S)
  <1>1. CASE n > 0
    BY <1>1
  <1>2. CASE ~(n > 0)
    BY <1>2
  <1> QED
    BY <1>1, <1>2

LEMMA StartedSound ==
    ASSUME handlers \subseteq Seq(SoundEvent') \ {<<>>}, NEW h \in Seq(SoundEvent'), Start(h)
    PROVE  HandlersSound'
  BY StartSound DEF Start, HandlersSound

LEMMA SeqMono ==
    ASSUME NEW S, NEW T, S \subseteq T
    PROVE  Seq(S) \subseteq Seq(T)
  OBVIOUS

-----------------------------------------------------------------------------
(* What the server does to the past.                                       *)

\* The match moves on by a decision, by its removal, or to the next one.
ServerAdvances ==
    \/ /\ srv'.match = srv.match /\ srv'.version = srv.version
       /\ srv'.hand = srv.hand /\ srv'.turn = srv.turn
       /\ srv'.phase \in {srv.phase, "removed", "waiting"}
    \/ srv'.match = srv.match /\ srv'.version = srv.version + 1 /\ srv.phase = "live"
    \/ srv'.match = srv.match + 1

\* Commands are applied in the state they were made for; an id keeps its
\* envelope.
CommandsKept ==
    /\ applied \subseteq applied'
    /\ \A c \in applied' \ applied : Applies(c)
    /\ \A id \in Ids : made[id] # None => made'[id] = made[id]

\* What the server had it still had, and what is past stays past.
LEMMA HadMono ==
    ASSUME TypeOK, TypeOK', ServerAdvances, NEW s \in Snapshot \cup PrivateSnapshot, Had(s)
    PROVE  /\ Had(s)'
           /\ Past(s) => Past(s)'
           /\ ~Registered(s.match) => ~Registered(s.match)'
  <1> USE DEF TypeOK, Snapshot, PrivateSnapshot
  <1>1. CASE srv'.match = srv.match /\ srv'.version = srv.version
               /\ srv'.hand = srv.hand /\ srv'.turn = srv.turn
               /\ srv'.phase \in {srv.phase, "removed", "waiting"}
    BY <1>1 DEF Had, Past, Registered
  <1>2. CASE srv'.match = srv.match /\ srv'.version = srv.version + 1 /\ srv.phase = "live"
    BY <1>2 DEF Had, Past, Registered
  <1>3. CASE srv'.match = srv.match + 1
    BY <1>3 DEF Had, Past, Registered
  <1> QED
    BY <1>1, <1>2, <1>3 DEF ServerAdvances

\* A command of the past is not applied.
LEMMA PastNotApplied ==
    ASSUME TypeOK, NEW c, c.at \in Snapshot, Past(c.at)
    PROVE  ~Applies(c)
  BY DEF TypeOK, Current, Snapshot, Past, Applies

\* A command that is not applied now, of a snapshot the server had, is past.
LEMMA RefusedIsPast ==
    ASSUME TypeOK, NEW c, c.at \in Snapshot, Had(c.at), ~Applies(c)
    PROVE  Past(c.at)
  <1> USE DEF TypeOK, Current, Snapshot
  <1>1. CASE c.at.match < srv.match
    BY <1>1 DEF Past
  <1>2. CASE c.at.match = srv.match /\ c.at.version < srv.version
    BY <1>2 DEF Past
  <1>3. CASE c.at.match = srv.match /\ c.at.version = srv.version
    <2>1. c.at.hand = srv.hand /\ c.at.turn = srv.turn
      BY <1>3 DEF Had
    <2>2. c.at = Current
      BY <2>1, <1>3
    <2> QED
      BY <2>2, <1>3 DEF Applies, Past
  <1> QED
    BY <1>1, <1>2, <1>3 DEF Had

\* A sound event stays sound.
LEMMA SoundMono ==
    ASSUME TypeOK, TypeOK', EnvelopesHad, ServerAdvances, CommandsKept
    PROVE  SoundEvent \subseteq SoundEvent'
  <1> SUFFICES ASSUME NEW e \in Event, Sound(e)
               PROVE  Sound(e)'
    BY DEF SoundEvent, Event, Snapshot, Hand
  <1>1. CASE e.k \in {"private", "myprivate"}
    BY <1>1, EventFacts, HadMono DEF Sound
  <1>2. CASE e.k = "ack"
    <2>1. e.id \in Ids /\ made[e.id] # None /\ made'[e.id] = made[e.id]
      BY <1>2, EventFacts DEF Sound, CommandsKept
    <2>2. made[e.id] \in Snapshot /\ Had(made[e.id])
      BY <2>1 DEF TypeOK, EnvelopesHad
    <2>3. Command(e.id)' = Command(e.id) /\ Command(e.id).at = made[e.id]
      BY <2>1 DEF Command
    <2>4. ASSUME e.ok PROVE Command(e.id)' \in applied'
      BY <2>3, <2>4, <1>2 DEF Sound, CommandsKept
    <2>5. ASSUME ~e.ok
          PROVE  Past(made[e.id])' /\ (Command(e.id)' \in applied' => ~Registered(made[e.id].match)')
      <3>1. Past(made[e.id]) /\ (Command(e.id) \in applied => ~Registered(made[e.id].match))
        BY <2>5, <1>2 DEF Sound
      <3>2. Command(e.id) \in applied' => Command(e.id) \in applied
        BY <3>1, <2>2, <2>3, PastNotApplied DEF CommandsKept
      <3> DEFINE s == made[e.id]
      <3>3. Past(s)' /\ (~Registered(s.match) => ~Registered(s.match)')
        <4> HIDE DEF s
        <4>1. s \in Snapshot /\ Had(s) /\ Past(s)
          BY <2>2, <3>1 DEF s
        <4> QED
          BY <4>1, <2>1, HadMono DEF s
      <3> QED
        BY <3>1, <3>2, <3>3, <2>3
    <2> QED
      BY <2>1, <2>4, <2>5, <1>2 DEF Sound
  <1> QED
    BY <1>1, <1>2 DEF Sound

-----------------------------------------------------------------------------
(* The steps of the client alone.                                          *)

\* A step that leaves the server, its handlers and the envelopes alone.
LEMMA ServerFrame ==
    ASSUME HandlersSound, EnvelopesHad, UNCHANGED <<server, made>>
    PROVE  /\ HandlersSound' /\ EnvelopesHad'
           /\ SoundEvent' = SoundEvent
           /\ \A s \in Snapshot : Had(s) => Had(s)'
  BY DEF HandlersSound, EnvelopesHad, server, SoundEvent, Sound, Past, Had, Command, Registered,
         Event, Snapshot, Hand

LEMMA InitInv == Init => StoreInv
  <1> SUFFICES ASSUME Init PROVE StoreInv
    OBVIOUS
  <1> USE BoundsAssumption
  <1>1. TypeOK
    <2>1. srv \in [match : 1..MaxMatch, hand : Nat, version : 0..MaxVersion, turn : BOOLEAN,
                   phase : {"live", "over", "removed", "waiting"}]
      BY DEF Init
    <2>2. made \in [Ids -> Snapshot \cup {None}] /\ loops \in [Ids -> 0..Attempts]
      BY DEF Init, Attempts
    <2>3. drops \in 0..MaxDrops /\ room \in 0..MaxMatch
      BY DEF Init
    <2>4. /\ status \in {"connected", "disconnected", "replaced"} /\ dial \in BOOLEAN
          /\ pub = None /\ priv = None /\ settled = None /\ timer = None /\ over = None
          /\ pending = None
      BY DEF Init
    <2> QED
      BY <2>1, <2>2, <2>3, <2>4 DEF TypeOK
  <1>2. HandlersSound
    <2>1. Room(1) \in SoundEvent /\ Snapshots \in SoundEvent
      BY DEF SoundEvent, Event, Sound, Room, Snapshots
    <2> QED
      BY <2>1 DEF Init, HandlersSound
  <1>3. RequestsMade /\ EnvelopesHad /\ CardsHad /\ CardsMatchTable
    BY DEF Init, RequestsMade, EnvelopesHad, CardsHad, CardsMatchTable
  <1> QED
    BY <1>1, <1>2, <1>3 DEF StoreInv

LEMMA SettlementTimerInv == StoreInv /\ SettlementTimer => StoreInv'
  <1> SUFFICES ASSUME StoreInv, SettlementTimer PROVE StoreInv'
    OBVIOUS
  <1>1. TypeOK'
    BY DEF StoreInv, SettlementTimer, TypeOK, server
  <1>2. HandlersSound' /\ EnvelopesHad'
    BY ServerFrame DEF StoreInv, SettlementTimer
  <1>3. RequestsMade' /\ CardsHad' /\ CardsMatchTable'
    BY DEF StoreInv, SettlementTimer, RequestsMade, CardsHad, CardsMatchTable, Had, server
  <1> QED
    BY <1>1, <1>2, <1>3 DEF StoreInv

LEMMA AckTimeoutInv == StoreInv /\ AckTimeout => StoreInv'
  <1> SUFFICES ASSUME StoreInv, AckTimeout PROVE StoreInv'
    OBVIOUS
  <1>1. PICK id \in Ids :
            \/ loops[id] \in 1..(Attempts - 1) /\ Retry(id)
            \/ loops[id] = Attempts /\ GiveUp(id)
    BY DEF AckTimeout
  <1> USE DEF Attempts
  <1>2. made[id] # None /\ made[id] \in Snapshot
    BY <1>1 DEF StoreInv, RequestsMade, TypeOK
  <1>3. TypeOK'
    BY <1>1 DEF StoreInv, AckTimeout, TypeOK, server, table, Retry, GiveUp
  <1>4. HandlersSound' /\ EnvelopesHad'
    BY <1>1, ServerFrame DEF StoreInv, AckTimeout, Retry, GiveUp
  <1>5. RequestsMade'
    <2>1. Action(id, loops[id] + 1) \in Request /\ SnapshotRequest(made[id].match) \in Request
      BY <1>1, <1>2 DEF Request, Action, SnapshotRequest, Snapshot, StoreInv, TypeOK
    <2> QED
      BY <1>1, <1>2, <2>1 DEF StoreInv, RequestsMade, Retry, GiveUp, Action, SnapshotRequest, TypeOK
  <1>6. CardsHad' /\ CardsMatchTable'
    BY DEF StoreInv, AckTimeout, CardsHad, CardsMatchTable, Had, server, table
  <1> QED
    BY <1>3, <1>4, <1>5, <1>6 DEF StoreInv

LEMMA SubmitInv == StoreInv /\ Submit => StoreInv'
  <1> SUFFICES ASSUME StoreInv, Submit PROVE StoreInv'
    OBVIOUS
  <1>1. PICK id \in Ids :
          /\ IsFresh(id)
          /\ made' = [made EXCEPT ![id] = Envelope(priv)]
          /\ pending' = id /\ loops' = [loops EXCEPT ![id] = 1]
          /\ up' = up \cup {Action(id, 1)}
    BY DEF Submit
  <1>2. priv \in PrivateSnapshot
    BY DEF StoreInv, TypeOK, Submit, ActionBar
  <1>3. Envelope(priv) \in Snapshot /\ Had(Envelope(priv)) /\ Envelope(priv) # None
    <2>1. Envelope(priv) \in Snapshot /\ Had(Envelope(priv))
      BY <1>2 DEF StoreInv, CardsHad, Had, Envelope, PrivateSnapshot, Snapshot, Submit, ActionBar
    <2> QED
      BY <2>1, NoneAssumption
  <1>4. TypeOK'
    BY <1>1, <1>3 DEF StoreInv, Submit, TypeOK, server, table, Attempts
  <1>5. made[id] = None
    BY <1>1 DEF IsFresh
  <1>6. HandlersSound'
    <2>1. ServerAdvances /\ CommandsKept
      BY <1>1, <1>5 DEF Submit, server, ServerAdvances, CommandsKept, StoreInv, TypeOK
    <2> QED
      BY <2>1, <1>4, SoundMono, SeqMono DEF StoreInv, HandlersSound, Submit, server
  <1>7. EnvelopesHad'
    BY <1>1, <1>3 DEF StoreInv, EnvelopesHad, Had, Submit, server, TypeOK
  <1>8. RequestsMade'
    <2>1. Action(id, 1) \in Request
      BY DEF Request, Action
    <2> QED
      BY <1>1, <1>3, <1>5, <2>1 DEF StoreInv, RequestsMade, Action, TypeOK
  <1>9. CardsHad' /\ CardsMatchTable'
    BY DEF StoreInv, Submit, CardsHad, CardsMatchTable, Had, server, table
  <1> QED
    BY <1>4, <1>6, <1>7, <1>8, <1>9 DEF StoreInv

-----------------------------------------------------------------------------
(* The steps of the server.                                                *)

ServerState == [match : 1..MaxMatch, hand : Nat, version : 0..MaxVersion, turn : BOOLEAN,
                phase : {"live", "over", "removed", "waiting"}]

\* What the server may do without harm to what the tab holds and expects.
LEMMA ServerStep ==
    ASSUME StoreInv, TypeOK', ServerAdvances, CommandsKept
    PROVE  /\ handlers \subseteq Seq(SoundEvent') \ {<<>>}
           /\ UNCHANGED made => EnvelopesHad'
           /\ UNCHANGED <<pub, priv>> => CardsHad' /\ CardsMatchTable'
           /\ UNCHANGED <<up, made, loops>> => RequestsMade'
  <1>1. SoundEvent \subseteq SoundEvent'
    BY SoundMono DEF StoreInv
  <1>2. handlers \subseteq Seq(SoundEvent') \ {<<>>}
    BY <1>1, SeqMono DEF StoreInv, HandlersSound
  <1>3. ASSUME UNCHANGED made PROVE EnvelopesHad'
    <2> SUFFICES ASSUME NEW id \in Ids, made'[id] # None PROVE Had(made[id])'
      BY DEF EnvelopesHad
    <2>1. made[id] \in Snapshot /\ Had(made[id])
      BY <1>3 DEF StoreInv, TypeOK, EnvelopesHad
    <2> QED
      BY <2>1, <1>3, HadMono DEF StoreInv, Had
  <1>4. ASSUME UNCHANGED <<pub, priv>> PROVE CardsHad' /\ CardsMatchTable'
    <2>1. ASSUME priv # None PROVE Had(priv)'
      <3>1. priv \in PrivateSnapshot /\ Had(priv)
        BY <2>1 DEF StoreInv, TypeOK, CardsHad
      <3> QED
        BY <3>1, <1>4, HadMono DEF StoreInv, Had
    <2> QED
      BY <2>1, <1>4 DEF StoreInv, CardsHad, CardsMatchTable
  <1>5. ASSUME UNCHANGED <<up, made, loops>> PROVE RequestsMade'
    BY <1>5 DEF StoreInv, RequestsMade
  <1> QED
    BY <1>2, <1>3, <1>4, <1>5

\* A command takes effect, with any answer.
LEMMA AdvanceFacts ==
    ASSUME TypeOK, NEW answer, Advance(answer)
    PROVE  srv' \in ServerState /\ ServerAdvances
  <1>1. srv \in ServerState /\ srv.phase = "live" /\ srv.version < MaxVersion
    BY DEF TypeOK, Advance, ServerState
  <1>2. PICK turn \in BOOLEAN, outcome \in {"decision", "hand", "end"} :
          srv' = [srv EXCEPT !.version = @ + 1, !.turn = turn,
                             !.hand = IF outcome = "hand" THEN @ + 1 ELSE @,
                             !.phase = IF outcome = "end" THEN "over" ELSE @]
    BY DEF Advance
  <1>3. /\ srv.version + 1 \in 0..MaxVersion /\ srv.hand + 1 \in Nat
    BY <1>1, BoundsAssumption DEF ServerState
  <1>4. srv' \in ServerState
    BY <1>1, <1>2, <1>3 DEF ServerState
  <1>5. srv'.match = srv.match /\ srv'.version = srv.version + 1
    BY <1>1, <1>2 DEF ServerState
  <1> QED
    BY <1>1, <1>4, <1>5 DEF ServerAdvances

\* The events a handler is made of.
LEMMA NewEvents ==
    /\ \A m \in 0..MaxMatch : Room(m) \in SoundEvent
    /\ \A h \in Hand : Settled(h) \in SoundEvent
    /\ \A m \in 1..MaxMatch : Over(m) \in SoundEvent /\ Rejected(m) \in SoundEvent
    /\ Snapshots \in SoundEvent /\ MySnapshots \in SoundEvent /\ Remove \in SoundEvent
    /\ \A ok \in BOOLEAN, m \in 0..MaxMatch : JoinAck(ok, m) \in SoundEvent
  BY DEF SoundEvent, Event, Sound, Room, Settled, Over, Rejected, Snapshots, MySnapshots, Remove,
         JoinAck

\* The handler that reports what happened is sound when its answer is.
LEMMA AdvanceSound ==
    ASSUME TypeOK, TypeOK', NEW answer, answer \in Seq(SoundEvent'), Advance(answer),
           handlers \subseteq Seq(SoundEvent') \ {<<>>}
    PROVE  HandlersSound'
  <1> DEFINE Ev == SoundEvent'
  <1>1. PICK outcome \in {"decision", "hand", "end"} :
          Start((IF outcome = "decision" THEN <<>> ELSE <<Settled(HandOf(srv))>>)
                \o <<Snapshots>>
                \o (IF outcome = "end" THEN <<Over(srv.match), Remove, Room(0)>> ELSE <<>>)
                \o answer)
    BY DEF Advance
  <1>2. /\ Settled(HandOf(srv)) \in Ev /\ Over(srv.match) \in Ev /\ Room(0) \in Ev
        /\ Snapshots \in Ev /\ Remove \in Ev
    <2>1. HandOf(srv) \in Hand /\ srv.match \in 1..MaxMatch /\ 0 \in 0..MaxMatch
      BY BoundsAssumption DEF TypeOK, HandOf, Hand
    <2> QED
      BY <2>1 DEF SoundEvent, Event, Sound, Room, Settled, Over, Snapshots, Remove
  <1> HIDE DEF Ev
  <1>3. (IF outcome = "decision" THEN <<>> ELSE <<Settled(HandOf(srv))>>) \in Seq(Ev)
    BY <1>2
  <1>4. (IF outcome = "end" THEN <<Over(srv.match), Remove, Room(0)>> ELSE <<>>) \in Seq(Ev)
    BY <1>2
  <1>5. (IF outcome = "decision" THEN <<>> ELSE <<Settled(HandOf(srv))>>)
        \o <<Snapshots>>
        \o (IF outcome = "end" THEN <<Over(srv.match), Remove, Room(0)>> ELSE <<>>)
        \o answer \in Seq(Ev)
    BY <1>2, <1>3, <1>4 DEF Ev
  <1> QED
    BY <1>1, <1>5 DEF Start, HandlersSound, Ev

LEMMA OthersActInv == StoreInv /\ OthersAct => StoreInv'
  <1> SUFFICES ASSUME StoreInv, OthersAct PROVE StoreInv'
    OBVIOUS
  <1>1. Advance(<<>>) /\ srv' \in ServerState /\ ServerAdvances
    BY AdvanceFacts DEF OthersAct, StoreInv
  <1>2. TypeOK'
    BY <1>1 DEF ServerState, StoreInv, TypeOK, OthersAct, table
  <1>3. CommandsKept
    BY DEF OthersAct, CommandsKept
  <1>4. /\ handlers \subseteq Seq(SoundEvent') \ {<<>>}
        /\ EnvelopesHad' /\ CardsHad' /\ CardsMatchTable' /\ RequestsMade'
    BY <1>1, <1>2, <1>3, ServerStep DEF OthersAct, table
  <1>5. HandlersSound'
    BY <1>1, <1>2, <1>4, AdvanceSound, <<>> \in Seq(SoundEvent') DEF StoreInv
  <1> QED
    BY <1>2, <1>4, <1>5 DEF StoreInv

\* A request taken off the wire leaves the others as they were.
LEMMA RequestTaken ==
    ASSUME RequestsMade, NEW r, up' = up \ {r}, UNCHANGED <<made, loops>>
    PROVE  RequestsMade'
  BY DEF RequestsMade

LEMMA HandleActionInv == StoreInv /\ HandleAction => StoreInv'
  <1> SUFFICES ASSUME StoreInv, HandleAction PROVE StoreInv'
    OBVIOUS
  <1> DEFINE c(r) == [id |-> r.id, at |-> made[r.id]]
             answer(r, s) == IF r.n > 0 THEN s ELSE <<>>
  <1>1. PICK r \in up :
          /\ r.k = "action" /\ up' = up \ {r}
          /\ \/ /\ Known(c(r))
                /\ Start(answer(r, <<Ack(r.id, r.n, TRUE)>>))
                /\ UNCHANGED <<srv, applied>>
             \/ /\ ~Known(c(r)) /\ Applies(c(r))
                /\ applied' = applied \cup {c(r)}
                /\ Advance(answer(r, <<Ack(r.id, r.n, TRUE)>>))
             \/ /\ ~Known(c(r)) /\ ~Applies(c(r))
                /\ Start(answer(r, <<Rejected(c(r).at.match), Ack(r.id, r.n, FALSE)>>))
                /\ UNCHANGED <<srv, applied>>
    BY DEF HandleAction
  <1>2. /\ r.id \in Ids /\ r.n \in Nat /\ made[r.id] # None
        /\ c(r).at \in Snapshot /\ Had(c(r).at) /\ c(r) = Command(r.id)
    <2>1. r \in Request /\ made[r.id] # None
      BY <1>1 DEF StoreInv, RequestsMade
    <2>2. r.id \in Ids /\ r.n \in Nat
      BY <2>1, <1>1, RequestFacts
    <2>3. made[r.id] \in Snapshot /\ Had(made[r.id])
      BY <2>1, <2>2 DEF StoreInv, TypeOK, EnvelopesHad
    <2> QED
      BY <2>1, <2>2, <2>3 DEF Command
  <1>3. UNCHANGED <<drops, status, dial, room, table, pending, made, loops>>
    BY DEF HandleAction
  <1>4. srv' \in ServerState /\ ServerAdvances
    <2>1. CASE srv' = srv
      BY <2>1 DEF StoreInv, TypeOK, ServerState, ServerAdvances
    <2>2. CASE Advance(answer(r, <<Ack(r.id, r.n, TRUE)>>))
      BY <2>2, AdvanceFacts DEF StoreInv
    <2> QED
      BY <1>1, <2>1, <2>2
  <1>5. TypeOK'
    BY <1>3, <1>4 DEF ServerState, StoreInv, TypeOK, table
  <1>6. CommandsKept
    BY <1>1, <1>3 DEF CommandsKept
  <1>7. /\ handlers \subseteq Seq(SoundEvent') \ {<<>>}
        /\ EnvelopesHad' /\ CardsHad' /\ CardsMatchTable'
    BY <1>3, <1>4, <1>5, <1>6, ServerStep DEF table
  <1>8. RequestsMade'
    BY <1>1, <1>3, RequestTaken DEF StoreInv
  <1>9. HandlersSound'
    <2>1. ASSUME r.n > 0, NEW ok \in BOOLEAN, Sound(Ack(r.id, r.n, ok))'
          PROVE  Ack(r.id, r.n, ok) \in SoundEvent'
      BY <2>1, <1>2 DEF SoundEvent, Event, Ack, Snapshot, Hand
    <2>2. ASSUME c(r) \in applied'
          PROVE  answer(r, <<Ack(r.id, r.n, TRUE)>>) \in Seq(SoundEvent')
      <3>1. Sound(Ack(r.id, r.n, TRUE))'
        BY <2>2, <1>2, <1>3 DEF Sound, Ack, Command
      <3>2. ASSUME r.n > 0 PROVE <<Ack(r.id, r.n, TRUE)>> \in Seq(SoundEvent')
        <4>1. Ack(r.id, r.n, TRUE) \in SoundEvent'
          BY <2>1, <3>1, <3>2
        <4> QED
          BY <4>1, ShortSeqs, Zenon
      <3> QED
        BY <1>2, <3>2, AnswerSeq, Zenon
    <2>3. CASE Known(c(r)) /\ Start(answer(r, <<Ack(r.id, r.n, TRUE)>>)) /\ applied' = applied
      <3>1. c(r) \in applied'
        BY <2>3 DEF Known
      <3> QED
        BY <3>1, <2>2, <2>3, <1>7, StartedSound, Zenon
    <2>4. CASE applied' = applied \cup {c(r)} /\ Advance(answer(r, <<Ack(r.id, r.n, TRUE)>>))
      BY <2>2, <2>4, <1>5, <1>7, AdvanceSound DEF StoreInv
    <2>5. CASE /\ ~Known(c(r)) /\ ~Applies(c(r))
               /\ Start(answer(r, <<Rejected(c(r).at.match), Ack(r.id, r.n, FALSE)>>))
               /\ UNCHANGED <<srv, applied>>
      <3>1. Past(c(r).at)
        BY <2>5, <1>2, RefusedIsPast DEF StoreInv
      <3>2. Sound(Ack(r.id, r.n, FALSE))'
        BY <3>1, <2>5, <1>2, <1>3 DEF Sound, Ack, Command, Past, Known, Registered
      <3>3. Rejected(c(r).at.match) \in SoundEvent'
        BY <1>2 DEF SoundEvent, Event, Sound, Rejected, Snapshot
      <3>4. answer(r, <<Rejected(c(r).at.match), Ack(r.id, r.n, FALSE)>>) \in Seq(SoundEvent')
        <4>1. ASSUME r.n > 0
              PROVE  <<Rejected(c(r).at.match), Ack(r.id, r.n, FALSE)>> \in Seq(SoundEvent')
          <5>1. Ack(r.id, r.n, FALSE) \in SoundEvent'
            BY <2>1, <3>2, <4>1
          <5> QED
            BY <5>1, <3>3, ShortSeqs, Zenon
        <4> QED
          BY <1>2, <4>1, AnswerSeq, Zenon
      <3> QED
        BY <3>4, <2>5, <1>7, StartedSound, Zenon
    <2> QED
      BY <1>1, <2>3, <2>4, <2>5
  <1> QED
    BY <1>5, <1>7, <1>8, <1>9 DEF StoreInv

\* A request that only starts a handler.
LEMMA HandlerStarts ==
    ASSUME StoreInv, NEW r, up' = up \ {r},
           NEW h \in Seq(SoundEvent), Start(h) \/ UNCHANGED handlers,
           UNCHANGED <<srv, applied, drops, status, dial, room, table, pending, made, loops>>
    PROVE  StoreInv'
  <1>1. TypeOK'
    BY DEF StoreInv, TypeOK, table
  <1>2. ServerAdvances /\ CommandsKept
    BY DEF ServerAdvances, CommandsKept
  <1>3. EnvelopesHad' /\ CardsHad' /\ CardsMatchTable'
    BY <1>1, <1>2, ServerStep DEF table
  <1>4. SoundEvent' = SoundEvent
    BY DEF SoundEvent, Sound, Past, Had, Command, Registered, Event, Snapshot, Hand
  <1>5. HandlersSound'
    BY <1>4, StartSound DEF StoreInv, HandlersSound, Start
  <1>6. RequestsMade'
    BY RequestTaken DEF StoreInv
  <1> QED
    BY <1>1, <1>3, <1>5, <1>6 DEF StoreInv

LEMMA HandleSnapshotRequestInv == StoreInv /\ HandleSnapshotRequest => StoreInv'
  <1> SUFFICES ASSUME StoreInv, HandleSnapshotRequest PROVE StoreInv'
    OBVIOUS
  <1>1. <<MySnapshots>> \in Seq(SoundEvent)
    BY NewEvents
  <1> QED
    BY <1>1, HandlerStarts DEF HandleSnapshotRequest

LEMMA HandleJoinInv == StoreInv /\ HandleJoin => StoreInv'
  <1> SUFFICES ASSUME StoreInv, HandleJoin PROVE StoreInv'
    OBVIOUS
  <1> DEFINE h == CASE srv.phase \in {"live", "over"} ->
                         <<Room(srv.match), MySnapshots, JoinAck(TRUE, srv.match)>>
                    [] srv.phase = "removed" -> <<JoinAck(FALSE, 0)>>
                    [] srv.phase = "waiting" -> <<Room(0), JoinAck(TRUE, 0)>>
  <1>1. srv.match \in 0..MaxMatch /\ 0 \in 0..MaxMatch
    BY BoundsAssumption DEF StoreInv, TypeOK
  <1>2. /\ Room(srv.match) \in SoundEvent /\ Room(0) \in SoundEvent
        /\ MySnapshots \in SoundEvent /\ JoinAck(TRUE, srv.match) \in SoundEvent
        /\ JoinAck(FALSE, 0) \in SoundEvent /\ JoinAck(TRUE, 0) \in SoundEvent
    BY <1>1, NewEvents
  <1>3. h \in Seq(SoundEvent)
    <2>1. srv.phase \in {"live", "over", "removed", "waiting"}
      BY DEF StoreInv, TypeOK
    <2>2. CASE srv.phase \in {"live", "over"}
      <3>1. <<Room(srv.match), MySnapshots, JoinAck(TRUE, srv.match)>> \in Seq(SoundEvent)
        BY <1>2, ShortSeqs, Zenon
      <3> QED
        BY <3>1, <2>2
    <2>3. CASE srv.phase = "removed"
      <3>1. <<JoinAck(FALSE, 0)>> \in Seq(SoundEvent)
        BY <1>2, ShortSeqs, Zenon
      <3> QED
        BY <3>1, <2>3
    <2>4. CASE srv.phase = "waiting"
      <3>1. <<Room(0), JoinAck(TRUE, 0)>> \in Seq(SoundEvent)
        BY <1>2, ShortSeqs, Zenon
      <3> QED
        BY <3>1, <2>4
    <2> QED
      BY <2>1, <2>2, <2>3, <2>4
  <1> QED
    BY <1>3, HandlerStarts DEF HandleJoin

LEMMA StartNextInv == StoreInv /\ StartNext => StoreInv'
  <1> SUFFICES ASSUME StoreInv, StartNext PROVE StoreInv'
    OBVIOUS
  <1>1. srv' \in ServerState /\ ServerAdvances
    BY BoundsAssumption DEF StoreInv, TypeOK, StartNext, ServerState, ServerAdvances
  <1>2. TypeOK'
    BY <1>1 DEF ServerState, StoreInv, TypeOK, StartNext, table
  <1>3. CommandsKept
    BY DEF StartNext, CommandsKept
  <1>4. /\ handlers \subseteq Seq(SoundEvent') \ {<<>>}
        /\ EnvelopesHad' /\ CardsHad' /\ CardsMatchTable' /\ RequestsMade'
    BY <1>1, <1>2, <1>3, ServerStep DEF StartNext, table
  <1>5. HandlersSound'
    <2>1. srv.match + 1 \in 0..MaxMatch
      BY BoundsAssumption DEF StoreInv, TypeOK, StartNext
    <2>2. Room(srv.match + 1) \in SoundEvent' /\ Snapshots \in SoundEvent'
      BY <2>1 DEF SoundEvent, Event, Sound, Room, Snapshots
    <2>3. <<Room(srv.match + 1), Snapshots>> \in Seq(SoundEvent')
      BY <2>2
    <2> QED
      BY <2>3, <1>4, StartedSound DEF StartNext
  <1> QED
    BY <1>2, <1>4, <1>5 DEF StoreInv

-----------------------------------------------------------------------------
(* The connection.                                                         *)

LEMMA DropInv == StoreInv /\ Drop => StoreInv'
  <1> SUFFICES ASSUME StoreInv, Drop PROVE StoreInv'
    OBVIOUS
  <1>1. TypeOK'
    <2>1. drops' \in 0..MaxDrops /\ loops' \in [Ids -> 0..Attempts]
      BY BoundsAssumption DEF StoreInv, TypeOK, Drop, Attempts
    <2>2. pending' \in Ids \cup {None} /\ dial' \in BOOLEAN
      BY DEF StoreInv, TypeOK, Drop, Abandoned
    <2> QED
      BY <2>1, <2>2 DEF StoreInv, TypeOK, Drop, table
  <1>2. SoundEvent' = SoundEvent /\ EnvelopesHad' /\ CardsHad' /\ CardsMatchTable'
    BY DEF SoundEvent, Sound, Past, Had, Command, Registered, Event, Snapshot, Hand,
           Drop, table, StoreInv, EnvelopesHad, CardsHad, CardsMatchTable
  <1>3. HandlersSound'
    <2> SUFFICES ASSUME NEW g \in handlers' PROVE g \in Seq(SoundEvent) \ {<<>>}
      BY <1>2 DEF HandlersSound
    <2>1. PICK h \in handlers : g = SubSeq(h, 1, Shared(h)) /\ g # <<>>
      BY DEF Drop
    <2>2. h \in Seq(SoundEvent)
      BY DEF StoreInv, HandlersSound
    <2> QED
      BY <2>1, <2>2, SharedFacts
  <1>4. RequestsMade'
    <2>1. PICK read \in SUBSET {r \in up : r.k = "action"} :
            up' = {[r EXCEPT !.n = 0] : r \in read}
      BY DEF Drop
    <2>2. UNCHANGED made /\ loops' = [id \in Ids |-> 0]
      BY DEF Drop
    <2>3. ASSUME NEW q \in up' PROVE q \in Request /\ (q.k = "action" => made[q.id] # None)
      <3>1. PICK r \in up : r.k = "action" /\ q = [r EXCEPT !.n = 0]
        BY <2>1
      <3>2. r \in [k : {"action"}, id : Ids, n : Nat] /\ made[r.id] # None
        BY <3>1 DEF StoreInv, RequestsMade, Request
      <3> QED
        BY <3>1, <3>2 DEF Request
    <2> QED
      BY <2>2, <2>3 DEF RequestsMade
  <1> QED
    BY <1>1, <1>2, <1>3, <1>4 DEF StoreInv

LEMMA UserDialsInv == StoreInv /\ UserDials => StoreInv'
  <1> SUFFICES ASSUME StoreInv, UserDials PROVE StoreInv'
    OBVIOUS
  <1>1. TypeOK'
    BY DEF StoreInv, TypeOK, UserDials, server, table
  <1>2. HandlersSound' /\ EnvelopesHad'
    BY ServerFrame DEF StoreInv, UserDials
  <1>3. RequestsMade' /\ CardsHad' /\ CardsMatchTable'
    BY DEF StoreInv, UserDials, RequestsMade, CardsHad, CardsMatchTable, Had, server, table
  <1> QED
    BY <1>1, <1>2, <1>3 DEF StoreInv

LEMMA ConnectInv == StoreInv /\ Connect => StoreInv'
  <1> SUFFICES ASSUME StoreInv, Connect PROVE StoreInv'
    OBVIOUS
  <1>1. TypeOK'
    BY DEF StoreInv, TypeOK, Connect, Reset, server
  <1>2. HandlersSound' /\ EnvelopesHad'
    BY ServerFrame DEF StoreInv, Connect
  <1>3. CardsHad' /\ CardsMatchTable'
    BY DEF Connect, Reset, CardsHad, CardsMatchTable
  <1>4. RequestsMade'
    <2>1. Join \in Request /\ SnapshotRequest(srv.match) \in Request
      BY DEF Request, Join, SnapshotRequest, StoreInv, TypeOK
    <2> QED
      BY <2>1 DEF StoreInv, RequestsMade, Connect, Join, SnapshotRequest
  <1> QED
    BY <1>1, <1>2, <1>3, <1>4 DEF StoreInv

-----------------------------------------------------------------------------
(* An event arrives.                                                       *)

\* The two merge rules keep the cards with their table, and the table does not
\* go back.
LEMMA AcceptFacts ==
    ASSUME StoreInv, NEW s \in Snapshot, Had(s),
           NEW private, private = KeptPrivate(s) \/ private = Dealt(s),
           Accept(s, private)
    PROVE  /\ pub' \in Snapshot \cup {None} /\ priv' \in PrivateSnapshot \cup {None}
           /\ settled' \in Hand \cup {None} /\ pending' \in Ids \cup {None}
           /\ CardsMatchTable'
           /\ priv' # None => Had(priv')
           /\ pub # None /\ pub' # None /\ pub.match = pub'.match => pub'.version >= pub.version
  <1> USE DEF StoreInv, TypeOK
  <1>1. CASE Takes(s)
    <2>1. /\ pub' = s /\ priv' = private
          /\ settled' = SettledAfter(s) /\ pending' = PendingAfter(s)
      BY <1>1 DEF Accept
    <2>2. settled' \in Hand \cup {None} /\ pending' \in Ids \cup {None}
      BY <2>1 DEF SettledAfter, PendingAfter
    <2>3. /\ pub # None /\ pub.match = s.match => s.version >= pub.version
          /\ priv # None /\ priv.match = s.match => s.version >= priv.version
      BY <1>1 DEF Takes, CurrentMatch, CurrentVersion, VersionOf, CardsMatchTable, HandOf, Snapshot,
                  PrivateSnapshot
    <2>4. CASE private = KeptPrivate(s) /\ priv # None /\ HandOf(priv) = HandOf(s)
      <3>1. priv' = priv /\ priv \in PrivateSnapshot /\ Had(priv)
        BY <2>1, <2>4 DEF KeptPrivate, CardsHad
      <3>2. priv.match = s.match
        BY <2>4 DEF HandOf
      <3> QED
        BY <2>1, <2>2, <2>3, <2>4, <3>1, <3>2, NoneAssumption DEF CardsMatchTable
    <2>5. CASE private = KeptPrivate(s) /\ ~(priv # None /\ HandOf(priv) = HandOf(s))
      BY <2>1, <2>2, <2>3, <2>5 DEF CardsMatchTable, KeptPrivate
    <2>6. CASE private = Dealt(s)
      <3>1. private \in PrivateSnapshot
        BY <2>6 DEF Dealt, Snapshot, PrivateSnapshot
      <3>2. HandOf(private) = HandOf(s) /\ private.version = s.version /\ Had(private)
        BY <2>6 DEF Dealt, HandOf, Had
      <3>3. s.version <= s.version
        BY DEF Snapshot
      <3> QED
        BY <2>1, <2>2, <2>3, <3>1, <3>2, <3>3, NoneAssumption DEF CardsMatchTable
    <2> QED
      BY <2>4, <2>5, <2>6
  <1>2. CASE ~Takes(s)
    <2>1. UNCHANGED <<pub, priv, settled, pending>>
      BY <1>2 DEF Accept
    <2> QED
      BY <2>1 DEF CardsMatchTable, CardsHad, Snapshot
  <1> QED
    BY <1>1, <1>2

\* What a step leaves of the store: typed, with its cards, and not gone back.
StoreKept ==
    /\ room' \in 0..MaxMatch \cup {None}
    /\ pub' \in Snapshot \cup {None} /\ priv' \in PrivateSnapshot \cup {None}
    /\ settled' \in Hand \cup {None} /\ timer' \in Hand \cup {None}
    /\ over' \in 1..MaxMatch \cup {None} /\ pending' \in Ids \cup {None}
    /\ CardsMatchTable'
    /\ priv' # None => Had(priv')
    /\ pub # None /\ pub' # None /\ pub.match = pub'.match => pub'.version >= pub.version

\* What it leaves of the requests and of the loops that wait.
RequestsKept ==
    /\ up' \subseteq Request /\ loops' \in [Ids -> 0..Attempts]
    /\ \A r \in up' : r.k = "action" => made[r.id] # None
    /\ \A id \in Ids : loops'[id] # 0 => made[id] # None

LEMMA NothingReceived ==
    ASSUME StoreInv, UNCHANGED <<up, room, table, pending, loops>>
    PROVE  StoreKept /\ RequestsKept
  BY DEF StoreInv, TypeOK, RequestsMade, CardsHad, CardsMatchTable, table, StoreKept, RequestsKept,
         Snapshot

\* A request for a snapshot is the only one an event sends.
LEMMA AskSnapshot ==
    ASSUME StoreInv, NEW m \in 0..MaxMatch, up' = up \cup {SnapshotRequest(m)}, UNCHANGED loops
    PROVE  RequestsKept
  <1>1. SnapshotRequest(m) \in Request /\ SnapshotRequest(m).k # "action"
    BY DEF SnapshotRequest, Request
  <1> QED
    BY <1>1 DEF StoreInv, TypeOK, RequestsMade, RequestsKept

LEMMA NoRequest ==
    ASSUME StoreInv, UNCHANGED <<up, loops>>
    PROVE  RequestsKept
  BY DEF StoreInv, TypeOK, RequestsMade, RequestsKept

LEMMA TableStays ==
    ASSUME StoreInv, UNCHANGED <<pub, priv>>
    PROVE  /\ pub' \in Snapshot \cup {None} /\ priv' \in PrivateSnapshot \cup {None}
           /\ CardsMatchTable'
           /\ priv' # None => Had(priv')
           /\ pub # None /\ pub' # None /\ pub.match = pub'.match => pub'.version >= pub.version
  BY DEF StoreInv, TypeOK, CardsHad, CardsMatchTable, Snapshot

LEMMA ReceiveKeeps ==
    ASSUME StoreInv, NEW e, Receive(e),
           \/ e = Public(Current)
           \/ e \in SoundEvent /\ e.k \notin {"snapshots", "mysnapshots", "remove"}
    PROVE  StoreKept /\ RequestsKept
  <1>1. CASE e = Public(Current)
    <2>1. Current \in Snapshot /\ Had(Current)
      BY DEF StoreInv, TypeOK, Current, Snapshot, Had
    <2>2. OnPublic(Current)
      BY <1>1 DEF Receive, Public
    <2> QED
      BY <2>1, <2>2, AcceptFacts, NoRequest DEF OnPublic, StoreKept, StoreInv, TypeOK
  <1>2. CASE e \in Event /\ Sound(e) /\ e.k \notin {"snapshots", "mysnapshots", "remove"}
    <2>1. e.k \in {"room", "private", "myprivate", "settled", "over", "rejected", "ack", "joined"}
      BY <1>2 DEF Event
    <2>2. CASE e.k = "room"
      <3>1. OnRoom(e.match) /\ e.match \in 0..MaxMatch
        BY <1>2, <2>2, EventFacts DEF Receive
      <3>2. RequestsKept
        BY <3>1, AskSnapshot, NoRequest DEF OnRoom
      <3> QED
        BY <3>1, <3>2, TableStays DEF OnRoom, StoreKept, StoreInv, TypeOK, table
    <2>3. CASE e.k \in {"private", "myprivate"}
      <3>1. OnPrivate(e.s) /\ e.s \in Snapshot /\ Had(e.s)
        BY <1>2, <2>3, EventFacts DEF Receive, Sound
      <3> QED
        BY <3>1, AcceptFacts, NoRequest DEF OnPrivate, StoreKept, StoreInv, TypeOK
    <2>4. CASE e.k = "settled"
      <3>1. OnSettled(e.hand) /\ e.hand \in Hand
        BY <1>2, <2>4, EventFacts DEF Receive
      <3> QED
        BY <3>1, TableStays, NoRequest DEF OnSettled, StoreKept, StoreInv, TypeOK
    <2>5. CASE e.k = "over"
      <3>1. OnOver(e.match) /\ e.match \in 1..MaxMatch
        BY <1>2, <2>5, EventFacts DEF Receive
      <3> QED
        BY <3>1, TableStays, NoRequest DEF OnOver, StoreKept, StoreInv, TypeOK
    <2>6. CASE e.k = "rejected"
      <3>1. OnRejected(e.match) /\ e.match \in 0..MaxMatch
        BY <1>2, <2>6, EventFacts DEF Receive
      <3> QED
        BY <3>1, TableStays, AskSnapshot DEF OnRejected, StoreKept, StoreInv, TypeOK, table
    <2>7. CASE e.k = "ack"
      <3>1. OnAck(e.id, e.n, e.ok) /\ e.id \in Ids /\ e.n # 0
        BY <1>2, <2>7, EventFacts DEF Receive
      <3>2. CASE loops[e.id] = e.n
        <4>1. made[e.id] \in Snapshot
          BY <3>1, <3>2 DEF StoreInv, RequestsMade, TypeOK
        <4>2. made[e.id].match \in 0..MaxMatch
          BY <4>1 DEF Snapshot
        <4>3. SnapshotRequest(made[e.id].match) \in Request
          BY <4>2 DEF SnapshotRequest, Request
        <4>4. /\ loops' = [loops EXCEPT ![e.id] = 0]
              /\ pending' = pending \/ pending' = None
              /\ up' = up \cup {SnapshotRequest(made[e.id].match)}
              /\ UNCHANGED <<room, table>>
          BY <3>1, <3>2 DEF OnAck
        <4>5. RequestsKept
          <5>1. SnapshotRequest(made[e.id].match).k # "action"
            BY DEF SnapshotRequest
          <5>2. /\ up' \subseteq Request
                /\ \A r \in up' : r.k = "action" => made[r.id] # None
            BY <4>3, <4>4, <5>1 DEF StoreInv, RequestsMade
          <5>3. /\ loops' \in [Ids -> 0..Attempts]
                /\ \A id \in Ids : loops'[id] # 0 => made[id] # None
            <6>1. /\ loops \in [Ids -> 0..Attempts] /\ 0 \in 0..Attempts
                  /\ \A id \in Ids : loops[id] # 0 => made[id] # None
              BY DEF StoreInv, TypeOK, RequestsMade, Attempts
            <6>2. \A id \in Ids : loops'[id] = IF id = e.id THEN 0 ELSE loops[id]
              BY <4>4, <6>1
            <6> QED
              BY <4>4, <6>1, <6>2
          <5> QED
            BY <5>2, <5>3 DEF RequestsKept
        <4> QED
          BY <4>4, <4>5, TableStays DEF StoreKept, StoreInv, TypeOK, table
      <3> QED
        BY <3>1, <3>2, NothingReceived DEF OnAck
    <2>8. CASE e.k = "joined"
      <3>1. OnJoined(e.ok, e.match) /\ e.match \in 0..MaxMatch
        BY <1>2, <2>8, EventFacts DEF Receive
      <3> QED
        BY <3>1, TableStays, NoRequest DEF OnJoined, StoreKept, StoreInv, TypeOK, table
    <2> QED
      BY <2>1, <2>2, <2>3, <2>4, <2>5, <2>6, <2>7, <2>8
  <1> QED
    BY <1>1, <1>2 DEF SoundEvent

\* One emission, whether it is heard or not.
EmitOne(h) ==
    LET e    == Head(h)
        rest == CASE e = Snapshots   -> <<Private(Current)>> \o Tail(h)
                  [] e = MySnapshots -> <<MyPrivate(Current)>> \o Tail(h)
                  [] OTHER           -> Tail(h)
    IN /\ handlers' = (handlers \ {h}) \cup ({rest} \ {<<>>})
       /\ srv' = [srv EXCEPT !.phase = CASE e = Remove  -> "removed"
                                         [] e = Room(0) -> "waiting"
                                         [] OTHER       -> @]
       /\ \/ Receive(Public(Current))
          \/ e.k \notin {"snapshots", "mysnapshots", "remove"} /\ Receive(e)
          \/ UNCHANGED <<up, room, table, pending, loops>>

LEMMA EmitIsOne == StoreInv /\ Emit => \E h \in handlers : EmitOne(h)
  <1> SUFFICES ASSUME StoreInv, Emit PROVE \E h \in handlers : EmitOne(h)
    OBVIOUS
  <1>1. PICK h \in handlers :
          LET e     == Head(h)
              taken == e.k \in {"snapshots", "mysnapshots"}
              rest  == CASE e = Snapshots   -> <<Private(Current)>> \o Tail(h)
                         [] e = MySnapshots -> <<MyPrivate(Current)>> \o Tail(h)
                         [] OTHER           -> Tail(h)
          IN /\ handlers' = (handlers \ {h}) \cup ({rest} \ {<<>>})
             /\ srv' = [srv EXCEPT !.phase = CASE e = Remove  -> "removed"
                                               [] e = Room(0) -> "waiting"
                                               [] OTHER       -> @]
             /\ IF status = "connected" /\ e # Remove
                THEN Receive(IF taken THEN Public(Current) ELSE e)
                ELSE UNCHANGED <<up, room, table, pending, loops>>
    BY DEF Emit
  <1>2. Head(h) \in Event
    <2>1. h \in Seq(SoundEvent) /\ h # <<>>
      BY DEF StoreInv, HandlersSound
    <2>2. Head(h) \in SoundEvent
      BY <2>1
    <2> QED
      BY <2>2 DEF SoundEvent
  <1>3. Head(h).k = "remove" => Head(h) = Remove
    BY <1>2 DEF Event, Remove
  <1>4. \/ Receive(Public(Current))
        \/ Head(h).k \notin {"snapshots", "mysnapshots", "remove"} /\ Receive(Head(h))
        \/ UNCHANGED <<up, room, table, pending, loops>>
    <2> DEFINE e == Head(h)
               taken == e.k \in {"snapshots", "mysnapshots"}
    <2>1. IF status = "connected" /\ e # Remove
          THEN Receive(IF taken THEN Public(Current) ELSE e)
          ELSE UNCHANGED <<up, room, table, pending, loops>>
      BY <1>1
    <2>2. e.k = "remove" => e = Remove
      BY <1>3
    <2>3. CASE taken
      BY <2>1, <2>3
    <2>4. CASE ~taken
      <3>1. CASE status = "connected" /\ e # Remove
        BY <2>1, <2>2, <2>4, <3>1
      <3> QED
        BY <2>1, <3>1
    <2> QED
      BY <2>3, <2>4
  <1> QED
    BY <1>1, <1>4 DEF EmitOne

LEMMA EmitInv == StoreInv /\ Emit => StoreInv'
  <1> SUFFICES ASSUME StoreInv, Emit PROVE StoreInv'
    OBVIOUS
  <1>1. PICK h \in handlers : EmitOne(h)
    BY EmitIsOne
  <1>2. UNCHANGED <<applied, drops, status, dial, made>>
    BY DEF Emit
  <1>3. h \in Seq(SoundEvent) /\ h # <<>> /\ Head(h) \in SoundEvent
    BY DEF StoreInv, HandlersSound
  <1>4. StoreKept /\ RequestsKept
    BY <1>1, <1>3, ReceiveKeeps, NothingReceived DEF EmitOne
  <1>5. /\ srv' \in ServerState /\ ServerAdvances
    <2>1. srv \in ServerState
      BY DEF StoreInv, TypeOK, ServerState
    <2>2. PICK ph \in {srv.phase, "removed", "waiting"} : srv' = [srv EXCEPT !.phase = ph]
      BY <1>1 DEF EmitOne
    <2> QED
      BY <2>1, <2>2 DEF ServerState, ServerAdvances
  <1>6. TypeOK'
    BY <1>2, <1>4, <1>5 DEF ServerState, StoreKept, RequestsKept, StoreInv, TypeOK
  <1>7. CommandsKept
    BY <1>2 DEF CommandsKept
  <1>8. handlers \subseteq Seq(SoundEvent') \ {<<>>} /\ EnvelopesHad'
    BY <1>2, <1>5, <1>6, <1>7, ServerStep
  <1>9. CardsHad' /\ CardsMatchTable'
    <2>1. priv' # None => priv' \in PrivateSnapshot /\ Had(priv')
      BY <1>4 DEF StoreKept
    <2>2. priv' # None => Had(priv)'
      BY <2>1, <1>5, <1>6, HadMono DEF StoreInv, Had
    <2> QED
      BY <2>2, <1>4 DEF CardsHad, StoreKept
  <1>10. RequestsMade'
    BY <1>2, <1>4 DEF RequestsKept, RequestsMade
  <1>11. HandlersSound'
    <2>1. Current \in Snapshot /\ Had(Current)
      BY DEF StoreInv, TypeOK, Current, Snapshot, Had
    <2>2. Had(Current)'
      BY <1>6 DEF TypeOK, Current, Had
    <2>3. srv'.match = srv.match /\ srv'.version = srv.version /\ srv'.hand = srv.hand
          /\ srv'.turn = srv.turn
      BY <1>1 DEF EmitOne, StoreInv, TypeOK
    <2>4. Private(Current) \in SoundEvent' /\ MyPrivate(Current) \in SoundEvent'
      BY <2>1, <2>3 DEF SoundEvent, Event, Sound, Private, MyPrivate, Current, Had, Snapshot, Hand
    <2>5. h \in Seq(SoundEvent') /\ h # <<>>
      BY <1>8
    <2>6. Tail(h) \in Seq(SoundEvent')
      BY <2>5
    <2>7. /\ <<Private(Current)>> \o Tail(h) \in Seq(SoundEvent')
          /\ <<MyPrivate(Current)>> \o Tail(h) \in Seq(SoundEvent')
      BY <2>4, <2>6
    <2>8. PICK rest \in Seq(SoundEvent') :
            handlers' = (handlers \ {h}) \cup ({rest} \ {<<>>})
      BY <1>1, <2>6, <2>7 DEF EmitOne
    <2> QED
      BY <1>8, <2>8 DEF HandlersSound
  <1> QED
    BY <1>6, <1>8, <1>9, <1>10, <1>11 DEF StoreInv

-----------------------------------------------------------------------------
(***************************************************************************)
(* What is under way.  As long as the table, the cards or the room are not *)
(* those of the live match, something is under way that brings them; and   *)
(* while a command is pending its loop waits, or the broadcast of what it  *)
(* did is still to come.                                                   *)
(***************************************************************************)

Coming(e) == \E h \in handlers : \E i \in DOMAIN h : h[i] = e

RoomComing  == Coming(Room(srv.match)) \/ Coming(JoinAck(TRUE, srv.match)) \/ Join \in up
TableComing == \/ Coming(Snapshots) \/ Coming(MySnapshots)
               \/ SnapshotRequest(srv.match) \in up \/ Join \in up
CardsComing == Coming(Private(Current)) \/ Coming(MyPrivate(Current))

TableHad    == pub # None => Had(pub)
AppliedMade == \A c \in applied : c.id \in Ids /\ made[c.id] # None /\ c.at = made[c.id]

\* An emission is of the match the server has; no room is left while it is live.
OfThisMatch(e) ==
    /\ e.k \in {"private", "myprivate"} => e.s.match = srv.match
    /\ srv.phase = "live" =>
         /\ e.k # "remove"
         /\ e.k = "room" => e.match = srv.match
         /\ e.k = "joined" => e.ok /\ e.match = srv.match
NoOldMatch == \A h \in handlers : \A i \in DOMAIN h : OfThisMatch(h[i])

LiveKept ==
    status = "connected" /\ srv.phase = "live" =>
        /\ room = srv.match \/ RoomComing
        /\ pub = Current \/ TableComing
        /\ priv = Dealt(Current) \/ TableComing \/ CardsComing

PendingKept ==
    status = "connected" /\ pending # None =>
        /\ made[pending] # None
        /\ loops[pending] = 0 => Command(pending) \in applied
        /\ Command(pending) \in applied =>
             /\ made[pending].match = srv.match /\ made[pending].version < srv.version
             /\ Coming(Snapshots)

WayInv == TableHad /\ AppliedMade /\ NoOldMatch /\ LiveKept /\ PendingKept

LEMMA WayInit == Init => WayInv
  <1> SUFFICES ASSUME Init PROVE WayInv
    OBVIOUS
  <1> USE BoundsAssumption
  <1>1. TableHad /\ AppliedMade /\ PendingKept
    BY DEF Init, TableHad, AppliedMade, PendingKept
  <1>2. NoOldMatch
    BY DEF Init, NoOldMatch, OfThisMatch, Room, Snapshots
  <1>3. Coming(Room(srv.match)) /\ Coming(Snapshots)
    <2> DEFINE h == <<Room(1), Snapshots>>
    <2>1. h \in handlers /\ 1 \in DOMAIN h /\ 2 \in DOMAIN h /\ h[1] = Room(srv.match) /\ h[2] = Snapshots
      BY DEF Init
    <2> QED
      BY <2>1 DEF Coming
  <1> QED
    BY <1>1, <1>2, <1>3 DEF WayInv, LiveKept, RoomComing, TableComing

\* A step that leaves the server, its handlers and the snapshots of the store
\* alone, and may send requests.
LEMMA MoreAsked ==
    ASSUME WayInv, UNCHANGED <<server, status, room, pub, priv>>, up \subseteq up'
    PROVE  /\ TableHad' /\ NoOldMatch' /\ LiveKept'
           /\ UNCHANGED made => AppliedMade'
           /\ UNCHANGED <<made, pending, loops>> => PendingKept'
  <1>1. \A e : Coming(e)' <=> Coming(e)
    BY DEF Coming, server
  <1>2. srv' = srv /\ handlers' = handlers /\ applied' = applied
    BY DEF server
  <1>3. NoOldMatch'
    <2> SUFFICES ASSUME NEW h \in handlers, NEW i \in DOMAIN h PROVE OfThisMatch(h[i])'
      BY <1>2 DEF NoOldMatch
    <2>1. OfThisMatch(h[i])
      BY DEF WayInv, NoOldMatch
    <2> QED
      BY <1>2, <2>1 DEF OfThisMatch
  <1>4. TableHad' /\ (UNCHANGED made => AppliedMade')
    BY <1>2 DEF WayInv, TableHad, AppliedMade, Had
  <1>5. LiveKept'
    <2>1. Current' = Current /\ Dealt(Current)' = Dealt(Current)
      BY <1>2 DEF Current, Dealt
    <2>2. (RoomComing => RoomComing') /\ (TableComing => TableComing') /\ (CardsComing => CardsComing')
      BY <1>1, <1>2, <2>1 DEF RoomComing, TableComing, CardsComing
    <2> QED
      BY <1>2, <2>1, <2>2 DEF WayInv, LiveKept
  <1>6. UNCHANGED <<made, pending, loops>> => PendingKept'
    BY <1>1, <1>2 DEF WayInv, PendingKept, Command
  <1> QED
    BY <1>3, <1>4, <1>5, <1>6

LEMMA WayFrame ==
    ASSUME WayInv, UNCHANGED <<server, up, status, room, pub, priv, pending, made, loops>>
    PROVE  WayInv'
  BY MoreAsked DEF WayInv

LEMMA SettlementTimerWay == WayInv /\ SettlementTimer => WayInv'
  BY WayFrame DEF SettlementTimer

LEMMA AckTimeoutWay == StoreInv /\ WayInv /\ AckTimeout => WayInv'
  <1> SUFFICES ASSUME StoreInv, WayInv, AckTimeout PROVE WayInv'
    OBVIOUS
  <1>1. PICK id \in Ids : \/ loops[id] \in 1..(Attempts - 1) /\ Retry(id)
                          \/ loops[id] = Attempts /\ GiveUp(id)
    BY DEF AckTimeout
  <1>2. /\ UNCHANGED <<server, status, room, pub, priv, made>> /\ up \subseteq up'
    BY <1>1 DEF AckTimeout, Retry, GiveUp, table
  <1>3. PendingKept'
    <2>1. CASE Retry(id) /\ loops[id] \in 1..(Attempts - 1)
      <3>1. /\ loops \in [Ids -> 0..Attempts] /\ pending' = pending
            /\ loops' = [loops EXCEPT ![id] = @ + 1]
        BY <2>1 DEF Retry, StoreInv, TypeOK
      <3>2. \A j \in Ids : loops'[j] = 0 => loops[j] = 0
        BY <3>1, <2>1 DEF Attempts
      <3>3. pending # None => pending \in Ids
        BY DEF StoreInv, TypeOK
      <3> QED
        BY <1>2, <3>1, <3>2, <3>3 DEF WayInv, PendingKept, Command, Coming, server
    <2>2. CASE GiveUp(id)
      BY <2>2 DEF GiveUp, PendingKept
    <2> QED
      BY <1>1, <2>1, <2>2
  <1> QED
    BY <1>2, <1>3, MoreAsked DEF WayInv

LEMMA SubmitWay == StoreInv /\ WayInv /\ Submit => WayInv'
  <1> SUFFICES ASSUME StoreInv, WayInv, Submit PROVE WayInv'
    OBVIOUS
  <1>1. PICK id \in Ids :
          /\ IsFresh(id)
          /\ made' = [made EXCEPT ![id] = Envelope(priv)]
          /\ pending' = id /\ loops' = [loops EXCEPT ![id] = 1]
          /\ up' = up \cup {Action(id, 1)}
    BY DEF Submit
  <1>2. /\ made[id] = None /\ made' \in [Ids -> Snapshot \cup {None}] /\ loops'[id] = 1
        /\ made'[id] = Envelope(priv) /\ Envelope(priv) # None
        /\ \A j \in Ids \ {id} : made'[j] = made[j]
    <2>1. priv \in PrivateSnapshot
      BY DEF StoreInv, TypeOK, Submit, ActionBar
    <2>2. Envelope(priv) \in Snapshot
      BY <2>1 DEF Envelope, PrivateSnapshot, Snapshot
    <2> QED
      BY <1>1, <2>2, NoneAssumption DEF IsFresh, StoreInv, TypeOK, Attempts
  <1>3. AppliedMade'
    BY <1>2 DEF WayInv, AppliedMade, Submit, server
  <1>4. PendingKept'
    <2>1. Command(id)' \notin applied
      BY <1>2 DEF WayInv, AppliedMade, Command
    <2> QED
      BY <1>1, <1>2, <2>1 DEF PendingKept, Submit, server
  <1>5. TableHad' /\ NoOldMatch' /\ LiveKept'
    BY <1>1, MoreAsked DEF Submit, table
  <1> QED
    BY <1>3, <1>4, <1>5 DEF WayInv

LEMMA UserDialsWay == WayInv /\ UserDials => WayInv'
  BY WayFrame DEF UserDials, table

\* Who connects joins, which brings everything.
LEMMA ConnectWay == WayInv /\ Connect => WayInv'
  <1> SUFFICES ASSUME WayInv, Connect PROVE WayInv'
    OBVIOUS
  <1>1. TableHad' /\ AppliedMade' /\ NoOldMatch' /\ PendingKept'
    BY DEF Connect, Reset, server, WayInv, TableHad, AppliedMade, NoOldMatch, PendingKept, OfThisMatch
  <1>2. LiveKept'
    BY DEF Connect, LiveKept, RoomComing, TableComing
  <1> QED
    BY <1>1, <1>2 DEF WayInv

\* Without a connection nothing is promised but that emissions are of the match.
LEMMA DropWay == StoreInv /\ WayInv /\ Drop => WayInv'
  <1> SUFFICES ASSUME StoreInv, WayInv, Drop PROVE WayInv'
    OBVIOUS
  <1>1. TableHad' /\ AppliedMade' /\ LiveKept' /\ PendingKept'
    BY DEF Drop, table, WayInv, TableHad, AppliedMade, LiveKept, PendingKept, Had
  <1>2. NoOldMatch'
    <2> DEFINE T == {e \in SoundEvent : OfThisMatch(e)}
    <2> SUFFICES ASSUME NEW g \in handlers', NEW i \in DOMAIN g PROVE OfThisMatch(g[i])
      BY DEF NoOldMatch, OfThisMatch, Drop
    <2>1. PICK h \in handlers : g = SubSeq(h, 1, Shared(h))
      BY DEF Drop
    <2>2. h \in Seq(T)
      <3>1. h \in Seq(SoundEvent)
        BY DEF StoreInv, HandlersSound
      <3>2. \A n \in DOMAIN h : h[n] \in T
        BY <3>1 DEF WayInv, NoOldMatch
      <3> QED
        BY <3>1, <3>2
    <2>3. g \in Seq(T)
      BY <2>1, <2>2, SharedFacts
    <2> QED
      BY <2>3
  <1> QED
    BY <1>1, <1>2 DEF WayInv

-----------------------------------------------------------------------------
(* What is under way, when a handler begins.                               *)

\* A new handler adds what it has to emit.
LEMMA StartComing ==
    ASSUME NEW h, Start(h)
    PROVE  /\ \A e : Coming(e) => Coming(e)'
           /\ \A i \in DOMAIN h : Coming(h[i])'
           /\ \A g \in handlers' : g \in handlers \/ g = h
  <1>1. handlers' = handlers \cup ({h} \ {<<>>})
    BY DEF Start
  <1>2. ASSUME NEW i \in DOMAIN h PROVE Coming(h[i])'
    <2>1. h # <<>>
      OBVIOUS
    <2> QED
      BY <1>1, <2>1 DEF Coming
  <1> QED
    BY <1>1, <1>2 DEF Coming

\* Emissions that are of this match whatever it is.
LEMMA AnswersOfMatch ==
    /\ OfThisMatch(Snapshots) /\ OfThisMatch(MySnapshots)
    /\ \A id, n, ok, m : OfThisMatch(Ack(id, n, ok)) /\ OfThisMatch(Rejected(m))
    /\ \A h : OfThisMatch(Settled(h))
  BY DEF OfThisMatch, Snapshots, MySnapshots, Ack, Rejected, Settled

\* The elements of short sequences, and of an answer that may have no receiver.
LEMMA Elements ==
    ASSUME NEW a, NEW b, NEW n
    PROVE  /\ \A i \in DOMAIN <<a>> : <<a>>[i] = a
           /\ \A i \in DOMAIN <<a, b>> : <<a, b>>[i] = a \/ <<a, b>>[i] = b
           /\ LET s == IF n > 0 THEN <<a>> ELSE <<>>
              IN  \A i \in DOMAIN s : s[i] = a
           /\ LET s == IF n > 0 THEN <<a, b>> ELSE <<>>
              IN  \A i \in DOMAIN s : s[i] = a \/ s[i] = b
  <1>1. /\ \A i \in DOMAIN <<a>> : <<a>>[i] = a
        /\ \A i \in DOMAIN <<a, b>> : <<a, b>>[i] = a \/ <<a, b>>[i] = b
        /\ \A i \in DOMAIN <<>> : FALSE
    OBVIOUS
  <1>2. CASE n > 0
    BY <1>1, <1>2
  <1>3. CASE ~(n > 0)
    BY <1>1, <1>3
  <1> QED
    BY <1>2, <1>3

\* A handler begins, for a request that asks for no more than it brings.
LEMMA HandlerStartsWay ==
    ASSUME WayInv, NEW h, Start(h), \A i \in DOMAIN h : OfThisMatch(h[i]),
           UNCHANGED <<srv, applied, status, room, pub, priv, pending, made, loops>>,
           \/ Join \in up => Join \in up'
           \/ srv.phase # "live"
           \/ Room(srv.match) \in {h[i] : i \in DOMAIN h} /\ MySnapshots \in {h[i] : i \in DOMAIN h},
           \/ SnapshotRequest(srv.match) \in up => SnapshotRequest(srv.match) \in up'
           \/ MySnapshots \in {h[i] : i \in DOMAIN h}
    PROVE  WayInv'
  <1>1. /\ \A e : Coming(e) => Coming(e)'
        /\ \A i \in DOMAIN h : Coming(h[i])'
        /\ \A g \in handlers' : g \in handlers \/ g = h
    BY StartComing
  <1>2. TableHad' /\ AppliedMade'
    BY DEF WayInv, TableHad, AppliedMade, Had
  <1>3. NoOldMatch'
    <2> SUFFICES ASSUME NEW g \in handlers', NEW i \in DOMAIN g PROVE OfThisMatch(g[i])'
      BY DEF NoOldMatch
    <2>1. OfThisMatch(g[i])
      BY <1>1 DEF WayInv, NoOldMatch
    <2> QED
      BY <2>1 DEF OfThisMatch
  <1>4. LiveKept'
    <2> SUFFICES ASSUME status = "connected", srv.phase = "live"
                 PROVE  /\ room = srv.match \/ RoomComing'
                        /\ pub = Current \/ TableComing'
                        /\ priv = Dealt(Current) \/ TableComing' \/ CardsComing'
      BY DEF LiveKept, Current, Dealt
    <2>1. CardsComing => CardsComing'
      BY <1>1 DEF CardsComing, Current
    <2>2. TableComing => TableComing'
      BY <1>1 DEF TableComing
    <2>3. RoomComing => RoomComing'
      BY <1>1 DEF RoomComing
    <2> QED
      BY <2>1, <2>2, <2>3 DEF WayInv, LiveKept
  <1>5. PendingKept'
    BY <1>1 DEF WayInv, PendingKept, Command
  <1> QED
    BY <1>2, <1>3, <1>4, <1>5 DEF WayInv

\* What a command that takes effect does to what is under way.
LEMMA AdvanceWay ==
    ASSUME StoreInv, StoreInv', WayInv, NEW answer, answer \in Seq(SoundEvent'), Advance(answer),
           \A i \in DOMAIN answer : answer[i].k = "ack",
           NEW C, applied' = applied \cup C,
           \A c \in C : Applies(c) /\ c.id \in Ids /\ made[c.id] # None /\ c.at = made[c.id],
           UNCHANGED <<status, room, pub, priv, pending, made, loops>>,
           Join \in up => Join \in up'
    PROVE  WayInv'
  <1>1. PICK outcome \in {"decision", "hand", "end"}, turn \in BOOLEAN :
          /\ srv' = [srv EXCEPT !.version = @ + 1, !.turn = turn,
                                !.hand = IF outcome = "hand" THEN @ + 1 ELSE @,
                                !.phase = IF outcome = "end" THEN "over" ELSE @]
          /\ Start((IF outcome = "decision" THEN <<>> ELSE <<Settled(HandOf(srv))>>)
                   \o <<Snapshots>>
                   \o (IF outcome = "end" THEN <<Over(srv.match), Remove, Room(0)>> ELSE <<>>)
                   \o answer)
    BY DEF Advance
  <1> DEFINE A == IF outcome = "decision" THEN <<>> ELSE <<Settled(HandOf(srv))>>
             B == IF outcome = "end" THEN <<Over(srv.match), Remove, Room(0)>> ELSE <<>>
             h == A \o <<Snapshots>> \o B \o answer
             U == UNION {{Settled(HandOf(srv)), Snapshots, Over(srv.match), Remove, Room(0)}, SoundEvent'}
             T == {e \in U : OfThisMatch(e)'}
  <1>2. /\ srv.match \in 1..MaxMatch /\ srv.version \in 0..MaxVersion /\ srv.phase = "live"
        /\ srv'.match = srv.match /\ srv'.version = srv.version + 1
        /\ srv'.phase = IF outcome = "end" THEN "over" ELSE "live"
    BY <1>1 DEF StoreInv, TypeOK, Advance
  <1>3. h \in Seq(T)
    <2>1. /\ Settled(HandOf(srv)) \in T /\ Snapshots \in T
          /\ outcome = "end" => Over(srv.match) \in T /\ Remove \in T /\ Room(0) \in T
      BY <1>2 DEF OfThisMatch, Settled, Snapshots, Over, Remove, Room
    <2>2. \A i \in DOMAIN answer : answer[i] \in T
      BY DEF OfThisMatch
    <2> HIDE DEF T
    <2>3. A \in Seq(T) /\ B \in Seq(T) /\ <<Snapshots>> \in Seq(T)
      BY <2>1
    <2>4. answer \in Seq(T)
      BY <2>2
    <2> QED
      BY <2>3, <2>4
  <1>4. \E i \in DOMAIN h : h[i] = Snapshots
    <2>1. A \in Seq(T) /\ B \in Seq(T) /\ answer \in Seq(SoundEvent')
      <3>1. /\ Settled(HandOf(srv)) \in T
            /\ outcome = "end" => Over(srv.match) \in T /\ Remove \in T /\ Room(0) \in T
        BY <1>2 DEF OfThisMatch, Settled, Snapshots, Over, Remove, Room
      <3> HIDE DEF T
      <3> QED
        BY <3>1
    <2> HIDE DEF A, B, T
    <2>2. Len(A) + 1 \in DOMAIN h /\ h[Len(A) + 1] = Snapshots
      BY <2>1
    <2> QED
      BY <2>2
  <1> HIDE DEF T
  <1>5. /\ \A e : Coming(e) => Coming(e)'
        /\ Coming(Snapshots)'
        /\ \A g \in handlers' : g \in handlers \/ g = h
    <2>1. Start(h)
      BY <1>1
    <2> HIDE DEF h
    <2> QED
      BY <2>1, <1>4, StartComing
  <1>6. TableHad'
    <2>1. ServerAdvances
      BY <1>2 DEF ServerAdvances
    <2> QED
      BY <2>1, HadMono DEF WayInv, TableHad, StoreInv, TypeOK, Had
  <1>7. AppliedMade'
    BY DEF WayInv, AppliedMade
  <1>8. NoOldMatch'
    <2> SUFFICES ASSUME NEW g \in handlers', NEW i \in DOMAIN g PROVE OfThisMatch(g[i])'
      BY DEF NoOldMatch
    <2>1. CASE g \in handlers
      <3>1. OfThisMatch(g[i])
        BY <2>1 DEF WayInv, NoOldMatch
      <3> QED
        BY <1>2, <3>1 DEF OfThisMatch
    <2>2. CASE g = h
      <3> HIDE DEF h
      <3>1. h[i] \in T
        BY <2>2, <1>3
      <3> QED
        BY <2>2, <3>1 DEF T
    <2> QED
      BY <1>5, <2>1, <2>2
  <1>9. LiveKept'
    <2>1. status = "connected" => room = srv.match \/ RoomComing'
      BY <1>2, <1>5 DEF WayInv, LiveKept, RoomComing
    <2> QED
      BY <1>2, <1>5, <2>1 DEF LiveKept, TableComing
  <1>10. PendingKept'
    <2> SUFFICES ASSUME status = "connected", pending # None
                 PROVE  /\ made[pending] # None
                        /\ loops[pending] = 0 => Command(pending) \in applied'
                        /\ Command(pending) \in applied' =>
                             made[pending].match = srv'.match /\ made[pending].version < srv'.version
      BY <1>5 DEF PendingKept, Command
    <2>1. pending \in Ids /\ made[pending] # None /\ made[pending] \in Snapshot
      BY DEF WayInv, PendingKept, StoreInv, TypeOK
    <2>2. loops[pending] = 0 => Command(pending) \in applied'
      BY DEF WayInv, PendingKept
    <2>3. ASSUME Command(pending) \in applied
          PROVE  made[pending].match = srv'.match /\ made[pending].version < srv'.version
      BY <1>2, <2>1, <2>3 DEF WayInv, PendingKept, Snapshot
    <2>4. ASSUME Command(pending) \in C
          PROVE  made[pending].match = srv'.match /\ made[pending].version < srv'.version
      BY <1>2, <2>1, <2>4 DEF Applies, Current, Command
    <2> QED
      BY <2>1, <2>2, <2>3, <2>4
  <1> QED
    BY <1>6, <1>7, <1>8, <1>9, <1>10 DEF WayInv

LEMMA OthersActWay == StoreInv /\ StoreInv' /\ WayInv /\ OthersAct => WayInv'
  <1> SUFFICES ASSUME StoreInv, StoreInv', WayInv, OthersAct PROVE WayInv'
    OBVIOUS
  <1>1. <<>> \in Seq(SoundEvent') /\ DOMAIN <<>> = {}
    OBVIOUS
  <1>2. applied' = applied \cup {}
    BY DEF OthersAct
  <1> QED
    BY <1>1, <1>2, AdvanceWay DEF OthersAct, table

LEMMA HandleActionWay == StoreInv /\ StoreInv' /\ WayInv /\ HandleAction => WayInv'
  <1> SUFFICES ASSUME StoreInv, StoreInv', WayInv, HandleAction PROVE WayInv'
    OBVIOUS
  <1> DEFINE c(r) == [id |-> r.id, at |-> made[r.id]]
             answer(r, s) == IF r.n > 0 THEN s ELSE <<>>
  <1>1. PICK r \in up :
          /\ r.k = "action" /\ up' = up \ {r}
          /\ \/ /\ Known(c(r))
                /\ Start(answer(r, <<Ack(r.id, r.n, TRUE)>>))
                /\ UNCHANGED <<srv, applied>>
             \/ /\ ~Known(c(r)) /\ Applies(c(r))
                /\ applied' = applied \cup {c(r)}
                /\ Advance(answer(r, <<Ack(r.id, r.n, TRUE)>>))
             \/ /\ ~Known(c(r)) /\ ~Applies(c(r))
                /\ Start(answer(r, <<Rejected(c(r).at.match), Ack(r.id, r.n, FALSE)>>))
                /\ UNCHANGED <<srv, applied>>
    BY DEF HandleAction
  <1>2. r.id \in Ids /\ r.n \in Nat /\ made[r.id] # None
    BY <1>1, RequestFacts DEF StoreInv, RequestsMade
  <1>3. UNCHANGED <<status, room, pub, priv, pending, made, loops>>
    BY DEF HandleAction, table
  <1>4. /\ Join \in up => Join \in up'
        /\ \A m : SnapshotRequest(m) \in up => SnapshotRequest(m) \in up'
    BY <1>1 DEF Join, SnapshotRequest
  <1> DEFINE ack(ok) == Ack(r.id, r.n, ok)
             yes == answer(r, <<ack(TRUE)>>)
             no == answer(r, <<Rejected(c(r).at.match), ack(FALSE)>>)
  <1>5. /\ \A i \in DOMAIN yes : yes[i] = ack(TRUE)
        /\ \A i \in DOMAIN no : no[i] = Rejected(c(r).at.match) \/ no[i] = ack(FALSE)
    <2> HIDE DEF ack
    <2> QED
      BY Elements, Zenon
  <1>6. /\ \A i \in DOMAIN yes : OfThisMatch(yes[i]) /\ yes[i].k = "ack"
        /\ \A i \in DOMAIN no : OfThisMatch(no[i])
    <2>1. OfThisMatch(ack(TRUE)) /\ OfThisMatch(ack(FALSE)) /\ ack(TRUE).k = "ack"
          /\ OfThisMatch(Rejected(c(r).at.match))
      BY AnswersOfMatch DEF Ack
    <2> HIDE DEF yes, no, ack
    <2> QED
      BY <1>5, <2>1
  <1> HIDE DEF yes, no
  <1>7. CASE UNCHANGED <<srv, applied>> /\ (Start(yes) \/ Start(no))
    BY <1>3, <1>4, <1>6, <1>7, HandlerStartsWay
  <1>8. CASE Applies(c(r)) /\ applied' = applied \cup {c(r)} /\ Advance(yes)
    <2>1. yes \in Seq(SoundEvent')
      <3>1. Sound(ack(TRUE))'
        BY <1>2, <1>3, <1>8 DEF Sound, Ack, Command
      <3>2. r.n > 0 => ack(TRUE) \in SoundEvent'
        BY <1>2, <3>1 DEF SoundEvent, Event, Ack, Snapshot, Hand
      <3> HIDE DEF ack
      <3>3. r.n > 0 => <<ack(TRUE)>> \in Seq(SoundEvent')
        BY <3>2, ShortSeqs, Zenon
      <3> QED
        BY <1>2, <3>3, AnswerSeq, Zenon DEF yes
    <2>2. \A d \in {c(r)} : Applies(d) /\ d.id \in Ids /\ made[d.id] # None /\ d.at = made[d.id]
      BY <1>2, <1>8
    <2> DEFINE C == {c(r)}
    <2>3. applied' = applied \cup C
      BY <1>8
    <2>4. \A d \in C : Applies(d) /\ d.id \in Ids /\ made[d.id] # None /\ d.at = made[d.id]
      BY <2>2
    <2> HIDE DEF C
    <2>5. Advance(yes) /\ \A i \in DOMAIN yes : yes[i].k = "ack"
      BY <1>6, <1>8
    <2> QED
      BY <1>3, <1>4, <2>1, <2>3, <2>4, <2>5, AdvanceWay
  <1> QED
    BY <1>1, <1>7, <1>8 DEF yes, no

LEMMA HandleSnapshotRequestWay == StoreInv /\ WayInv /\ HandleSnapshotRequest => WayInv'
  <1> SUFFICES ASSUME StoreInv, WayInv, HandleSnapshotRequest PROVE WayInv'
    OBVIOUS
  <1>1. PICK r \in up :
          /\ r.k = "snapshot" /\ up' = up \ {r}
          /\ IF Registered(r.match) THEN Start(<<MySnapshots>>) ELSE UNCHANGED handlers
    BY DEF HandleSnapshotRequest
  <1>2. UNCHANGED <<srv, applied, status, room, pub, priv, pending, made, loops>>
    BY DEF HandleSnapshotRequest, table
  <1>3. Join \in up => Join \in up'
    BY <1>1 DEF Join
  <1>4. CASE Registered(r.match)
    <2> DEFINE h == <<MySnapshots>>
    <2>1. /\ \A i \in DOMAIN h : OfThisMatch(h[i])
          /\ MySnapshots \in {h[i] : i \in DOMAIN h} /\ Start(h)
      BY <1>1, <1>4, AnswersOfMatch
    <2> HIDE DEF h
    <2> QED
      BY <1>2, <1>3, <2>1, HandlerStartsWay
  <1>5. CASE ~Registered(r.match)
    <2>1. srv.phase = "live" => r # SnapshotRequest(srv.match)
      BY <1>5 DEF Registered, SnapshotRequest
    <2>2. UNCHANGED handlers
      BY <1>1, <1>5
    <2>3. \A e : Coming(e)' <=> Coming(e)
      BY <2>2 DEF Coming
    <2>4. TableHad' /\ AppliedMade' /\ NoOldMatch' /\ PendingKept'
      BY <1>2, <2>2, <2>3 DEF WayInv, TableHad, AppliedMade, NoOldMatch, PendingKept, Command, Had,
                              OfThisMatch
    <2>5. LiveKept'
      <3> SUFFICES ASSUME status = "connected", srv.phase = "live"
                   PROVE  /\ room = srv.match \/ RoomComing'
                          /\ pub = Current \/ TableComing'
                          /\ priv = Dealt(Current) \/ TableComing' \/ CardsComing'
        BY <1>2 DEF LiveKept, Current, Dealt
      <3>1. (RoomComing => RoomComing') /\ (CardsComing => CardsComing')
        BY <1>2, <1>3, <2>3 DEF RoomComing, CardsComing, Current
      <3>2. TableComing => TableComing'
        BY <1>1, <1>2, <1>3, <2>1, <2>3 DEF TableComing
      <3> QED
        BY <3>1, <3>2 DEF WayInv, LiveKept
    <2> QED
      BY <2>4, <2>5 DEF WayInv
  <1> QED
    BY <1>4, <1>5

LEMMA HandleJoinWay == StoreInv /\ WayInv /\ HandleJoin => WayInv'
  <1> SUFFICES ASSUME StoreInv, WayInv, HandleJoin PROVE WayInv'
    OBVIOUS
  <1> DEFINE live == <<Room(srv.match), MySnapshots, JoinAck(TRUE, srv.match)>>
             gone == <<JoinAck(FALSE, 0)>>
             rest == <<Room(0), JoinAck(TRUE, 0)>>
  <1>1. /\ up' = up \ {Join}
        /\ UNCHANGED <<srv, applied, status, room, pub, priv, pending, made, loops>>
        /\ \A m : SnapshotRequest(m) \in up => SnapshotRequest(m) \in up'
    BY DEF HandleJoin, table, Join, SnapshotRequest
  <1>2. \/ srv.phase \in {"live", "over"} /\ Start(live)
        \/ srv.phase = "removed" /\ Start(gone)
        \/ srv.phase = "waiting" /\ Start(rest)
    <2>1. srv.phase \in {"live", "over", "removed", "waiting"}
      BY DEF StoreInv, TypeOK
    <2>2. CASE srv.phase \in {"live", "over"}
      BY <2>2 DEF HandleJoin
    <2>3. CASE srv.phase = "removed"
      BY <2>3 DEF HandleJoin
    <2>4. CASE srv.phase = "waiting"
      BY <2>4 DEF HandleJoin
    <2> QED
      BY <2>1, <2>2, <2>3, <2>4
  <1>3. CASE srv.phase \in {"live", "over"} /\ Start(live)
    <2>1. /\ Room(srv.match) \in {live[i] : i \in DOMAIN live}
          /\ MySnapshots \in {live[i] : i \in DOMAIN live}
      <3>1. 1 \in DOMAIN live /\ 2 \in DOMAIN live /\ live[1] = Room(srv.match) /\ live[2] = MySnapshots
        OBVIOUS
      <3> HIDE DEF live
      <3> QED
        BY <3>1
    <2>2. \A i \in DOMAIN live : OfThisMatch(live[i])
      <3>1. OfThisMatch(Room(srv.match)) /\ OfThisMatch(MySnapshots) /\ OfThisMatch(JoinAck(TRUE, srv.match))
        BY AnswersOfMatch DEF OfThisMatch, Room, JoinAck
      <3>2. \A i \in DOMAIN live : live[i] \in {Room(srv.match), MySnapshots, JoinAck(TRUE, srv.match)}
        <4>1. /\ DOMAIN live = 1..3
              /\ live[1] = Room(srv.match) /\ live[2] = MySnapshots
              /\ live[3] = JoinAck(TRUE, srv.match)
          OBVIOUS
        <4> HIDE DEF live
        <4>2. \A i \in DOMAIN live : i = 1 \/ i = 2 \/ i = 3
          BY <4>1
        <4> QED
          BY <4>1, <4>2
      <3> HIDE DEF live
      <3> QED
        BY <3>1, <3>2
    <2> HIDE DEF live
    <2> QED
      BY <1>1, <1>3, <2>1, <2>2, HandlerStartsWay
  <1>4. ASSUME srv.phase # "live", NEW h, Start(h), h = gone \/ h = rest PROVE WayInv'
    <2>1. OfThisMatch(Room(0)) /\ OfThisMatch(JoinAck(TRUE, 0)) /\ OfThisMatch(JoinAck(FALSE, 0))
      BY <1>4 DEF OfThisMatch, Room, JoinAck
    <2>2. \A i \in DOMAIN h : h[i] \in {Room(0), JoinAck(TRUE, 0), JoinAck(FALSE, 0)}
      <3>1. /\ \A i \in DOMAIN gone : gone[i] = JoinAck(FALSE, 0)
            /\ \A i \in DOMAIN rest : rest[i] = Room(0) \/ rest[i] = JoinAck(TRUE, 0)
        BY Elements, Zenon
      <3> HIDE DEF gone, rest
      <3> QED
        BY <1>4, <3>1
    <2>3. \A i \in DOMAIN h : OfThisMatch(h[i])
      BY <2>1, <2>2
    <2> HIDE DEF gone, rest
    <2> QED
      BY <1>1, <1>4, <2>3, HandlerStartsWay
  <1> HIDE DEF live, gone, rest
  <1> QED
    BY <1>2, <1>3, <1>4

\* The next match begins with nothing under way but its room and its snapshots.
LEMMA StartNextWay == StoreInv /\ StoreInv' /\ WayInv /\ StartNext => WayInv'
  <1> SUFFICES ASSUME StoreInv, StoreInv', WayInv, StartNext PROVE WayInv'
    OBVIOUS
  <1> DEFINE h == <<Room(srv.match + 1), Snapshots>>
  <1>1. /\ srv.match \in 1..MaxMatch /\ srv'.match = srv.match + 1
        /\ handlers = {} /\ status = "connected"
        /\ UNCHANGED <<applied, up, status, room, pub, priv, pending, made, loops>>
    BY DEF StartNext, StoreInv, TypeOK, table
  <1>2. handlers' = {h}
    <2>1. h # <<>>
      OBVIOUS
    <2> HIDE DEF h
    <2> QED
      BY <1>1, <2>1 DEF StartNext, Start, h
  <1>3. 1 \in DOMAIN h /\ 2 \in DOMAIN h /\ h[1] = Room(srv'.match) /\ h[2] = Snapshots /\ DOMAIN h = 1..2
    BY <1>1
  <1> HIDE DEF h
  <1>4. Coming(Room(srv.match))' /\ Coming(Snapshots)'
    BY <1>2, <1>3 DEF Coming
  <1>5. TableHad'
    <2>1. ServerAdvances
      BY <1>1 DEF ServerAdvances
    <2> QED
      BY <1>1, <2>1, HadMono DEF WayInv, TableHad, StoreInv, TypeOK, Had
  <1>6. NoOldMatch'
    <2>1. OfThisMatch(Room(srv.match))' /\ OfThisMatch(Snapshots)'
      BY DEF OfThisMatch, Room, Snapshots
    <2>2. \A i \in DOMAIN h : i = 1 \/ i = 2
      BY <1>3
    <2> QED
      BY <1>2, <1>3, <2>1, <2>2 DEF NoOldMatch, OfThisMatch
  <1>7. pending = None
    <2>1. ~Coming(Snapshots)
      BY <1>1 DEF Coming
    <2>2. pending \in Ids \/ pending = None
      BY DEF StoreInv, TypeOK
    <2> QED
      BY <1>1, <2>1, <2>2 DEF WayInv, PendingKept, StartNext
  <1> QED
    BY <1>1, <1>4, <1>5, <1>6, <1>7 DEF WayInv, AppliedMade, LiveKept, PendingKept, RoomComing, TableComing

-----------------------------------------------------------------------------
(* What is under way, when an emission reaches the tab.                    *)

\* One emission, which a connected tab hears.
EmitHeard(h) ==
    LET e    == Head(h)
        rest == CASE e = Snapshots   -> <<Private(Current)>> \o Tail(h)
                  [] e = MySnapshots -> <<MyPrivate(Current)>> \o Tail(h)
                  [] OTHER           -> Tail(h)
    IN /\ handlers' = (handlers \ {h}) \cup ({rest} \ {<<>>})
       /\ srv' = [srv EXCEPT !.phase = CASE e = Remove  -> "removed"
                                         [] e = Room(0) -> "waiting"
                                         [] OTHER       -> @]
       /\ IF status = "connected"
            THEN \/ e.k \in {"snapshots", "mysnapshots"} /\ Receive(Public(Current))
                 \/ e.k \notin {"snapshots", "mysnapshots", "remove"} /\ Receive(e)
                 \/ e = Remove /\ UNCHANGED <<up, room, table, pending, loops>>
            ELSE UNCHANGED <<up, room, table, pending, loops>>

LEMMA EmitIsHeard ==
    ASSUME StoreInv, Emit
    PROVE  \E h \in handlers : EmitHeard(h) /\ h \in Seq(SoundEvent) /\ h # <<>> /\ Head(h) \in SoundEvent
  <1>1. PICK h \in handlers :
          LET e     == Head(h)
              taken == e.k \in {"snapshots", "mysnapshots"}
              rest  == CASE e = Snapshots   -> <<Private(Current)>> \o Tail(h)
                         [] e = MySnapshots -> <<MyPrivate(Current)>> \o Tail(h)
                         [] OTHER           -> Tail(h)
          IN /\ handlers' = (handlers \ {h}) \cup ({rest} \ {<<>>})
             /\ srv' = [srv EXCEPT !.phase = CASE e = Remove  -> "removed"
                                               [] e = Room(0) -> "waiting"
                                               [] OTHER       -> @]
             /\ IF status = "connected" /\ e # Remove
                THEN Receive(IF taken THEN Public(Current) ELSE e)
                ELSE UNCHANGED <<up, room, table, pending, loops>>
    BY DEF Emit
  <1>2. h \in Seq(SoundEvent) /\ h # <<>>
    BY DEF StoreInv, HandlersSound
  <1>3. Head(h) \in SoundEvent
    BY <1>2
  <1>4. Head(h).k = "remove" => Head(h) = Remove
    BY <1>3 DEF SoundEvent, Event, Remove
  <1>5. IF status = "connected"
          THEN \/ Head(h).k \in {"snapshots", "mysnapshots"} /\ Receive(Public(Current))
               \/ Head(h).k \notin {"snapshots", "mysnapshots", "remove"} /\ Receive(Head(h))
               \/ Head(h) = Remove /\ UNCHANGED <<up, room, table, pending, loops>>
          ELSE UNCHANGED <<up, room, table, pending, loops>>
    <2> DEFINE e == Head(h)
    <2>1. IF status = "connected" /\ e # Remove
            THEN Receive(IF e.k \in {"snapshots", "mysnapshots"} THEN Public(Current) ELSE e)
            ELSE UNCHANGED <<up, room, table, pending, loops>>
      BY <1>1
    <2>2. e.k = "remove" => e = Remove
      BY <1>4
    <2> HIDE DEF e
    <2> DEFINE still == UNCHANGED <<up, room, table, pending, loops>>
    <2>5. status # "connected" \/ e = Remove => still
      BY <2>1, Zenon
    <2> HIDE DEF still, e
    <2>3. CASE e.k \in {"snapshots", "mysnapshots"}
      <3>1. e # Remove
        BY <2>3 DEF Remove
      <3>2. (IF e.k \in {"snapshots", "mysnapshots"} THEN Public(Current) ELSE e) = Public(Current)
        BY <2>3
      <3>3. status = "connected" => Receive(Public(Current))
        BY <2>1, <3>1, <3>2, Zenon
      <3> QED
        BY <2>3, <2>5, <3>1, <3>3 DEF still, e
    <2>4. CASE e.k \notin {"snapshots", "mysnapshots"}
      <3>1. (IF e.k \in {"snapshots", "mysnapshots"} THEN Public(Current) ELSE e) = e
        BY <2>4
      <3>2. status = "connected" /\ e # Remove => Receive(e)
        BY <2>1, <3>1, Zenon
      <3> QED
        BY <2>2, <2>4, <2>5, <3>2 DEF still, e
    <2> QED
      BY <2>3, <2>4 DEF e
  <1>6. EmitHeard(h)
    BY <1>1, <1>5 DEF EmitHeard
  <1> QED
    BY <1>2, <1>3, <1>6

\* One more element at the beginning of a sequence.
LEMMA Prepended ==
    ASSUME NEW S, NEW t \in Seq(S), NEW x
    PROVE  /\ DOMAIN (<<x>> \o t) = 1..(Len(t) + 1) /\ (<<x>> \o t)[1] = x
           /\ \A i \in 1..Len(t) : (<<x>> \o t)[i + 1] = t[i]
  <1> DEFINE T == S \cup {x}
  <1>1. t \in Seq(T) /\ <<x>> \in Seq(T) /\ Len(<<x>>) = 1 /\ <<x>>[1] = x
    OBVIOUS
  <1> HIDE DEF T
  <1> QED
    BY <1>1

\* What is emitted is no more to come; the cards follow the table.
LEMMA EmitComing ==
    ASSUME StoreInv, NEW h \in handlers, EmitHeard(h), h \in Seq(SoundEvent), h # <<>>
    PROVE  /\ \A e : Coming(e) => e = Head(h) \/ Coming(e)'
           /\ Head(h) = Snapshots => Coming(Private(Current))'
           /\ Head(h) = MySnapshots => Coming(MyPrivate(Current))'
           /\ \A g \in handlers' : \A i \in DOMAIN g :
                Coming(g[i]) \/ g[i] = Private(Current) \/ g[i] = MyPrivate(Current)
  <1> DEFINE t == Tail(h)
             a == <<Private(Current)>> \o t
             b == <<MyPrivate(Current)>> \o t
  <1>1. PICK rest : /\ handlers' = (handlers \ {h}) \cup ({rest} \ {<<>>})
                    /\ rest = IF Head(h) = Snapshots THEN a ELSE IF Head(h) = MySnapshots THEN b ELSE t
    <2>1. Snapshots # MySnapshots
      BY DEF Snapshots, MySnapshots
    <2> DEFINE rest == CASE Head(h) = Snapshots   -> a
                         [] Head(h) = MySnapshots -> b
                         [] OTHER                 -> t
    <2>2. handlers' = (handlers \ {h}) \cup ({rest} \ {<<>>})
      BY DEF EmitHeard
    <2>3. rest = IF Head(h) = Snapshots THEN a ELSE IF Head(h) = MySnapshots THEN b ELSE t
      <3> HIDE DEF a, b, t
      <3> QED
        BY <2>1
    <2> HIDE DEF rest
    <2> QED
      BY <2>2, <2>3
  <1>2. /\ t \in Seq(SoundEvent) /\ DOMAIN t = 1..(Len(h) - 1) /\ Len(h) \in Nat /\ DOMAIN h = 1..Len(h)
        /\ \A i \in DOMAIN t : t[i] = h[i + 1]
        /\ h[1] = Head(h)
    OBVIOUS
  <1>3. /\ DOMAIN a = 1..Len(h) /\ a[1] = Private(Current) /\ \A i \in 1..(Len(h) - 1) : a[i + 1] = t[i]
        /\ DOMAIN b = 1..Len(h) /\ b[1] = MyPrivate(Current) /\ \A i \in 1..(Len(h) - 1) : b[i + 1] = t[i]
    <2> HIDE DEF t
    <2>1. Len(t) = Len(h) - 1
      BY <1>2 DEF t
    <2>2. /\ DOMAIN a = 1..(Len(t) + 1) /\ a[1] = Private(Current) /\ \A i \in 1..Len(t) : a[i + 1] = t[i]
          /\ DOMAIN b = 1..(Len(t) + 1) /\ b[1] = MyPrivate(Current) /\ \A i \in 1..Len(t) : b[i + 1] = t[i]
      BY <1>2, Prepended
    <2> HIDE DEF a, b
    <2> QED
      BY <1>2, <2>1, <2>2
  <1>4. Len(h) \in Nat /\ Len(h) >= 1
    BY DEF t
  <1> HIDE DEF t, a, b
  <1>5. /\ \A i \in DOMAIN t : \E j \in DOMAIN rest : rest[j] = t[i]
        /\ \A j \in DOMAIN rest : \/ \E i \in DOMAIN t : rest[j] = t[i]
                                  \/ rest[j] = Private(Current) \/ rest[j] = MyPrivate(Current)
        /\ Head(h) = Snapshots => 1 \in DOMAIN rest /\ rest[1] = Private(Current)
        /\ Head(h) = MySnapshots => 1 \in DOMAIN rest /\ rest[1] = MyPrivate(Current)
    <2>1. CASE rest = t /\ Head(h) # Snapshots /\ Head(h) # MySnapshots
      BY <2>1
    <2>2. ASSUME NEW s, s = a \/ s = b
          PROVE  /\ \A i \in DOMAIN t : \E j \in DOMAIN s : s[j] = t[i]
                 /\ \A j \in DOMAIN s : (\E i \in DOMAIN t : s[j] = t[i]) \/ s[j] = s[1]
                 /\ 1 \in DOMAIN s
      <3>1. DOMAIN s = 1..Len(h) /\ \A i \in 1..(Len(h) - 1) : s[i + 1] = t[i]
        BY <1>3, <2>2
      <3>2. ASSUME NEW i \in DOMAIN t PROVE \E j \in DOMAIN s : s[j] = t[i]
        <4>1. i + 1 \in DOMAIN s /\ s[i + 1] = t[i]
          BY <1>2, <3>1
        <4> QED
          BY <4>1
      <3>3. ASSUME NEW j \in DOMAIN s, j # 1 PROVE \E i \in DOMAIN t : s[j] = t[i]
        <4>1. j - 1 \in DOMAIN t /\ s[(j - 1) + 1] = t[j - 1] /\ (j - 1) + 1 = j
          BY <1>2, <3>1, <3>3
        <4> QED
          BY <4>1
      <3> QED
        BY <1>4, <3>1, <3>2, <3>3
    <2>3. Snapshots # MySnapshots
      BY DEF Snapshots, MySnapshots
    <2> QED
      BY <1>1, <1>3, <2>1, <2>2, <2>3
  <1>6. \A j \in DOMAIN rest : rest # <<>>
    <2>1. DOMAIN <<>> = {}
      OBVIOUS
    <2> QED
      BY <2>1
  <1>7. ASSUME NEW e, Coming(e), e # Head(h) PROVE Coming(e)'
    <2>1. PICK g \in handlers : \E i \in DOMAIN g : g[i] = e
      BY <1>7 DEF Coming
    <2>2. CASE g # h
      BY <1>1, <2>1, <2>2 DEF Coming
    <2>3. CASE g = h
      <3>1. PICK i \in DOMAIN h : h[i] = e
        BY <2>1, <2>3
      <3>2. i # 1
        BY <1>2, <1>7, <3>1
      <3>3. i - 1 \in DOMAIN t /\ t[i - 1] = e
        <4>1. i - 1 \in 1..(Len(h) - 1) /\ (i - 1) + 1 = i
          BY <1>2, <3>1, <3>2
        <4> QED
          BY <1>2, <3>1, <4>1
      <3> QED
        BY <1>1, <1>5, <1>6, <3>3 DEF Coming
    <2> QED
      BY <2>2, <2>3
  <1>8. /\ Head(h) = Snapshots => Coming(Private(Current))'
        /\ Head(h) = MySnapshots => Coming(MyPrivate(Current))'
    <2>1. Current' = Current
      BY DEF EmitHeard, Current, StoreInv, TypeOK
    <2> QED
      BY <1>1, <1>5, <1>6, <2>1 DEF Coming, Private, MyPrivate
  <1>9. ASSUME NEW g \in handlers', NEW i \in DOMAIN g
        PROVE  Coming(g[i]) \/ g[i] = Private(Current) \/ g[i] = MyPrivate(Current)
    <2>1. CASE g \in handlers
      BY <2>1 DEF Coming
    <2>2. CASE g = rest
      <3>1. ASSUME NEW n \in DOMAIN t PROVE Coming(t[n])
        <4>1. n + 1 \in DOMAIN h /\ h[n + 1] = t[n]
          BY <1>2
        <4> QED
          BY <4>1 DEF Coming
      <3> QED
        BY <1>5, <2>2, <3>1
    <2> QED
      BY <1>1, <2>1, <2>2
  <1> QED
    BY <1>7, <1>8, <1>9

\* What an event that is no snapshot does to the store.
LEMMA NoSnapshotFacts ==
    ASSUME StoreInv, NEW e \in SoundEvent, Receive(e),
           e.k \notin {"snapshots", "mysnapshots", "remove", "private", "myprivate"}
    PROVE  /\ UNCHANGED <<pub, priv>> /\ up \subseteq up'
           /\ e.k = "room" \/ (e.k = "joined" /\ e.ok) => room' = e.match
           /\ e.k \notin {"room", "joined"} => room' = room
           /\ pending' # None =>
                /\ pending' = pending
                /\ \A id \in Ids : loops'[id] = 0 => loops[id] = 0 \/ Command(id) \in applied
           /\ UNCHANGED loops \/ e.k = "ack"
  <1>1. e \in Event /\ Sound(e)
    BY DEF SoundEvent
  <1>2. e.k \in {"room", "settled", "over", "rejected", "ack", "joined"}
    BY <1>1 DEF Event
  <1>3. CASE e.k = "room"
    BY <1>3 DEF Receive, OnRoom, table
  <1>4. CASE e.k = "settled"
    BY <1>4 DEF Receive, OnSettled
  <1>5. CASE e.k = "over"
    BY <1>5 DEF Receive, OnOver
  <1>6. CASE e.k = "rejected"
    BY <1>6 DEF Receive, OnRejected, table
  <1>7. CASE e.k = "joined"
    BY <1>7 DEF Receive, OnJoined, table
  <1>8. CASE e.k = "ack"
    <2>1. OnAck(e.id, e.n, e.ok) /\ e.id \in Ids
      BY <1>1, <1>8, EventFacts DEF Receive
    <2>2. CASE loops[e.id] = e.n
      <3>1. /\ loops' = [loops EXCEPT ![e.id] = 0] /\ loops \in [Ids -> 0..Attempts]
            /\ pending' = IF e.ok THEN pending ELSE None
            /\ up \subseteq up' /\ UNCHANGED <<room, table>>
        BY <2>1, <2>2 DEF OnAck, StoreInv, TypeOK
      <3>2. pending' # None => pending' = pending /\ Command(e.id) \in applied
        BY <1>1, <1>8, <3>1 DEF Sound
      <3> QED
        BY <1>8, <3>1, <3>2 DEF table
    <2>3. CASE loops[e.id] # e.n
      BY <1>8, <2>1, <2>3 DEF OnAck, table
    <2> QED
      BY <2>2, <2>3
  <1> QED
    BY <1>2, <1>3, <1>4, <1>5, <1>6, <1>7, <1>8

\* The server's present state is always taken, an older one of its match never
\* in its place.
LEMMA AcceptsCurrent ==
    ASSUME StoreInv, TableHad, NEW s \in Snapshot, s.match = srv.match, Had(s), NEW private,
           Accept(s, private)
    PROVE  /\ s.version = srv.version => s = Current /\ pub' = s /\ priv' = private
                                         /\ pending' = PendingAfter(s)
           /\ s.version # srv.version /\ pub = Current => UNCHANGED <<pub, priv>>
           /\ s.version # srv.version /\ priv = Dealt(Current) => UNCHANGED <<pub, priv>>
           /\ pub' # None => Had(pub')
           /\ pending' # None => pending' = pending
  <1> USE DEF StoreInv, TypeOK
  <1>1. /\ s.version \in 0..MaxVersion /\ srv.version \in 0..MaxVersion /\ s.version <= srv.version
        /\ s.version = srv.version => s = Current
    BY DEF Snapshot, Had, Current
  <1>2. /\ pub # None => pub \in Snapshot /\ Had(pub)
        /\ priv # None => /\ priv \in PrivateSnapshot /\ pub # None
                          /\ priv.match = pub.match /\ priv.version <= pub.version
    BY DEF TableHad, CardsMatchTable, HandOf
  <1>3. s.version = srv.version => Takes(s)
    BY <1>1, <1>2 DEF Takes, CurrentMatch, CurrentVersion, VersionOf, Had, Snapshot, PrivateSnapshot
  <1>4. pub # None /\ pub.match = srv.match /\ pub.version = srv.version /\ s.version # srv.version => ~Takes(s)
    BY <1>1, <1>2 DEF Takes, CurrentMatch, CurrentVersion, VersionOf, Snapshot, PrivateSnapshot
  <1>5. pub = Current => pub # None /\ pub.match = srv.match /\ pub.version = srv.version
    <2>1. Current \in Snapshot
      BY DEF Current, Snapshot
    <2> QED
      BY <2>1, NoneAssumption DEF Current
  <1>6. priv = Dealt(Current) => pub # None /\ pub.match = srv.match /\ pub.version = srv.version
    <2> SUFFICES ASSUME priv = Dealt(Current)
                 PROVE  pub # None /\ pub.match = srv.match /\ pub.version = srv.version
      OBVIOUS
    <2>1. priv # None /\ priv.match = srv.match /\ priv.version = srv.version
      <3>1. Dealt(Current) # None
        BY NoneAssumption DEF Dealt, Current, PrivateSnapshot
      <3> QED
        BY <3>1 DEF Dealt, Current
    <2> QED
      BY <1>2, <2>1 DEF Had, Snapshot, PrivateSnapshot
  <1> QED
    BY <1>1, <1>2, <1>3, <1>4, <1>5, <1>6 DEF Accept, PendingAfter

LEMMA EmitWay == StoreInv /\ WayInv /\ Emit => WayInv'
  <1> SUFFICES ASSUME StoreInv, WayInv, Emit PROVE WayInv'
    OBVIOUS
  <1>1. PICK h \in handlers : EmitHeard(h) /\ h \in Seq(SoundEvent) /\ h # <<>> /\ Head(h) \in SoundEvent
    BY EmitIsHeard
  <1> DEFINE e == Head(h)
  <1>2. UNCHANGED <<applied, status, made>>
    BY DEF Emit
  <1>3. /\ \A x : Coming(x) => x = e \/ Coming(x)'
        /\ e = Snapshots => Coming(Private(Current))'
        /\ e = MySnapshots => Coming(MyPrivate(Current))'
        /\ \A g \in handlers' : \A i \in DOMAIN g :
             Coming(g[i]) \/ g[i] = Private(Current) \/ g[i] = MyPrivate(Current)
    BY <1>1, EmitComing
  <1>4. e \in Event /\ Sound(e) /\ OfThisMatch(e)
    <2>1. e \in Event /\ Sound(e)
      BY <1>1 DEF SoundEvent
    <2>2. 1 \in DOMAIN h /\ h[1] = e
      BY <1>1
    <2> QED
      BY <2>1, <2>2 DEF WayInv, NoOldMatch
  <1>5. /\ srv'.match = srv.match /\ srv'.hand = srv.hand /\ srv'.version = srv.version
        /\ srv'.turn = srv.turn /\ srv'.phase \in {srv.phase, "removed", "waiting"}
        /\ Current' = Current /\ \A s : Dealt(s)' = Dealt(s)
    <2>1. PICK ph \in {srv.phase, "removed", "waiting"} : srv' = [srv EXCEPT !.phase = ph]
      BY <1>1 DEF EmitHeard
    <2> QED
      BY <2>1 DEF StoreInv, TypeOK, Current, Dealt
  <1>6. Current \in Snapshot /\ Had(Current) /\ Current.match = srv.match /\ Current.version = srv.version
    BY DEF StoreInv, TypeOK, Current, Snapshot, Had
  <1>7. \/ status # "connected" /\ UNCHANGED <<up, room, pub, priv, pending, loops>>
        \/ e = Remove /\ UNCHANGED <<up, room, pub, priv, pending, loops>>
        \/ e.k \in {"snapshots", "mysnapshots"} /\ OnPublic(Current)
        \/ e.k \in {"private", "myprivate"} /\ OnPrivate(e.s)
        \/ e.k \notin {"snapshots", "mysnapshots", "remove", "private", "myprivate"} /\ Receive(e)
    <2>1. Receive(Public(Current)) => OnPublic(Current)
      BY DEF Receive, Public
    <2>2. e.k \in {"private", "myprivate"} /\ Receive(e) => OnPrivate(e.s)
      BY DEF Receive
    <2> QED
      BY <1>1, <2>1, <2>2 DEF EmitHeard, table
  <1>8. e.k \in {"private", "myprivate"} => e.s \in Snapshot /\ Had(e.s) /\ e.s.match = srv.match
    BY <1>4, EventFacts DEF Sound, OfThisMatch
  <1>9. /\ e.k = "snapshots" => e = Snapshots
        /\ e.k = "mysnapshots" => e = MySnapshots
        /\ e.k = "remove" => e = Remove
    BY <1>4 DEF Event, Snapshots, MySnapshots, Remove
  <1> DEFINE others == {"snapshots", "mysnapshots", "remove", "private", "myprivate"}
  <1>10. ASSUME e.k \notin others, Receive(e)
         PROVE  /\ UNCHANGED <<pub, priv>> /\ up \subseteq up'
                /\ e.k = "room" \/ (e.k = "joined" /\ e.ok) => room' = e.match
                /\ e.k \notin {"room", "joined"} => room' = room
                /\ pending' # None =>
                     /\ pending' = pending
                     /\ \A id \in Ids : loops'[id] = 0 => loops[id] = 0 \/ Command(id) \in applied
    BY <1>1, <1>10, NoSnapshotFacts
  <1>11. ASSUME OnPublic(Current)
         PROVE  /\ pub' = Current /\ pending' = PendingAfter(Current)
                /\ UNCHANGED <<up, room, loops>>
    BY <1>6, <1>11, AcceptsCurrent DEF OnPublic, WayInv
  <1>12. ASSUME e.k \in {"private", "myprivate"}, OnPrivate(e.s)
         PROVE  /\ e.s = Current => pub' = Current /\ priv' = Dealt(Current)
                /\ e.s # Current /\ pub = Current => pub' = Current
                /\ e.s # Current /\ priv = Dealt(Current) => priv' = Dealt(Current)
                /\ pub' # None => Had(pub')
                /\ pending' # None => pending' = pending
                /\ UNCHANGED <<up, room, loops>>
    <2> DEFINE s == e.s
    <2>1. s \in Snapshot /\ Had(s) /\ s.match = srv.match /\ Accept(s, Dealt(s))
      BY <1>8, <1>12 DEF OnPrivate
    <2>2. UNCHANGED <<up, room, loops>>
      BY <1>12 DEF OnPrivate
    <2> HIDE DEF s
    <2>3. /\ s.version = srv.version => s = Current /\ pub' = s /\ priv' = Dealt(s)
          /\ s.version # srv.version /\ pub = Current => UNCHANGED <<pub, priv>>
          /\ s.version # srv.version /\ priv = Dealt(Current) => UNCHANGED <<pub, priv>>
          /\ pub' # None => Had(pub')
          /\ pending' # None => pending' = pending
      BY <2>1, AcceptsCurrent DEF WayInv
    <2>4. s.version # srv.version => s # Current
      BY <1>6
    <2> QED
      BY <1>6, <2>2, <2>3, <2>4 DEF s
  <1> HIDE DEF e
  <1>13. TableHad'
    <2>1. pub' = pub \/ (pub' # None => Had(pub'))
      BY <1>6, <1>7, <1>10, <1>11, <1>12
    <2>2. \A s : Had(s) => Had(s)'
      BY <1>5 DEF Had
    <2> QED
      BY <2>1, <1>5 DEF WayInv, TableHad, Had
  <1>14. AppliedMade'
    BY <1>2 DEF WayInv, AppliedMade
  <1>15. NoOldMatch'
    <2> SUFFICES ASSUME NEW g \in handlers', NEW i \in DOMAIN g PROVE OfThisMatch(g[i])'
      BY DEF NoOldMatch
    <2>1. OfThisMatch(g[i])
      <3>1. CASE Coming(g[i])
        BY <3>1 DEF Coming, WayInv, NoOldMatch
      <3>2. CASE g[i] = Private(Current) \/ g[i] = MyPrivate(Current)
        BY <1>6, <3>2 DEF OfThisMatch, Private, MyPrivate
      <3> QED
        BY <1>3, <3>1, <3>2
    <2> QED
      BY <2>1, <1>5 DEF OfThisMatch
  <1>16. LiveKept'
    <2> SUFFICES ASSUME status = "connected", srv'.phase = "live"
                 PROVE  /\ room' = srv.match \/ RoomComing'
                        /\ pub' = Current \/ TableComing'
                        /\ priv' = Dealt(Current) \/ TableComing' \/ CardsComing'
      BY <1>2, <1>5 DEF LiveKept
    <2>1. srv.phase = "live" /\ e # Remove
      BY <1>4, <1>5 DEF OfThisMatch, Remove
    <2>2. /\ room = srv.match \/ RoomComing
          /\ pub = Current \/ TableComing
          /\ priv = Dealt(Current) \/ TableComing \/ CardsComing
      BY <2>1 DEF WayInv, LiveKept
    <2>3. e.k = "room" => e.match = srv.match
      BY <1>4, <2>1 DEF OfThisMatch
    <2>4. e.k = "joined" => e.ok /\ e.match = srv.match
      BY <1>4, <2>1 DEF OfThisMatch
    <2>5. up \subseteq up'
      BY <1>7, <1>10, <1>11, <1>12, <2>1
    <2>6. RoomComing => RoomComing' \/ e.k \in {"room", "joined"}
      BY <1>3, <1>5, <2>5 DEF RoomComing, Room, JoinAck
    <2>7. TableComing => TableComing' \/ e.k \in {"snapshots", "mysnapshots"}
      BY <1>3, <1>5, <2>5 DEF TableComing, Snapshots, MySnapshots
    <2>8. CardsComing => CardsComing' \/ e = Private(Current) \/ e = MyPrivate(Current)
      BY <1>3, <1>5 DEF CardsComing
    <2>9. e.k \in {"snapshots", "mysnapshots"} => CardsComing'
      BY <1>3, <1>5, <1>9 DEF CardsComing
    <2>10. CASE OnPublic(Current) /\ e.k \in {"snapshots", "mysnapshots"}
      BY <2>10, <1>11, <2>2, <2>6, <2>9
    <2>11. CASE OnPrivate(e.s) /\ e.k \in {"private", "myprivate"}
      <3>1. CASE e.s = Current
        BY <1>12, <2>2, <2>6, <2>11, <3>1
      <3>2. CASE e.s # Current
        <4>1. e # Private(Current) /\ e # MyPrivate(Current)
          BY <3>2 DEF Private, MyPrivate
        <4> QED
          BY <1>12, <2>2, <2>6, <2>7, <2>8, <2>11, <3>2, <4>1
      <3> QED
        BY <3>1, <3>2
    <2>12. CASE e.k \notin others /\ Receive(e)
      <3>1. e # Private(Current) /\ e # MyPrivate(Current)
        BY <2>12 DEF Private, MyPrivate
      <3>2. UNCHANGED <<pub, priv>>
        BY <1>10, <2>12
      <3>3. room' = srv.match \/ RoomComing'
        <4>1. CASE e.k \in {"room", "joined"}
          BY <1>10, <2>2, <2>3, <2>4, <2>6, <2>12, <4>1
        <4>2. CASE e.k \notin {"room", "joined"}
          BY <1>10, <2>2, <2>6, <2>12, <4>2
        <4> QED
          BY <4>1, <4>2
      <3> QED
        BY <2>2, <2>7, <2>8, <2>12, <3>1, <3>2, <3>3
    <2> QED
      BY <1>7, <2>1, <2>10, <2>11, <2>12
  <1>17. PendingKept'
    <2> SUFFICES ASSUME status = "connected", pending' # None
                 PROVE  /\ made[pending'] # None
                        /\ loops'[pending'] = 0 => Command(pending') \in applied
                        /\ Command(pending') \in applied =>
                             /\ made[pending'].match = srv.match /\ made[pending'].version < srv.version
                             /\ Coming(Snapshots)'
      BY <1>2, <1>5 DEF PendingKept, Command
    <2>1. pending' = pending
      BY <1>7, <1>10, <1>11, <1>12 DEF PendingAfter
    <2>2. /\ pending \in Ids /\ made[pending] # None
          /\ loops[pending] = 0 => Command(pending) \in applied
          /\ Command(pending) \in applied =>
               /\ made[pending].match = srv.match /\ made[pending].version < srv.version
               /\ Coming(Snapshots)
      BY <2>1 DEF WayInv, PendingKept, StoreInv, TypeOK
    <2>3. loops'[pending] = 0 => loops[pending] = 0 \/ Command(pending) \in applied
      BY <1>7, <1>10, <1>11, <1>12, <2>2
    <2>4. Command(pending) \in applied => e # Snapshots
      <3> SUFFICES ASSUME Command(pending) \in applied, e = Snapshots PROVE FALSE
        OBVIOUS
      <3>1. OnPublic(Current)
        BY <1>7 DEF Snapshots, Remove
      <3>2. pending' = PendingAfter(Current)
        BY <1>11, <3>1
      <3>3. Current.version > made[pending].version
        <4>1. made[pending] \in Snapshot
          BY <2>2 DEF StoreInv, TypeOK
        <4> QED
          BY <4>1, <1>6, <2>2 DEF Snapshot, StoreInv, TypeOK
      <3> QED
        BY <1>6, <2>1, <2>2, <3>2, <3>3 DEF PendingAfter
    <2> QED
      BY <1>3, <2>1, <2>2, <2>3, <2>4
  <1> QED
    BY <1>13, <1>14, <1>15, <1>16, <1>17 DEF WayInv

LEMMA WayStep == StoreInv /\ StoreInv' /\ WayInv /\ [Next]_vars => WayInv'
  <1> SUFFICES ASSUME StoreInv, StoreInv', WayInv, [Next]_vars PROVE WayInv'
    OBVIOUS
  <1>1. CASE Next
    BY <1>1, HandleActionWay, OthersActWay, HandleSnapshotRequestWay, HandleJoinWay, StartNextWay,
       EmitWay, SettlementTimerWay, SubmitWay, AckTimeoutWay, DropWay, UserDialsWay, ConnectWay
       DEF Next
  <1>2. CASE UNCHANGED vars
    BY <1>2, WayFrame DEF vars, table
  <1> QED
    BY <1>1, <1>2

-----------------------------------------------------------------------------
(* The theorems.                                                           *)

LEMMA StepInv == StoreInv /\ [Next]_vars => StoreInv'
  <1> SUFFICES ASSUME StoreInv, [Next]_vars PROVE StoreInv'
    OBVIOUS
  <1>1. CASE Next
    BY <1>1, HandleActionInv, OthersActInv, HandleSnapshotRequestInv, HandleJoinInv, StartNextInv,
       EmitInv, SettlementTimerInv, SubmitInv, AckTimeoutInv, DropInv, UserDialsInv, ConnectInv
       DEF Next
  <1>2. CASE UNCHANGED vars
    <2>1. HandlersSound' /\ EnvelopesHad'
      BY <1>2, ServerFrame DEF StoreInv, vars
    <2> QED
      BY <1>2, <2>1 DEF StoreInv, vars, server, table, TypeOK, RequestsMade, CardsHad,
                        CardsMatchTable, Had
  <1> QED
    BY <1>1, <1>2

LEMMA StoreInvHolds == Spec => []StoreInv
  BY InitInv, StepInv, PTL DEF Spec

\* The store, the requests it has sent and the handlers of the server are well
\* typed in every reachable state.
THEOREM StoreTyped == Spec => []TypeOK
  <1>1. StoreInv => TypeOK
    BY DEF StoreInv
  <1> QED
    BY <1>1, StoreInvHolds, PTL

\* The cards on the table are those of the hand on the table, and not newer:
\* the merge rules of game:public-snapshot and game:private-snapshot are
\* enough, however many broadcasts interleave.
THEOREM CardsCorrect == Spec => []CardsMatchTable
  <1>1. StoreInv => CardsMatchTable
    BY DEF StoreInv
  <1> QED
    BY <1>1, StoreInvHolds, PTL

\* An acknowledgement on its way tells what happened to the command, over any
\* number of repetitions and lost connections.
THEOREM AnswersCorrect == Spec => []AnswersAgree
  <1>1. StoreInv => AnswersAgree
    <2> SUFFICES ASSUME StoreInv, NEW h \in handlers, NEW i \in 1..Len(h), h[i].k = "ack"
                 PROVE  /\ h[i].ok => Command(h[i].id) \in applied
                        /\ ~h[i].ok /\ Command(h[i].id) \in applied
                             => ~Registered(made[h[i].id].match)
      BY DEF AnswersAgree, Command
    <2>1. h \in Seq(SoundEvent)
      BY DEF StoreInv, HandlersSound
    <2>2. h[i] \in SoundEvent
      BY <2>1
    <2> QED
      BY <2>2 DEF SoundEvent, Sound
  <1> QED
    BY <1>1, StoreInvHolds, PTL

\* The table never goes back to an older version of its match, whatever order
\* the snapshots of several broadcasts arrive in.
THEOREM VersionsCorrect == Spec => VersionsAdvance
  <1> DEFINE Advances ==
        pub # None /\ pub' # None /\ pub.match = pub'.match => pub'.version >= pub.version
  <1>1. StoreInv /\ [Next]_vars => [Advances]_vars
    <2> SUFFICES ASSUME StoreInv, Next PROVE Advances
      OBVIOUS
    <2>1. CASE Emit
      <3>1. PICK h \in handlers : EmitOne(h)
        BY <2>1, EmitIsOne
      <3>2. Head(h) \in SoundEvent
        BY DEF StoreInv, HandlersSound
      <3> QED
        BY <3>1, <3>2, ReceiveKeeps, NothingReceived DEF EmitOne, StoreKept
    <2>2. CASE Connect
      BY <2>2 DEF Connect, Reset
    <2>3. CASE UNCHANGED pub
      BY <2>3 DEF StoreInv, TypeOK, Snapshot
    <2> QED
      BY <2>1, <2>2, <2>3 DEF Next, HandleAction, OthersAct, HandleSnapshotRequest, HandleJoin,
            StartNext, SettlementTimer, Submit, AckTimeout, Drop, UserDials, table
  <1> QED
    BY <1>1, StoreInvHolds, PTL DEF Spec, VersionsAdvance

\* Once nothing is under way, a connected tab shows the live match of its room as
\* the server has it, with the user's cards, and its buttons are free: no order of
\* broadcasts, retries, rejections and joins after a lost connection leaves the
\* store with an older table.
THEOREM TableIsCurrent == Spec => []SettledTableIsCurrent
  <1>1. StoreInv /\ WayInv => SettledTableIsCurrent
    <2> SUFFICES ASSUME StoreInv, WayInv, NothingUnderWay, srv.phase = "live"
                 PROVE  room = srv.match /\ pub = Current /\ priv = Dealt(Current) /\ pending = None
      BY DEF SettledTableIsCurrent
    <2>1. status = "connected" /\ up = {} /\ (\A id \in Ids : loops[id] = 0) /\ \A e : ~Coming(e)
      BY DEF NothingUnderWay, Coming
    <2>2. room = srv.match /\ pub = Current /\ priv = Dealt(Current)
      BY <2>1 DEF WayInv, LiveKept, RoomComing, TableComing, CardsComing
    <2>3. pending \in Ids \/ pending = None
      BY DEF StoreInv, TypeOK
    <2>4. pending = None
      BY <2>1, <2>3 DEF WayInv, PendingKept
    <2> QED
      BY <2>2, <2>4
  <1> QED
    BY <1>1, StoreInvHolds, WayInit, WayStep, PTL DEF Spec
=============================================================================
