----------------------- MODULE MatchActorCommandProofs -----------------------
(***************************************************************************)
(* Exactly-once application of the commands of MatchActor, for every set   *)
(* of accounts, ids and calls: the theorems about its deduplication, and   *)
(* the proof that it implements SerialMatch.                               *)
(***************************************************************************)
EXTENDS MatchActorProofs

(***************************************************************************)
(* The inductive invariant.  A call owns an id while its command is in the *)
(* queue (inflight) and after it was applied (processed); every other call *)
(* with that id carries the same command and shares the owner's answer.    *)
(***************************************************************************)

\* A call has a command once it was made, and is told nothing before its answer.
CallsMade ==
    \A k \in Calls:
      /\ reply[k] = "idle" <=> request[k] = None
      /\ reply[k] \in {"idle", "waiting"} => told[k] = 0

InflightOwned ==
    \A i \in CommandIds: inflight[i] # None =>
      /\ request[inflight[i]] # None
      /\ request[inflight[i]].id = i
      /\ reply[inflight[i]] = "waiting"

ProcessedOwned ==
    \A i \in CommandIds: processed[i] # None =>
      /\ inflight[i] = None
      /\ request[processed[i].call] # None
      /\ request[processed[i].call].id = i
      /\ processed[i].version = request[processed[i].call].version + 1

WaitersShare ==
    \A k \in Calls: reply[k] = "waiting" =>
      /\ inflight[request[k].id] # None
      /\ request[inflight[request[k].id]] = request[k]

HandlerOwns ==
    \A k \in Calls: reply[k] \in Accepted \ {"replayed"} =>
      processed[request[k].id].call = k

\* What a player's entry in the queue stands for.
OwnEntry(q) ==
    q.src = "player" =>
      /\ inflight[request[q.call].id] = q.call
      /\ q.version = request[q.call].version

QueueOwned == \A n \in DOMAIN queue: OwnEntry(queue[n])

QueuedOnce ==
    \A m, n \in DOMAIN queue:
      queue[m].src = "player" /\ queue[n].src = "player" /\ queue[m].call = queue[n].call
        => m = n

CommandInv ==
    /\ CallsMade
    /\ InflightOwned
    /\ ProcessedOwned
    /\ WaitersShare
    /\ HandlerOwns
    /\ CallersAgree
    /\ QueueOwned
    /\ QueuedOnce

\* The ids that calls carry.
LEMMA RequestFacts ==
    ASSUME TypeInv, NEW k \in Calls, request[k] # None
    PROVE  request[k] \in Requests /\ request[k].id \in CommandIds
           /\ request[k].version \in Versions
  BY DEF TypeInv, TypeOK, Requests

LEMMA CommandInit == Init => CommandInv
  <1> SUFFICES ASSUME Init PROVE CommandInv
    OBVIOUS
  <1>1. QueueOwned /\ QueuedOnce
    BY DEF Init, QueueOwned, QueuedOnce
  <1>. QED BY <1>1 DEF Init, CommandInv, CallsMade, InflightOwned, ProcessedOwned, WaitersShare,
                       HandlerOwns, CallersAgree, Accepted, Outcomes

-----------------------------------------------------------------------------
(***************************************************************************)
(* The queue.                                                              *)
(***************************************************************************)

\* Taking the head leaves the other players' entries, all of other calls.
LEMMA TailEntries ==
    ASSUME TypeInv, CommandInv, queue # <<>>, queue' = Tail(queue)
    PROVE  /\ QueuedOnce'
           /\ QueuedCall(Head(queue)) /\ OwnEntry(Head(queue)) /\ Head(queue) \in Entries
           /\ \A n \in DOMAIN queue': queue'[n].src = "player" =>
                /\ queue'[n].call \in Calls
                /\ request[queue'[n].call] # None
                /\ inflight[request[queue'[n].call].id] = queue'[n].call
                /\ queue'[n].version = request[queue'[n].call].version
                /\ Head(queue).src = "player" => queue'[n].call # Head(queue).call
  <1>1. queue \in Seq(Entries)
    BY DEF TypeInv, TypeOK
  <1>2. /\ Head(queue) = queue[1]
        /\ Head(queue) \in Entries
        /\ 1 \in DOMAIN queue
        /\ DOMAIN queue \subseteq Nat
        /\ \A n \in DOMAIN queue': n + 1 \in DOMAIN queue /\ queue'[n] = queue[n + 1] /\ n # 0
    BY <1>1, GetFacts
  <1>3. DOMAIN queue' \subseteq Nat
    BY <1>1
  <1>4. QueuedOnce'
    <2>1. SUFFICES ASSUME NEW m \in DOMAIN queue', NEW n \in DOMAIN queue',
                          queue'[m].src = "player", queue'[n].src = "player",
                          queue'[m].call = queue'[n].call
                   PROVE  m = n
      BY DEF QueuedOnce
    <2>2. m + 1 = n + 1
      BY <1>2, <2>1 DEF CommandInv, QueuedOnce
    <2>. QED BY <2>2, <1>3
  <1>5. QueuedCall(Head(queue)) /\ OwnEntry(Head(queue))
    BY <1>2 DEF TypeInv, QueueTyped, CommandInv, QueueOwned
  <1>6. ASSUME NEW n \in DOMAIN queue', queue'[n].src = "player"
        PROVE  /\ queue'[n].call \in Calls
               /\ request[queue'[n].call] # None
               /\ inflight[request[queue'[n].call].id] = queue'[n].call
               /\ queue'[n].version = request[queue'[n].call].version
               /\ Head(queue).src = "player" => queue'[n].call # Head(queue).call
    <2>1. n + 1 \in DOMAIN queue /\ queue'[n] = queue[n + 1] /\ n + 1 # 1
      BY <1>2, <1>3
    <2>2. QueuedCall(queue[n + 1]) /\ OwnEntry(queue[n + 1])
      BY <2>1 DEF TypeInv, QueueTyped, CommandInv, QueueOwned
    <2>3. Head(queue).src = "player" => queue[n + 1].call # Head(queue).call
      BY <1>2, <1>6, <2>1 DEF CommandInv, QueuedOnce
    <2>. QED BY <1>6, <2>1, <2>2, <2>3 DEF QueuedCall, OwnEntry
  <1>. QED BY <1>2, <1>4, <1>5, <1>6

\* Putting an entry that is not a player's changes nothing for the players'.
LEMMA PutOther ==
    ASSUME TypeInv, CommandInv, NEW e \in Entries, queue' = Append(queue, e),
           e.src # "player", UNCHANGED <<inflight, request>>
    PROVE  QueueOwned' /\ QueuedOnce'
  <1>1. queue \in Seq(Entries)
    BY DEF TypeInv, TypeOK
  <1>2. /\ DOMAIN queue' = 1..(Len(queue) + 1)
        /\ DOMAIN queue = 1..Len(queue)
        /\ Len(queue) \in Nat
        /\ \A n \in DOMAIN queue: queue'[n] = queue[n]
        /\ queue'[Len(queue) + 1] = e
    BY <1>1, PutFacts
  <1>3. ASSUME NEW n \in DOMAIN queue', queue'[n].src = "player"
        PROVE  n \in DOMAIN queue /\ queue'[n] = queue[n]
    BY <1>2, <1>3
  <1>4. QueueOwned'
    BY <1>3 DEF CommandInv, QueueOwned, OwnEntry
  <1>5. QueuedOnce'
    BY <1>3 DEF CommandInv, QueuedOnce
  <1>. QED BY <1>4, <1>5

\* A step that touches no call and puts no player's entry keeps the invariant.
LEMMA OtherStep ==
    ASSUME TypeInv, CommandInv, UNCHANGED callVars,
           \/ UNCHANGED queue
           \/ queue # <<>> /\ queue' = Tail(queue)
           \/ \E e \in Entries: queue' = Append(queue, e) /\ e.src # "player"
    PROVE  CommandInv'
  <1> USE DEF callVars
  <1>1. QueueOwned' /\ QueuedOnce'
    <2>1. CASE UNCHANGED queue
      BY <2>1 DEF CommandInv, QueueOwned, QueuedOnce, OwnEntry
    <2>2. CASE queue # <<>> /\ queue' = Tail(queue)
      BY <2>2, TailEntries DEF QueueOwned, OwnEntry
    <2>3. CASE \E e \in Entries: queue' = Append(queue, e) /\ e.src # "player"
      BY <2>3, PutOther
    <2>. QED BY <2>1, <2>2, <2>3
  <1>. QED BY <1>1 DEF CommandInv, CallsMade, InflightOwned, ProcessedOwned, WaitersShare,
                       HandlerOwns, CallersAgree

-----------------------------------------------------------------------------
(***************************************************************************)
(* The steps that concern calls.                                           *)
(***************************************************************************)

\* The handler of a result moves on: its call stays the owner of the result.
LEMMA HandlerStep ==
    ASSUME TypeInv, CommandInv, NEW k \in Calls,
           reply[k] \in {"step", "hand", "match", "closing"},
           \E s \in {"closing", "done"}: reply' = [reply EXCEPT ![k] = s],
           UNCHANGED <<inflight, processed, request, told>>,
           UNCHANGED queue \/ \E e \in Entries: queue' = Append(queue, e) /\ e.src # "player"
    PROVE  CommandInv'
  <1>1. PICK s \in {"closing", "done"}: reply' = [reply EXCEPT ![k] = s]
    OBVIOUS
  <1>2. /\ \A c \in Calls: c # k => reply'[c] = reply[c]
        /\ reply'[k] \in {"closing", "done"}
    BY <1>1 DEF TypeInv, TypeOK
  <1>3. QueueOwned' /\ QueuedOnce'
    <2>1. CASE UNCHANGED queue
      BY <2>1 DEF CommandInv, QueueOwned, QueuedOnce, OwnEntry
    <2>. QED BY <2>1, PutOther
  <1>4. CallsMade'
    BY <1>2 DEF CommandInv, CallsMade
  <1>5. InflightOwned' /\ ProcessedOwned'
    BY <1>2 DEF CommandInv, InflightOwned, ProcessedOwned
  <1>6. WaitersShare'
    BY <1>2 DEF CommandInv, WaitersShare
  <1>7. HandlerOwns' /\ CallersAgree'
    BY <1>2 DEF CommandInv, HandlerOwns, CallersAgree, Accepted, Outcomes
  <1>. QED BY <1>3, <1>4, <1>5, <1>6, <1>7 DEF CommandInv

LEMMA SubmitCommands ==
    ASSUME TypeInv, CommandInv, NEW k \in Calls, Submit(k)
    PROVE  CommandInv'
  <1>1. PICK r \in Requests:
          /\ request' = [request EXCEPT ![k] = r]
          /\ SubmitProcessed(k, r) \/ SubmitInflight(k, r) \/ SubmitNew(k, r)
    BY DEF Submit
  <1>2. /\ reply[k] = "idle" /\ request[k] = None /\ told[k] = 0
        /\ UNCHANGED processed
        /\ r.id \in CommandIds /\ r # None
    BY NoneAssumption DEF Submit, CommandInv, CallsMade, Requests
  <1>3. /\ request'[k] = r
        /\ \A c \in Calls: c # k => request'[c] = request[c]
    BY <1>1 DEF TypeInv, TypeOK
  <1>4. \A i \in CommandIds: /\ inflight[i] # None => inflight[i] \in Calls /\ inflight[i] # k
                             /\ processed[i] # None => processed[i].call \in Calls
                                                       /\ processed[i].call # k
    BY <1>2 DEF CommandInv, InflightOwned, ProcessedOwned, TypeInv, TypeOK
  <1>5. \A n \in DOMAIN queue: queue[n].src = "player" =>
          queue[n].call \in Calls /\ queue[n].call # k /\ request[queue[n].call] # None
    BY <1>2 DEF TypeInv, QueueTyped, QueuedCall
  <1>6. CASE SubmitProcessed(k, r)
    <2>1. /\ UNCHANGED <<queue, inflight>> /\ processed[r.id] # None
          /\ \A c \in Calls: c # k => reply'[c] = reply[c] /\ told'[c] = told[c]
          /\ \/ /\ reply'[k] = "replayed" /\ request[processed[r.id].call] = r
                /\ told'[k] = processed[r.id].version
             \/ reply'[k] = "conflict"
      BY <1>6, <1>2 DEF SubmitProcessed, SameCommand, TypeInv, TypeOK
    <2>2. CallsMade'
      BY <2>1, <1>2, <1>3 DEF CommandInv, CallsMade
    <2>3. InflightOwned' /\ ProcessedOwned'
      BY <2>1, <1>2, <1>3, <1>4 DEF CommandInv, InflightOwned, ProcessedOwned
    <2>4. WaitersShare'
      <3> SUFFICES ASSUME NEW c \in Calls, reply'[c] = "waiting"
                   PROVE  /\ inflight[request'[c].id] # None
                          /\ request'[inflight[request'[c].id]] = request'[c]
        BY <2>1 DEF WaitersShare
      <3>1. c # k /\ reply[c] = "waiting"
        BY <2>1
      <3>2. request[c] # None
        BY <3>1 DEF CommandInv, CallsMade
      <3>. QED BY <3>1, <3>2, <1>3, <1>4, RequestFacts DEF CommandInv, WaitersShare
    <2>5. HandlerOwns'
      BY <2>1, <1>2, <1>3 DEF CommandInv, HandlerOwns, Accepted, Outcomes
    <2>6. CallersAgree'
      <3> SUFFICES ASSUME NEW c \in Calls, reply'[c] \in Accepted
                   PROVE  LET p == processed[request'[c].id]
                          IN  /\ p # None
                              /\ request'[p.call] = request'[c]
                              /\ told'[c] = p.version
                              /\ p.version = request'[c].version + 1
        BY <1>2 DEF CallersAgree
      <3>1. CASE c = k
        <4>1. reply'[k] = "replayed"
          BY <2>1, <3>1 DEF Accepted, Outcomes
        <4>. QED BY <4>1, <2>1, <3>1, <1>2, <1>3, <1>4 DEF CommandInv, ProcessedOwned
      <3>2. CASE c # k
        <4>1. reply[c] \in Accepted /\ request[c] # None
          BY <2>1, <3>2 DEF CommandInv, CallsMade, Accepted, Outcomes
        <4>. QED BY <4>1, <3>2, <2>1, <1>3, <1>4, RequestFacts DEF CommandInv, CallersAgree
      <3>. QED BY <3>1, <3>2
    <2>7. QueueOwned' /\ QueuedOnce'
      BY <2>1, <1>3, <1>5 DEF CommandInv, QueueOwned, QueuedOnce, OwnEntry
    <2>. QED BY <2>2, <2>3, <2>4, <2>5, <2>6, <2>7 DEF CommandInv
  <1>7. CASE SubmitInflight(k, r)
    <2>1. /\ UNCHANGED <<queue, inflight, told>> /\ inflight[r.id] # None
          /\ \A c \in Calls: c # k => reply'[c] = reply[c]
          /\ \/ reply'[k] = "waiting" /\ request[inflight[r.id]] = r
             \/ reply'[k] = "conflict"
      BY <1>7, <1>2 DEF SubmitInflight, SameCommand, TypeInv, TypeOK
    <2>2. CallsMade'
      BY <2>1, <1>2, <1>3 DEF CommandInv, CallsMade
    <2>3. InflightOwned' /\ ProcessedOwned'
      BY <2>1, <1>2, <1>3, <1>4 DEF CommandInv, InflightOwned, ProcessedOwned
    <2>4. WaitersShare'
      <3> SUFFICES ASSUME NEW c \in Calls, reply'[c] = "waiting"
                   PROVE  /\ inflight[request'[c].id] # None
                          /\ request'[inflight[request'[c].id]] = request'[c]
        BY <2>1 DEF WaitersShare
      <3>1. CASE c = k
        BY <3>1, <2>1, <1>2, <1>3, <1>4
      <3>2. CASE c # k
        <4>1. reply[c] = "waiting" /\ request[c] # None
          BY <3>2, <2>1 DEF CommandInv, CallsMade
        <4>. QED BY <4>1, <3>2, <1>3, <1>4, RequestFacts DEF CommandInv, WaitersShare
      <3>. QED BY <3>1, <3>2
    <2>5. \A c \in Calls: reply'[c] \in Accepted => c # k /\ reply[c] \in Accepted
                                                    /\ request[c] # None
      BY <2>1, <1>2 DEF CommandInv, CallsMade, Accepted, Outcomes
    <2>6. HandlerOwns' /\ CallersAgree'
      BY <2>1, <2>5, <1>2, <1>3, <1>4, RequestFacts DEF CommandInv, HandlerOwns, CallersAgree
    <2>7. QueueOwned' /\ QueuedOnce'
      BY <2>1, <1>3, <1>5 DEF CommandInv, QueueOwned, QueuedOnce, OwnEntry
    <2>. QED BY <2>2, <2>3, <2>4, <2>6, <2>7 DEF CommandInv
  <1>8. CASE SubmitNew(k, r)
    <2> DEFINE e == [src |-> "player", call |-> k, by |-> r.by, hand |-> r.hand,
                     version |-> r.version, kind |-> r.kind]
    <2>1. /\ inflight' = [inflight EXCEPT ![r.id] = k] /\ queue' = Append(queue, e)
          /\ inflight[r.id] = None /\ processed[r.id] = None /\ UNCHANGED told
          /\ inflight'[r.id] = k
          /\ \A i \in CommandIds: i # r.id => inflight'[i] = inflight[i]
          /\ reply'[k] = "waiting"
          /\ \A c \in Calls: c # k => reply'[c] = reply[c]
      BY <1>8, <1>2 DEF SubmitNew, TypeInv, TypeOK
    <2>2. e \in Entries /\ e.src = "player" /\ e.call = k /\ e.version = r.version
      BY DEF Entries, Sources, Requests, Kinds
    <2> HIDE DEF e
    <2>3. k # None
      BY ActorAssumption
    <2>4. CallsMade'
      BY <2>1, <1>2, <1>3 DEF CommandInv, CallsMade
    <2>5. InflightOwned'
      <3> SUFFICES ASSUME NEW i \in CommandIds, inflight'[i] # None
                   PROVE  /\ request'[inflight'[i]] # None
                          /\ request'[inflight'[i]].id = i
                          /\ reply'[inflight'[i]] = "waiting"
        BY DEF InflightOwned
      <3>1. CASE i = r.id
        BY <3>1, <2>1, <1>2, <1>3
      <3>2. CASE i # r.id
        BY <3>2, <2>1, <1>3, <1>4 DEF CommandInv, InflightOwned
      <3>. QED BY <3>1, <3>2
    <2>6. ProcessedOwned'
      BY <2>1, <1>2, <1>3, <1>4 DEF CommandInv, ProcessedOwned
    <2>7. WaitersShare'
      <3> SUFFICES ASSUME NEW c \in Calls, reply'[c] = "waiting"
                   PROVE  /\ inflight'[request'[c].id] # None
                          /\ request'[inflight'[request'[c].id]] = request'[c]
        BY DEF WaitersShare
      <3>1. CASE c = k
        BY <3>1, <2>1, <2>3, <1>3
      <3>2. CASE c # k
        <4>1. /\ reply[c] = "waiting" /\ request[c] # None
              /\ inflight[request[c].id] # None
              /\ request[inflight[request[c].id]] = request[c]
          BY <3>2, <2>1 DEF CommandInv, CallsMade, WaitersShare
        <4>. QED BY <4>1, <3>2, <2>1, <1>3, <1>4, RequestFacts
      <3>. QED BY <3>1, <3>2
    <2>8. \A c \in Calls: reply'[c] \in Accepted => c # k /\ reply[c] \in Accepted
                                                    /\ request[c] # None
      BY <2>1, <1>2 DEF CommandInv, CallsMade, Accepted, Outcomes
    <2>9. HandlerOwns' /\ CallersAgree'
      BY <2>1, <2>8, <1>2, <1>3, <1>4, RequestFacts DEF CommandInv, HandlerOwns, CallersAgree
    <2>10. queue \in Seq(Entries)
      BY DEF TypeInv, TypeOK
    <2>11. /\ DOMAIN queue' = 1..(Len(queue) + 1)
           /\ DOMAIN queue = 1..Len(queue)
           /\ Len(queue) \in Nat
           /\ \A n \in DOMAIN queue: queue'[n] = queue[n]
           /\ queue'[Len(queue) + 1] = e
      BY <2>1, <2>2, <2>10, PutFacts
    <2>12. \A n \in DOMAIN queue': n = Len(queue) + 1 \/ (n \in DOMAIN queue /\ queue'[n] = queue[n])
      BY <2>11
    <2>13. QueueOwned'
      <3> SUFFICES ASSUME NEW n \in DOMAIN queue', queue'[n].src = "player"
                   PROVE  /\ inflight'[request'[queue'[n].call].id] = queue'[n].call
                          /\ queue'[n].version = request'[queue'[n].call].version
        BY DEF QueueOwned, OwnEntry
      <3>1. CASE n = Len(queue) + 1
        BY <3>1, <2>1, <2>2, <2>11, <1>3
      <3>2. CASE n \in DOMAIN queue /\ queue'[n] = queue[n]
        <4>1. /\ queue[n].call \in Calls /\ queue[n].call # k /\ request[queue[n].call] # None
              /\ inflight[request[queue[n].call].id] = queue[n].call
              /\ queue[n].version = request[queue[n].call].version
          BY <3>2, <1>5 DEF CommandInv, QueueOwned, OwnEntry
        <4>2. request[queue[n].call].id # r.id
          BY <4>1, <2>1, ActorAssumption
        <4>. QED BY <4>1, <4>2, <3>2, <2>1, <1>3, RequestFacts
      <3>. QED BY <3>1, <3>2, <2>12
    <2>14. QueuedOnce'
      <3> SUFFICES ASSUME NEW m \in DOMAIN queue', NEW n \in DOMAIN queue',
                          queue'[m].src = "player", queue'[n].src = "player",
                          queue'[m].call = queue'[n].call
                   PROVE  m = n
        BY DEF QueuedOnce
      <3>. QED BY <2>2, <2>11, <2>12, <1>5 DEF CommandInv, QueuedOnce
    <2>. QED BY <2>4, <2>5, <2>6, <2>7, <2>9, <2>13, <2>14 DEF CommandInv
  <1>. QED BY <1>1, <1>6, <1>7, <1>8

LEMMA RejectCommands == TypeInv /\ CommandInv /\ Reject => CommandInv'
  <1> SUFFICES ASSUME TypeInv, CommandInv, Reject PROVE CommandInv'
    OBVIOUS
  <1> DEFINE q == Head(queue)
  <1>1. /\ queue # <<>> /\ queue' = Tail(queue) /\ q.src # "stop"
        /\ IF q.src = "player" THEN Refuse(request[q.call].id) ELSE UNCHANGED <<inflight, reply>>
        /\ UNCHANGED <<processed, request, told>>
    BY DEF Reject
  <1>2. CASE q.src # "player"
    BY <1>1, <1>2, OtherStep DEF callVars
  <1>3. CASE q.src = "player"
    <2>1. /\ QueuedOnce' /\ QueuedCall(q) /\ OwnEntry(q)
          /\ \A n \in DOMAIN queue': queue'[n].src = "player" =>
               /\ queue'[n].call \in Calls
               /\ request[queue'[n].call] # None
               /\ inflight[request[queue'[n].call].id] = queue'[n].call
               /\ queue'[n].version = request[queue'[n].call].version
               /\ queue'[n].call # q.call
      BY <1>1, <1>3, TailEntries
    <2> DEFINE i == request[q.call].id
    <2>2. Refuse(i)
      BY <1>1, <1>3
    <2>3. /\ q.call \in Calls /\ request[q.call] # None /\ inflight[i] = q.call
          /\ i \in CommandIds
      BY <2>1, <1>3, RequestFacts DEF QueuedCall, OwnEntry
    <2> HIDE DEF i, q
    <2>4. /\ inflight'[i] = None
          /\ \A j \in CommandIds: j # i => inflight'[j] = inflight[j]
          /\ \A c \in Calls: reply[c] = "waiting" /\ request[c].id = i => reply'[c] = "rejected"
          /\ \A c \in Calls: ~(reply[c] = "waiting" /\ request[c].id = i) => reply'[c] = reply[c]
      BY <2>2, <2>3 DEF Refuse, TypeInv, TypeOK
    <2>5. CallsMade'
      BY <2>4, <1>1 DEF CommandInv, CallsMade
    <2>6. InflightOwned'
      <3> SUFFICES ASSUME NEW j \in CommandIds, inflight'[j] # None
                   PROVE  /\ request[inflight'[j]] # None
                          /\ request[inflight'[j]].id = j
                          /\ reply'[inflight'[j]] = "waiting"
        BY <1>1 DEF InflightOwned
      <3>1. j # i /\ inflight'[j] = inflight[j] /\ inflight[j] \in Calls
        BY <2>3, <2>4 DEF TypeInv, TypeOK
      <3>. QED BY <3>1, <2>4 DEF CommandInv, InflightOwned
    <2>7. ProcessedOwned'
      BY <2>3, <2>4, <1>1 DEF CommandInv, ProcessedOwned
    <2>8. WaitersShare'
      <3> SUFFICES ASSUME NEW c \in Calls, reply'[c] = "waiting"
                   PROVE  /\ inflight'[request[c].id] # None
                          /\ request[inflight'[request[c].id]] = request[c]
        BY <1>1 DEF WaitersShare
      <3>1. reply[c] = "waiting" /\ request[c].id # i
        BY <2>4
      <3>2. request[c].id \in CommandIds
        BY <3>1, RequestFacts DEF CommandInv, CallsMade
      <3>. QED BY <3>1, <3>2, <2>4 DEF CommandInv, WaitersShare
    <2>9. \A c \in Calls: reply'[c] \in Accepted => reply'[c] = reply[c]
      BY <2>4 DEF Accepted, Outcomes
    <2>10. HandlerOwns' /\ CallersAgree'
      BY <2>9, <1>1 DEF CommandInv, HandlerOwns, CallersAgree
    <2>11. QueueOwned'
      <3> SUFFICES ASSUME NEW n \in DOMAIN queue', queue'[n].src = "player"
                   PROVE  /\ inflight'[request[queue'[n].call].id] = queue'[n].call
                          /\ queue'[n].version = request[queue'[n].call].version
        BY <1>1 DEF QueueOwned, OwnEntry
      <3>1. request[queue'[n].call].id # i
        BY <2>1, <2>3
      <3>. QED BY <3>1, <2>1, <2>4, RequestFacts
    <2>. QED BY <2>1, <2>5, <2>6, <2>7, <2>8, <2>10, <2>11 DEF CommandInv
  <1>. QED BY <1>2, <1>3

LEMMA ApplyCommands == TypeInv /\ CommandInv /\ Apply => CommandInv'
  <1> SUFFICES ASSUME TypeInv, CommandInv, Apply PROVE CommandInv'
    OBVIOUS
  <1> DEFINE q == Head(queue)
  <1>1. /\ queue # <<>> /\ queue' = Tail(queue) /\ q.src # "stop"
        /\ q.version = version /\ UNCHANGED request
    BY DEF Apply, Acceptable, Current
  <1>2. PICK outcome \in Outcomes:
          IF q.src = "player"
            THEN Answer(request[q.call].id, q.call, outcome) /\ UNCHANGED busy
            ELSE busy' = outcome /\ UNCHANGED <<inflight, processed, reply, told>>
    BY DEF Apply
  <1>3. CASE q.src # "player"
    BY <1>1, <1>2, <1>3, OtherStep DEF callVars
  <1>4. CASE q.src = "player"
    <2>1. /\ QueuedOnce' /\ QueuedCall(q) /\ OwnEntry(q)
          /\ \A n \in DOMAIN queue': queue'[n].src = "player" =>
               /\ queue'[n].call \in Calls
               /\ request[queue'[n].call] # None
               /\ inflight[request[queue'[n].call].id] = queue'[n].call
               /\ queue'[n].version = request[queue'[n].call].version
               /\ queue'[n].call # q.call
      BY <1>1, <1>4, TailEntries
    <2> DEFINE k == q.call
               i == request[k].id
    <2>2. Answer(i, k, outcome)
      BY <1>2, <1>4
    <2>3. /\ k \in Calls /\ k # None /\ request[k] # None /\ inflight[i] = k
          /\ i \in CommandIds /\ request[k].version = version /\ request[k].id = i
      BY <2>1, <1>1, <1>4, RequestFacts, ActorAssumption DEF QueuedCall, OwnEntry
    <2> HIDE DEF i, k, q
    <2>4. reply[k] = "waiting" /\ processed[i] = None
      BY <2>3 DEF CommandInv, InflightOwned, ProcessedOwned
    <2>5. /\ inflight'[i] = None
          /\ \A j \in CommandIds: j # i => inflight'[j] = inflight[j]
          /\ processed'[i] = [call |-> k, version |-> version + 1]
          /\ \A j \in CommandIds: j # i => processed'[j] = processed[j]
          /\ reply'[k] = outcome /\ told'[k] = version + 1
      BY <2>2, <2>3 DEF Answer, TypeInv, TypeOK
    <2>6. /\ \A c \in Calls: c # k /\ reply[c] = "waiting" /\ request[c].id = i
                => reply'[c] = "replayed" /\ told'[c] = version + 1
          /\ \A c \in Calls: c # k /\ ~(reply[c] = "waiting" /\ request[c].id = i)
                => reply'[c] = reply[c] /\ told'[c] = told[c]
      BY <2>2 DEF Answer
    <2>7. /\ processed'[i] # None /\ processed'[i].call = k
          /\ processed'[i].version = version + 1
      <3>1. [call |-> k, version |-> version + 1] \in [call: Calls, version: Versions]
        <4>1. version + 1 \in Versions
          BY ApplyTyped DEF Apply, TypeInv, TypeOK
        <4>. QED BY <4>1, <2>3
      <3>. QED BY <3>1, <2>5, NoneAssumption
    <2>8. CallsMade'
      BY <2>4, <2>5, <2>6, <1>1 DEF CommandInv, CallsMade, Outcomes
    <2>9. InflightOwned'
      <3> SUFFICES ASSUME NEW j \in CommandIds, inflight'[j] # None
                   PROVE  /\ request[inflight'[j]] # None
                          /\ request[inflight'[j]].id = j
                          /\ reply'[inflight'[j]] = "waiting"
        BY <1>1 DEF InflightOwned
      <3>1. j # i /\ inflight'[j] = inflight[j] /\ inflight[j] \in Calls
        BY <2>3, <2>5 DEF TypeInv, TypeOK
      <3>2. request[inflight[j]].id = j /\ request[inflight[j]] # None
            /\ reply[inflight[j]] = "waiting"
        BY <3>1 DEF CommandInv, InflightOwned
      <3>3. inflight[j] # k
        BY <3>1, <3>2, <2>3
      <3>. QED BY <3>1, <3>2, <3>3, <2>6
    <2>10. ProcessedOwned'
      <3> SUFFICES ASSUME NEW j \in CommandIds, processed'[j] # None
                   PROVE  /\ inflight'[j] = None
                          /\ request[processed'[j].call] # None
                          /\ request[processed'[j].call].id = j
                          /\ processed'[j].version = request[processed'[j].call].version + 1
        BY <1>1 DEF ProcessedOwned
      <3>1. CASE j = i
        BY <3>1, <2>3, <2>5, <2>7
      <3>2. CASE j # i
        BY <3>2, <2>5 DEF CommandInv, ProcessedOwned
      <3>. QED BY <3>1, <3>2
    <2>11. WaitersShare'
      <3> SUFFICES ASSUME NEW c \in Calls, reply'[c] = "waiting"
                   PROVE  /\ inflight'[request[c].id] # None
                          /\ request[inflight'[request[c].id]] = request[c]
        BY <1>1 DEF WaitersShare
      <3>1. c # k /\ reply[c] = "waiting" /\ request[c].id # i
        BY <2>5, <2>6 DEF Outcomes
      <3>2. request[c].id \in CommandIds
        BY <3>1, RequestFacts DEF CommandInv, CallsMade
      <3>. QED BY <3>1, <3>2, <2>5 DEF CommandInv, WaitersShare
    <2>12. ASSUME NEW c \in Calls, reply'[c] \in Accepted,
                  ~(c = k \/ (reply[c] = "waiting" /\ request[c].id = i))
           PROVE  /\ reply[c] \in Accepted /\ reply'[c] = reply[c] /\ told'[c] = told[c]
                  /\ request[c].id \in CommandIds /\ request[c].id # i
                  /\ processed'[request[c].id] = processed[request[c].id]
      <3>1. reply[c] \in Accepted /\ reply'[c] = reply[c] /\ told'[c] = told[c]
        BY <2>6, <2>12
      <3>2. request[c] # None /\ request[c].id \in CommandIds
        BY <3>1, RequestFacts DEF CommandInv, CallsMade, Accepted, Outcomes
      <3>3. processed[request[c].id] # None
        BY <3>1 DEF CommandInv, CallersAgree
      <3>. QED BY <3>1, <3>2, <3>3, <2>4, <2>5
    <2>13. HandlerOwns'
      <3> SUFFICES ASSUME NEW c \in Calls, reply'[c] \in Accepted, reply'[c] # "replayed"
                   PROVE  processed'[request[c].id].call = c
        BY <1>1 DEF HandlerOwns
      <3>1. CASE c = k
        BY <3>1, <2>3, <2>7
      <3>2. CASE c # k
        <4>1. ~(c = k \/ (reply[c] = "waiting" /\ request[c].id = i))
          BY <3>2, <2>6
        <4>. QED BY <4>1, <2>12 DEF CommandInv, HandlerOwns
      <3>. QED BY <3>1, <3>2
    <2>14. CallersAgree'
      <3> SUFFICES ASSUME NEW c \in Calls, reply'[c] \in Accepted
                   PROVE  LET p == processed'[request[c].id]
                          IN  /\ p # None
                              /\ request[p.call] = request[c]
                              /\ told'[c] = p.version
                              /\ p.version = request[c].version + 1
        BY <1>1 DEF CallersAgree
      <3>1. CASE c = k
        BY <3>1, <2>3, <2>5, <2>7
      <3>2. CASE c # k /\ reply[c] = "waiting" /\ request[c].id = i
        <4>1. request[k] = request[c]
          BY <3>2, <2>3 DEF CommandInv, WaitersShare
        <4>. QED BY <4>1, <3>2, <2>3, <2>6, <2>7
      <3>3. CASE ~(c = k \/ (reply[c] = "waiting" /\ request[c].id = i))
        BY <3>3, <2>12 DEF CommandInv, CallersAgree
      <3>. QED BY <3>1, <3>2, <3>3
    <2>15. QueueOwned'
      <3> SUFFICES ASSUME NEW n \in DOMAIN queue', queue'[n].src = "player"
                   PROVE  /\ inflight'[request[queue'[n].call].id] = queue'[n].call
                          /\ queue'[n].version = request[queue'[n].call].version
        BY <1>1 DEF QueueOwned, OwnEntry
      <3>1. request[queue'[n].call].id # i
        BY <2>1, <2>3 DEF k
      <3>. QED BY <3>1, <2>1, <2>5, RequestFacts
    <2>. QED BY <2>1, <2>8, <2>9, <2>10, <2>11, <2>13, <2>14, <2>15 DEF CommandInv
  <1>. QED BY <1>3, <1>4

LEMMA CommandNext == TypeInv /\ CommandInv /\ [Next]_vars => CommandInv'
  <1> SUFFICES ASSUME TypeInv, CommandInv, [Next]_vars PROVE CommandInv'
    OBVIOUS
  <1>1. ASSUME NEW k \in Calls, Submit(k) PROVE CommandInv'
    BY <1>1, SubmitCommands
  <1>2. CASE Apply
    BY <1>2, ApplyCommands
  <1>3. CASE Reject
    BY <1>3, RejectCommands
  <1>4. CASE Stop
    <2>1. UNCHANGED callVars /\ queue # <<>> /\ queue' = Tail(queue)
      BY <1>4 DEF Stop
    <2>. QED BY <2>1, OtherStep
  <1>5. CASE ActionTimerFires
    <2>1. timer \in Timers /\ SubmitTimeout("timeout", timer) /\ UNCHANGED callVars
      BY <1>5 DEF ActionTimerFires, Sleeping, TypeInv, TypeOK
    <2>. QED BY <2>1, TimerPuts, OtherStep
  <1>6. CASE DisconnectTimerFires
    <2>1. /\ dtimer \in Timers /\ UNCHANGED callVars
          /\ SubmitTimeout("disconnect", dtimer) \/ UNCHANGED queue
      BY <1>6 DEF DisconnectTimerFires, Sleeping, TypeInv, TypeOK
    <2>. QED BY <2>1, TimerPuts, OtherStep
  <1>7. ASSUME Close
        PROVE  UNCHANGED queue \/ \E e \in Entries: queue' = Append(queue, e) /\ e.src # "player"
    BY <1>7, ClosePuts
  <1>8. ASSUME NEW k \in Calls, \/ HandlerGoesOn(k) \/ HandlerCloses(k)
                               \/ HandlerFindsNoRoom(k) \/ HandlerClosed(k)
        PROVE  CommandInv'
    <2>1. /\ reply[k] \in {"step", "hand", "match", "closing"}
          /\ \E s \in {"closing", "done"}: reply' = [reply EXCEPT ![k] = s]
          /\ UNCHANGED <<inflight, processed, request, told>>
          /\ UNCHANGED queue \/ Close
      BY <1>8 DEF HandlerGoesOn, HandlerCloses, HandlerFindsNoRoom, HandlerClosed, Outcomes
    <2>. QED BY <2>1, <1>7, HandlerStep
  <1>9. CASE AutoHandlerGoesOn \/ AutoHandlerCloses \/ AdminCloses \/ AdminClosed
    <2>1. UNCHANGED callVars /\ (UNCHANGED queue \/ Close)
      BY <1>9 DEF AutoHandlerGoesOn, AutoHandlerCloses, AdminCloses, AdminClosed
    <2>. QED BY <2>1, <1>7, OtherStep
  <1>10. ASSUME NEW a \in Accounts, Disconnect(a) \/ Reconnect(a) PROVE CommandInv'
    <2>1. UNCHANGED callVars /\ UNCHANGED queue
      BY <1>10 DEF Disconnect, Reconnect
    <2>. QED BY <2>1, OtherStep
  <1>11. CASE UNCHANGED vars
    BY <1>11, OtherStep DEF vars
  <1>. QED BY <1>1, <1>2, <1>3, <1>4, <1>5, <1>6, <1>8, <1>9, <1>10, <1>11 DEF Next, Handlers

LEMMA CommandAlways == Spec => []CommandInv
  BY CommandInit, CommandNext, TypeAlways, PTL DEF Spec

\* A command id that waits has exactly one entry in the queue, its own, and one
\* that was applied has none: a repeated game:action or game:quit never applies
\* the same id twice, however calls, timers and closing interleave.
THEOREM QueuedOnceCorrect == Spec => []CommandQueuedOnce
  <1>1. CommandInv => CommandQueuedOnce
    BY DEF CommandInv, CommandQueuedOnce, ProcessedOwned, QueueOwned, QueuedOnce, OwnEntry
  <1>. QED BY <1>1, CommandAlways, PTL

\* All callers told that a command was applied carried that command, were told
\* its version, and had sent it for the decision point it resolved.
THEOREM CallersAgreeCorrect == Spec => []CallersAgree
  <1>1. CommandInv => CallersAgree
    BY DEF CommandInv
  <1>. QED BY <1>1, CommandAlways, PTL

\* Of the calls that carry one id, only one handles the result: it is persisted
\* and broadcast once.
THEOREM HandledOnceCorrect == Spec => []HandledOnce
  <1>1. CommandInv => HandledOnce
    BY DEF CommandInv, HandledOnce, HandlerOwns
  <1>. QED BY <1>1, CommandAlways, PTL

-----------------------------------------------------------------------------
(***************************************************************************)
(* Refinement: a call asks when it is submitted, a decision is taken when  *)
(* its command is applied, and every other step stutters.                  *)
(***************************************************************************)

asked == [k \in Calls |-> IF request[k] = None THEN None ELSE request[k].id]
resolved == [i \in CommandIds |-> IF processed[i] = None THEN 0 ELSE processed[i].version]

LEMMA SerialInit == Init => Serial!Init
  BY DEF Init, Serial!Init

LEMMA SerialAsk ==
    ASSUME TypeInv, CommandInv, NEW k \in Calls, Submit(k)
    PROVE  Serial!Ask(k)
  <1>1. PICK r \in Requests:
          /\ request' = [request EXCEPT ![k] = r]
          /\ SubmitProcessed(k, r) \/ SubmitInflight(k, r) \/ SubmitNew(k, r)
    BY DEF Submit
  <1>2. /\ request[k] = None /\ r # None /\ r.id \in CommandIds
        /\ UNCHANGED <<status, version, processed>>
    BY NoneAssumption DEF Submit, CommandInv, CallsMade, Requests, gameVars
  <1>3. request'[k] = r /\ \A c \in Calls: c # k => request'[c] = request[c]
    BY <1>1 DEF TypeInv, TypeOK
  <1>4. asked' = [asked EXCEPT ![k] = r.id] /\ asked[k] = None
    BY <1>2, <1>3 DEF asked
  <1>5. told' \in {told, [told EXCEPT ![k] = resolved[r.id]]}
    <2>1. CASE SubmitProcessed(k, r)
      <3>1. resolved[r.id] = processed[r.id].version
        BY <2>1, <1>2 DEF SubmitProcessed, resolved
      <3>. QED BY <2>1, <3>1 DEF SubmitProcessed
    <2>2. CASE SubmitInflight(k, r) \/ SubmitNew(k, r)
      BY <2>2 DEF SubmitInflight, SubmitNew
    <2>. QED BY <1>1, <2>1, <2>2
  <1>6. UNCHANGED <<version, status, resolved>>
    BY <1>2 DEF resolved
  <1>. QED BY <1>2, <1>4, <1>5, <1>6 DEF Serial!Ask, asked, resolved

LEMMA SerialDecide ==
    ASSUME TypeInv, CommandInv, Apply
    PROVE  Serial!DecideByTimer \/ \E i \in CommandIds: Serial!Decide(i)
  <1> DEFINE q == Head(queue)
  <1>1. /\ queue # <<>> /\ queue' = Tail(queue)
        /\ status = "active" /\ version' = version + 1 /\ UNCHANGED request
    BY DEF Apply, Acceptable
  <1>2. PICK outcome \in Outcomes:
          IF q.src = "player"
            THEN Answer(request[q.call].id, q.call, outcome) /\ UNCHANGED busy
            ELSE busy' = outcome /\ UNCHANGED <<inflight, processed, reply, told>>
    BY DEF Apply
  <1>3. CASE q.src # "player"
    <2>1. UNCHANGED <<processed, told>>
      BY <1>2, <1>3
    <2>. QED BY <2>1, <1>1 DEF Serial!DecideByTimer
  <1>4. CASE q.src = "player"
    <2>1. QueuedCall(q) /\ OwnEntry(q)
      BY <1>1, TailEntries
    <2> DEFINE k == q.call
               i == request[k].id
    <2>2. Answer(i, k, outcome)
      BY <1>2, <1>4
    <2>3. k \in Calls /\ request[k] # None /\ inflight[i] = k /\ i \in CommandIds /\ k # None
          /\ request[k].id = i
      BY <2>1, <1>4, RequestFacts, ActorAssumption DEF QueuedCall, OwnEntry
    <2> HIDE DEF i, k, q
    <2>4. reply[k] = "waiting" /\ processed[i] = None
      BY <2>3 DEF CommandInv, InflightOwned, ProcessedOwned
    <2> DEFINE S == {c \in Calls: c = k \/ (reply[c] = "waiting" /\ request[c].id = i)}
    <2>5. S \in SUBSET {c \in Calls: asked[c] = i /\ told[c] = 0}
      <3>1. \A c \in S: c \in Calls /\ reply[c] = "waiting" /\ request[c].id = i
        BY <2>3, <2>4
      <3>2. \A c \in S: request[c] # None /\ told[c] = 0
        BY <3>1 DEF CommandInv, CallsMade
      <3>. QED BY <3>1, <3>2 DEF asked
    <2>6. told' = [c \in Calls |-> IF c \in S THEN version + 1 ELSE told[c]]
      BY <2>2 DEF Answer
    <2>7. resolved' = [resolved EXCEPT ![i] = version + 1] /\ resolved[i] = 0
      <3>1. [call |-> k, version |-> version + 1] # None
        <4>1. version + 1 \in Versions
          BY <1>1, ApplyTyped DEF TypeInv, TypeOK
        <4>. QED BY <4>1, <2>3, NoneAssumption
      <3>2. processed' = [processed EXCEPT ![i] = [call |-> k, version |-> version + 1]]
        BY <2>2 DEF Answer
      <3>. QED BY <3>1, <3>2, <2>3, <2>4 DEF resolved, TypeInv, TypeOK
    <2>8. asked[k] = i /\ asked' = asked
      BY <2>3, <1>1 DEF asked
    <2> HIDE DEF S
    <2>9. PICK j \in CommandIds: j = i
      BY <2>3
    <2>10. Serial!Decide(j)
      BY <1>1, <2>3, <2>5, <2>6, <2>7, <2>8, <2>9 DEF Serial!Decide, asked, resolved
    <2>. QED BY <2>10
  <1>. QED BY <1>3, <1>4

LEMMA SerialNext == TypeInv /\ CommandInv /\ [Next]_vars => [Serial!Next]_(Serial!vars)
  <1> SUFFICES ASSUME TypeInv, CommandInv, [Next]_vars PROVE [Serial!Next]_(Serial!vars)
    OBVIOUS
  <1> USE DEF gameVars, callVars, Serial!vars
  <1>1. ASSUME NEW k \in Calls, Submit(k) PROVE Serial!Next
    BY <1>1, SerialAsk DEF Serial!Next
  <1>2. CASE Apply
    BY <1>2, SerialDecide DEF Serial!Next
  <1>3. CASE Reject \/ Stop \/ ActionTimerFires \/ DisconnectTimerFires \/ AdminCloses
    BY <1>3 DEF Reject, Stop, ActionTimerFires, DisconnectTimerFires, AdminCloses
  <1>4. CASE Handlers
    BY <1>4 DEF Handlers, HandlerGoesOn, HandlerCloses, HandlerFindsNoRoom,
                HandlerClosed, AutoHandlerGoesOn, AutoHandlerCloses, AdminClosed
  <1>5. ASSUME NEW a \in Accounts, Disconnect(a) \/ Reconnect(a) PROVE UNCHANGED Serial!vars
    BY <1>5 DEF Disconnect, Reconnect
  <1>6. CASE UNCHANGED vars
    BY <1>6 DEF vars
  <1>. QED BY <1>1, <1>2, <1>3, <1>4, <1>5, <1>6 DEF Next

\* The queue, the deduplication, the timers and the handlers of actor.py
\* implement SerialMatch: the match is decided by one command at a time, an id
\* decides at most once, and whoever is told a version is told that id's.
THEOREM ActorImplementsSerialMatch == Spec => ImplementsSerialMatch
  <1>. QED BY SerialInit, SerialNext, TypeAlways, CommandAlways, PTL
         DEF Spec, ImplementsSerialMatch, Serial!Spec
=============================================================================
