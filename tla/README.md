# Verification of DokerFace

DokerFace is a server-authoritative no-limit Texas Hold'em server (FastAPI and
python-socketio in one asyncio process, PostgreSQL) with a React client.  This
directory holds TLA+ modules translated from its source, the TLC
configurations that check them on small instances, and theorems about them
that TLAPS proves for every instance.

Paths of Python files are relative to `backend/app/`, those of TypeScript files
to `frontend/src/`.

## 1. The system

| component | state | operations | talks to |
|---|---|---|---|
| `MatchActor` (`game_engine/actor.py`) | command queue, ids in flight and processed, hand id, state version, action timer, disconnect timer, announced deadline, its task | `submit`, `submit_timeout`, `schedule_disconnect_timeout`, `cancel_disconnect_timeout`, `close`, the loop `_run`/`_apply` | coordinator; its result is handled by the room handlers |
| `MatchCoordinator` (`game_engine/match.py`) | stacks, button, hand number, players of the hand, status | `start_hand`, `quit_player`, `settle_hand` | adapter |
| `PokerKitAdapter` (`game_engine/pokerkit_adapter.py`) | a PokerKit hand, a quit settlement | `apply_action`, `legal_actions`, `quit_player`, `settlement`, snapshots | PokerKit (external) |
| room handlers (`realtime/room_handlers.py`) | none; they read and write both registries, the database and the actor across awaits | `room:join/ready/leave/kick/start`, `game:action/quit/request-snapshot`, `_handle_match_result` | everything |
| `RoomRegistry` (`rooms/registry.py`) | members, host, readiness, seats, account to room | join, leave, rebind, disconnect, ready, reset, close | handlers, administration |
| `ConnectionRegistry` and connect/disconnect (`realtime/connections.py`, `realtime/server.py`) | account to sid and back | replace, release | room registry, actor timers |
| `MatchRegistry` (`matches/registry.py`) | matches by room and by id | add, remove (closes the actor) | handlers, administration |
| match persistence (`matches/persistence.py`, `main.py`) | match and hand rows | create, persist hand, complete, void, void all at start | ratings, statistics in the same transaction |
| ratings (`ratings/`), statistics (`statistics/`) | batches, ratings, settlements; counters per account | settle, rebuild, reset; reduce a hand | persistence, administration |
| accounts, sessions, administration (`auth/`, `admin/`) | accounts, sessions, audit records | login, logout, change of password, create, update, reset password, void match, close room | registries, persistence |
| client store (`store/game.ts`, `api/socket.ts`) | connection, room, last snapshots, results, pending command | submit with one retry, merge snapshots, join, dial | room handlers |
| room pages (`pages/Lobby.tsx`, `RoomContainer.tsx`, `WaitingRoom.tsx`, `PokerTable.tsx`) | route, join of the page, password form, bet amount, chat badge, muted | enter, leave, start, quit, bet | client store |
| sounds (`sound/`) | cues derived from two snapshots, a library that is loaded when first needed | derive, play, prime | poker table |
| pages outside the rooms (`api/auth.tsx`, `pages/AdminConsole.tsx`, `PlayerProfile.tsx`, `Lobby.tsx`, guards) | the user, a cache of queries, dialogs, tabs | sign in and out, edit, administrate | REST API, events of the lobby |

### Control flow

A socket handler runs until it awaits something that suspends.  `game:action`
and `game:quit` look the match up and call `submit`, which checks the command
id and puts the command in an unbounded queue: no suspension in between.  The
actor's task takes one command at a time, refuses it or applies it, and
resolves the future all callers of that id wait on.  The caller that queued the
command then handles the result (persist the hand, schedule the disconnect
fallback, broadcast, remove a finished match); the others only report it.  A
timer's command has no caller, so the actor's own task handles its result
before it takes the next command.  `MatchRegistry.remove` closes the actor: it
appends a sentinel to the queue, cancels the timers and waits for the task,
unless it is called by that task.

In the tab, the store merges the events of one connection into the snapshots
the table is drawn from and waits for acknowledgements with timeouts; a lost
connection is dialled again and its room is joined anew.  The pages keep state
of their own beside the store (a join belongs to a run of an effect, a bet
amount to a decision), and everything outside the rooms is read through a cache
of queries that mutations and one lobby event invalidate.

### What is hard

* commands repeated with the same id, while queued, after they were applied,
  or with other contents; by the client's own retry over another connection;
* timers that fire while a player's command, a reconnection or a closing is
  under way; the decision a timer makes is computed before it is queued;
* closing: commands may be queued before the sentinel, the closer may be the
  actor's own task, and two closers may meet;
* the chips: blinds larger than stacks, all-in, a quit in the middle of a hand,
  elimination, remainders, the button over empty seats;
* handlers that read the database or the registries, await, and use what they
  read (`room:start`, `room:leave`, `room:join`);
* one transaction per hand in whichever caller gets there first, and what a
  failure or a restart leaves behind;
* broadcasts of two handlers that interleave at their awaits, so that public
  and private halves of different versions meet in the store;
* effects of React that run again, with answers to what an earlier run asked;
* queries that are loading, hidden or not yet drawn when they are invalidated;
* an administrator's change judged by a count and made after an await.

`PROJECT.json` lists each of these at its line under "hazards", with the
property that watches it or the reason there is none.

## 2. Modules

| module | models |
|---|---|
| `MatchActor` | the actor, its timers, its callers before and after the queue, closing, connections |
| `SerialMatch` | what the actor promises: one decision at a time, an id at most once |
| `MatchActorProofs` | type correctness, timers, the sentinel, the announced deadline, automatic actions |
| `MatchActorCommandProofs` | ids, callers, results, and the refinement of `SerialMatch` |
| `MatchCoordinator` | hands, button, blinds, chips, quit, elimination, end of the match |
| `MatchCoordinatorProofs` | sums over seats; chips, the end of a match, blinds, the shares of a quit |
| `RoomHandlers` | one room through the handlers: its row, its runtime objects, its matches and their rows, split at the awaits |
| `RoomHandlersProofs` | type correctness, the host, waiting handlers, one match in its room, rows |
| `ClientStore` | the store of one tab and the handlers it talks to: emissions that interleave, retries, lost and replaced connections, matches in a row |
| `ClientStoreProofs` | type correctness, cards, answers and versions of the store, and that a settled table is current |
| `RoomPage` | one user into a room, through its matches and out again, with the pages, the store's room part and the handlers |
| `RoomPageProofs` | who is a member and who is shown the room, results, what the form lets through |
| `TableView` | what the table derives from snapshots: sounds, bet, chat badge, seats |
| `TableViewProofs` | sounds, the bet, the badge, the seats |
| `Site` | login, lobby list, profile and console over the cache of queries, the accounts and the sessions |
| `SiteProofs` | the role of administrator, whose the socket is, and that settled pages are current |
| `MC...` | instances for TLC |

### MatchActor

An action is the code between two awaits that suspend.  `Submit(k)` is a call
of `game:action` or `game:quit` up to its wait; `Apply`, `Reject` and `Stop` are one
turn of `_run`; `HandlerGoesOn`, `HandlerCloses`, `HandlerFindsNoRoom` and
`HandlerClosed` are `_handle_match_result` in the caller, before and after the
await of `close`; `AutoHandlerGoesOn` and `AutoHandlerCloses` are the same in
the actor's task, where close does not wait; `AdminCloses` and `AdminClosed` are
`close_room_admin`; `ActionTimerFires` and `DisconnectTimerFires` are the two
timer tasks after their sleep; `Disconnect` and `Reconnect` are what
`mark_account_disconnected` and `restore_account_connection` do to the actor.

| variable | code |
|---|---|
| `status`, `seated` | `coordinator.status`, `coordinator.hand_player_ids` |
| `hand`, `version` | `_hand_id` (numbered), `_state_version` |
| `turn` | `legal_actions()` of the hand, reduced to whose turn it is and whether a check is free, a bet is faced or cards are shown |
| `queue`, `inflight`, `processed` | the fields of those names |
| `request`, `reply`, `told` | per call: the event, how far the handler has got, the version it reports |
| `busy` | the result `_automatic_result_handler` is working on |
| `timer`, `dtimer`, `deadline` | `_timer_task`, `_disconnect_timer_task` with its account, `_action_deadline_at` |
| `task`, `open`, `admin`, `connected` | `_task`, presence in `MatchRegistry`, the administrator's request, `RoomMember.connected` |

Which decision follows a command is chosen freely among those the rules of the
room allow, so everything shown holds for whatever PokerKit answers.  Clients
send any command for a hand and version they can have seen, by any account of
the match; the handlers also check the member's socket, which only removes
calls.

### MatchCoordinator

Seats are numbers.  `Deal` is `start_hand`, `SettleWith` is `settle_hand`
followed by `start_hand` when the match goes on, which is how the actor calls
them; `Quit` is `quit_player` with its settlement.  PokerKit's betting is
`Wager`, `Fold` and `CollectBets`: any player still in the hand may call or put
all chips in, in any order, and a hand may end with any division of the pot
among players who did not fold.  Every chip is followed through `stacks`,
`chips`, `bets`, `pot`; `QuitIsFair` compares what the others receive when a
player quits, and `BlindsFollowTheDealer` the posts of a hand with its button.

### RoomHandlers

`local[h]` is a handler under way: which call it waits for, and the values it
read before.  `RoomStart` loads the row; `RoomStartChecks` is the code from
there to `_load_profile_names`; `RoomStartAdds` registers the match;
`RoomStartInserts` and `RoomStartActivates` are the two writes, and `RoomStartVoids`
and `RoomStartAborted` the `except` clause.  A command that completes a hand goes
through `CommandApplied` (the actor), `ResultTaken`, `HandPersisted`, then
`ResultSettles` or `ResultVoids`, and for the last hand or a failure `ResultCloses` and
`ResultReopens`; `QuitLeaves` is the rest of `game:quit`.  `CloseReturns` says when
`MatchActor.close` returns, from what `MatchActor` models.

| variable | code |
|---|---|
| `row` | the row of table `rooms`: `status`, `host_account_id` |
| `heap`, `current` | the `RoomRuntime` objects, and the one in `RoomRegistry._rooms` |
| `byRoom`, `byId` | `MatchRegistry._by_room`, `_by_match` |
| `match`, `matchRow` | the matches and the status of their rows in table `matches` |
| `troubles` | history: a failure of the database, a command before the match was announced, an administrator, a restart; and `late`, a handler that was overtaken by a match |

`told` in a match separates the commands of clients that know the match from
the announcement and those of a client that reconnects, or a timer that fires,
before the row of the match is written ("early").  A handler is `Overtaken` when
`room:kick` or `game:quit` removes somebody who by then plays a match that had not begun when
they checked, or when the last leave removes a room that was opened again.  Left out: sockets and the
other rooms of an account (a join may also be refused because of another room,
after `ensure_room`), passwords, seats, chat, and commands that complete no hand.

### ClientStore

A handler of the server is the sequence of what it still has to emit; `Emit`
takes the first emission of any handler and delivers it, so handlers interleave
at every emission and one connection keeps its order.  `HandleAction`,
`HandleSnapshotRequest` and `HandleJoin` begin a handler for a request of the tab,
`OthersAct` one for another player, `StartNext` one for the next match.  A private snapshot is
read when it is emitted, as the code does it after an await, so it may carry
cards newer than the version it names (`Dealt`).

| variable | code |
|---|---|
| `srv`, `applied` | match, hand, version and turn of the actor with the phase of its room; the user's commands it accepted |
| `handlers`, `up` | handlers with emissions left; requests on their way |
| `status`, `dial` | `connectionStatus` with `replaced`; the socket tries to connect |
| `room`, `pub`, `priv` | `currentRoom`, `publicSnapshot`, `privateSnapshot` |
| `settled`, `timer`, `over` | `handSettled`, `handSettlementTimer`, `matchSettled` |
| `pending`, `made`, `loops` | `pendingAction`, the envelope of every command id, the attempts of `submitAction` under way |

The `On...` operators are the event handlers of the store and `Accept` their merge rule;
`Submit`, `AckTimeout` (`Retry`, `GiveUp`) are `submitAction`; `Drop`, `UserDials` and
`Connect` are the socket.  The user stays a member of the room, and the database works.

### RoomPage

A request is a record that says what is asked, which code awaits the answer
(the page's effect, the password form, the store after a reconnect, the
cleanup, a button), and in which run of the effect it was made.  `OpenRoom`,
`CreateRoom`, `LeavePage`, `ChangeLanguage` and `SubmitPassword` are the routes and the effect of
`RoomContainer` (which depends on `t`, hence on the language); the `Click...` actions
are the buttons; `HandleJoin`, `Answered` (two halves of `room:join` around its awaits),
`HandleLeave`, `HandleQuit` are the handlers; `Receive` delivers an event or answer;
`AckTimeout`, `WaitTimeout`, `Drop` and `Connect` are what may go wrong.  `FormAccepts` is
`handleCreateSubmit`, `ServerAccepts` the validators of `RoomRules`.

`lapses` is a history variable that names the known ways to lose track when
they happen: `member` (the user may stay a member), `shown` (the page may show
another room than the server has) and `hung` (a form waits for ever).  The
properties exclude exactly these; section 5 lists them.

### TableView

`Play` is the server; `PublicArrives`, `PrivateArrives`, `ResultArrives` and `ResultLeaves` are
renders of the table with what the store hands it, each followed by the effects
(`Effects`, with `DeriveSoundCues` and `DeriveSettlementCue`).  Versions may be missed.
`Prime`, `LibraryLoads`, `ToggleMute`, `ToggleHidden` are `sound/engine.ts` and `sound/settings.ts`;
`Remount` is a reconnect or a new page; `EnterAmount` and `Bet` are the slider and its
button, `MessageArrives` and `ToggleChat` the chat panel, `Seats` the seats around the felt.
`heard`, `again` and `unseen` are history.

### Site

`Act` is the user of one tab, `Serve` the server and somebody else, `Receive` what
reaches the tab.  `Load` and `Invalidate` are the cache as the pages rely on it: a
query that begins to be drawn is loaded; an invalidated one is loaded again if
it is drawn, in place of a load under way if it has data; otherwise the load
under way goes on.  The name of a player is a query of his account, which the layout's
avatar takes from the cache unless it is `stale`, and the page of the profile loads.
`Drawn` and `Found` are `AuthProvider` when it is drawn after the cache was emptied: it finds no
user and asks again.  A user signs in when nothing else is under way, so that
requests of two sessions do not meet.  `Change` is `update_account` and `reset_password` with their sessions,
audit records and sockets, `MayChange` what `AccountAdminService` refuses.  A
demotion by the other administrator may be judged in `OtherAsks` and made in
`OtherFinishes`, while the tab has asked for one too; every other request is one step of the server.

| variable | code |
|---|---|
| `acct`, `rows` | accounts; a room, a match and the audit records of the console's other tabs |
| `cookie`, `alive`, `sock`, `news` | the session cookie, whether its session is valid, the account of the socket, events on it |
| `user`, `emptied` | `useAuth().user`; the cache was cleared and `AuthProvider` not drawn since |
| `page`, `tab`, `dialogs`, `selected`, `editing` | route, tab and dialogs of the console, `selectedAccountId`, `isEditing` |
| `cache`, `stale`, `failed`, `asked`, `answered` | the queries' data, invalidations and errors, requests and answers under way |
| `missed`, `elsewhere`, `overlapped` | history: the exceptions of the properties |

## 3. Runs

| run | bounds | what it shows |
|---|---|---|
| `actor_timed` | 2 accounts, 2 ids, 2 calls, 2 versions | callers agree, one handler per result, no command behind the sentinel, automatic actions are the default when applied, refinement of `SerialMatch` |
| `actor_untimed` | 2 accounts, 1 id, 2 calls, 2 versions | sleeping timers are current, the announced deadline is real, an id is queued once |
| `actor_timed_live` | 2 accounts, 1 id, 2 calls, 2 versions | every call is answered, a timed match moves on, a finished actor stops |
| `actor_untimed_live` | 2 accounts, 1 id, 1 call, 2 versions | an absent player does not hold up the table |
| `coord` | 3 players, 3 chips each, 2 streets, 3 hands, blinds that double | chips, blinds and button, a fair quit, the end of the match |
| `rooms` | 2 accounts, 2 handlers, 2 room objects, 1 match; database failures or early commands | no circle of closers, the host is a member, an active room has a match |
| `rooms_rematch` | 2 accounts, 2 handlers, 1 room object, 2 matches; an administrator or a restart | one match at a time, its runtime is there, its row tells the outcome |
| `client_store` | 2 commands, 2 matches, versions 0 and 1, 1 lost or replaced connection, 2 handlers | cards belong to the hand on the table, answers tell what happened, a settled table is current, the buttons come back |
| `table_view` | 4 players, versions 0 to 2, 2 mounts, 2 messages and a list of 1 | sounds are news, a bet fits its decision, the badge means news, the ring is the table's |
| `room_page` | 2 runs of the effect, 1 trouble, 1 match, 3 events on the way | who left is no member, who sees a room is in it, a result hides no match, the form's refusals, loading ends |
| `site` | 3 accounts, 2 logins or 2 changes, 1 change elsewhere, 2 moves or logouts, 2 requests under way | settled pages show what the server has, the socket is the user's, the role of administrator remains |
| `coord_quit_chips` | 3 players | violation: a quit after the flop destroys the pot |

Why the bounds are enough.  *Actor:* two calls are the least that can share an id, and
the interesting orders need one command in the queue, one waiting for the same
id and one closing.  `MaxVersion` is the number of decisions of the match, so with 2
every command, timer and handler meets its own decision, the one before and the
end.  `Lag` lets a client act on an older view.  `MaxLate` bounds how many
commands of a disconnect timer wait in the queue: a player could otherwise
leave and return for ever while the actor's task does not run.  `DealtOver`
allows a hand without a decision point; the liveness runs that need decisions
exclude it.  Accounts, ids and calls are interchangeable, and the safety runs use that symmetry.

*Coordinator:* three chips are enough for a player to be all-in by a blind, by a
call and by a raise, and for a remainder with two recipients; three hands let the
button pass the seat of a player eliminated in the first and the blinds double.
`LastStreet` is the number of betting rounds; two are needed for chips already collected.

*Rooms:* two handlers are the pair of every race; `MaxRooms` = 2 lets a room
be emptied, dropped and entered again while a handler holds the old object,
`MaxMatches` = 2 lets a handler of the first match meet the second.  `MaxTroubles` = 1
allows one kind of trouble in a behaviour.  `ActiveRoomHasMatch`,
`OneMatch`, `MatchHasRoom` and `RowsTellOutcome` name the troubles they are stated
under; section 5 says what happens under the others.

*Store:* two commands share or change the pending id; two matches of two versions
each let every snapshot be of the current, an older and another hand and match; two
handlers interleave any two broadcasts; the loss of a connection separates a
command from its answer.

*Table:* three versions are before, the next and one that was skipped.  The constraint
`OneConcern` lets a behaviour use the sounds, the bets, the chat or the seats: these share
only the snapshots, and each part runs with everything it reads.

*Room page:* two runs of the effect are the one that left and the one that is there;
one match lasts until the tab has heard of its start and its end, the other player starts
or leaves only when nothing is on the way (`CaughtUp`), leaves and quits
are answered in the order in which they are handled, and the language is not
changed while the password form is open.  The forms of `MCForms` sit at and beside
every limit of both checks.

*Site:* three accounts are the own administrator, another one and one to be
created; two changes overtake each other or meet two dialogs, and two logins let the second session
find what the first left.  The constraint `LoginsOrChanges` lets a behaviour have two of the
one or of the other; the proofs are without it.  `MaxAsked` limits the requests under way
when the user acts, not those that follow by themselves.

`CHECK_DEADLOCK FALSE` is set where the system may really stop: a match that is
complete (`coord`), a tab whose commands and matches are used up
(`client_store`), a user back in the lobby (`room_page`), and pages nobody clicks any more (`site`).

### Fairness

*Actor:* weak fairness of the actor's task, of the two timers, and
of each handler that has started: asyncio runs every ready task, a sleep ends,
and a database call returns or raises (both outcomes are modelled).  *Store and
room page:* weak fairness of the server's handlers, of the delivery of events,
of the timers of the tab and of the socket's dialling, which socket.io repeats
without limit.  Nothing is assumed of players, administrators, clicks and the
network's failures.  Weak fairness is enough since none
of these actions is disabled again but by itself or by something that ends what is waited for.

## 4. Proofs

Every theorem is about all values of the constants that satisfy the named assumption of
its module.  The assumptions say what the code guarantees: the limits of `RoomRules`
(players, blinds, hands), sets of accounts that are finite where they sit at one table,
`None` outside the values it stands beside, ranges of bets with a lower end that is not
above the upper one.  TLC evaluates them in every run.

For each component the property is seldom inductive as it stands; what had to be added
is the argument.  Each invariant was checked by TLC on the run's instance before it was proved.

### Actor

* `TypeCorrect`, `TimersCorrect` (`MatchActorProofs`).  `TypeOK` needs that a hand is never
  ahead of the versions (`HandsFollowVersions`), and a command taken from the queue must be
  known to have a call when it came from a player (`QueueTyped`).  `TimersAreCurrent` is
  inductive given those.
* `SentinelCorrect`.  `NothingBehindStop` needs `StopMeansClosed`: a sentinel in the queue
  means that the match has left the registry, and `Submit` asks the registry.
* `DeadlineCorrect`, `AutomaticCorrect`.  `ClockInv`: a timer's command in the queue that names the
  current version is the default action of the current decision point
  (`QueuedDefaults`), since versions only grow and a decision point lasts as long as its version;
  hence only `Apply` takes it, which sets the next timer.  An open match has its task, and the
  two timers belong to different kinds of rooms.  With the showdown choice the timer's fold is
  refused and the deadline stays announced (section 5), so `DeadlineIsHonest` excludes it.
* `QueuedOnceCorrect`, `CallersAgreeCorrect`, `HandledOnceCorrect` (`MatchActorCommandProofs`).  The
  inductive invariant is `CommandInv`: a call that has a reply has a request; the id
  in flight belongs to the call that queued it, which waits; everybody who
  waits sent that same command; the applied command belongs to the call that handles it.
* `ActorImplementsSerialMatch`: under the mapping that reads `over` off the status
  and `resolved` off `_processed`, each action of `MatchActor` is `Ask`, `Decide`,
  `DecideByTimer` or a stutter.

### Coordinator

`ChipsAreKept`, `MatchIsOnTime`, `BlindsAreRight`, `QuitsAreFair` (`MatchCoordinatorProofs`), for
two to eight players, any stacks, blinds, number of hands and betting rounds.

* Sums.  `SumFunction` folds over the seats in an arbitrary order.  The library's induction theorems cannot
  be used, so induction is stated with sets: what holds of the empty set, and of a set when
  it holds of all that lack one element, holds of all (`SubsetInduction`, from the least size at which it
  fails).  It gives that the fold exists and is independent of the order (`TallyExists`),
  and from that how a sum changes with one seat or two, and that sums add up.
* `IInv`: chips, bets and pot of the running hand are the settled stacks of its players
  (`MoneyInv`); the players of a hand are those with chips, and the dealer and the blinds are
  derived from them (`HandInv`); a match that is over has a reason (`OverInv`).
* With the showdown choice a quit may leave no stack above 0 (section 5): `MatchIsOnTime`
  states `MatchEndsByTheRules` for every match and `MatchEndsOnTime` for those without the choice.

### Room handlers

`RoomHandlersProofs`, for any number of handlers, accounts, room objects and matches.

* `Types`, `NoCircleOfWaits`, `HostIsFollowed`.  `TypeInv` adds to `TypeOK` what a waiting handler has
  in its local variables (`Fits`); the other two follow from it step by step.
* `RoomHasOneMatch`, `MatchKeepsRoom`, `RowsAreRight` rest on `CalmInv`, the situation while
  nothing went wrong but a restart: both indexes name the same match, whose players are members of the
  room that is there (`MatchHere`); two still play, unless it is over (`EnoughPlayers`);
  `room:start` holds a room of two at least, and one that was dropped is
  empty (`NamesHeld`); one handler announces a match after its row was written (`Announced`); one
  handler finishes it, while it is in the registry (`Finishing`); and what left the registry has
  its outcome (`Settled`).
* `ActiveRoomPlays` adds `ReopenInv`: an active row has its match, or a handler is about to write
  the row.
* `MatchHere` is not inductive for four handlers, and TLC confirms that it then fails: a handler overtaken
  by a match takes players out of it.  `troubles` records this as `late`, and the properties that
  depend on the room exclude it (section 5).

### Client store

* `StoreTyped`, `CardsCorrect`, `AnswersCorrect`, `VersionsCorrect` (`ClientStoreProofs`), for any number of
  commands, matches, versions, handlers and lost connections.  The inductive
  invariant `StoreInv` says that whatever holds a snapshot (an emission, the cards on
  the table, the envelope of a command) holds one the server `Had`: then equal
  match and version mean the same hand, which is all the merge rules compare.  A negative acknowledgement
  under way must stay true while the command is repeated, so it is of the `Past`: the match
  or the version has moved on and the command cannot be applied any more.
  `HandlersSound` carries both through the sequences of emissions.
* `TableIsCurrent`, the safety side of what `PendingEnds` promises.  `WayInv`: as long as table, cards or
  room of a connected tab are not those of the live match, something under way brings
  them: an emission of a handler, a request, or a join (`LiveKept`).  Emissions
  are of the present match, for the next one starts only when no handler is under way
  (`NoOldMatch`).  A command that is pending has a loop that waits for it, or was applied, and then the broadcast
  of its effect is still to come (`PendingKept`).  TLC checked `WayInv` on the instance of `client_store` first.

### Room pages

`RoomPageProofs`, for any number of visits, lost connections, matches and events on the way.

* `RefusalsAreKnown` compares the two checks of a form for every form there is (lines of
  integers, not only those of `MCForms`).  The provers handle literals of five digits only under a name
  (`MostChips`, `MostSmall`).
* `ResultIsAlone`.  `ServerInv`: only members are ready, both play a match and are ready until
  it ends, and while a result is shown or on its way the user is not ready.
* `NetInv` follows the requests.  A request is asked for, then in one place at a time: held,
  on the way up, answered but not yet told, or answered in the queue of events (`PlaceInv`).
  A run of the effect is left only when its join was answered, and the password form asks only then
  (`RunInv` in `RequestInv`).  What travels is awaited unless it failed (`AnswerInv`), and a
  refusal of a join is for want of a password, or final (`RefuseInv`).
* `WhoIsGoneHasLeft`.  `MemberInv`: a member is in the page, will hear of a join, or has a
  cleanup under way that will take him out or be refused (`Counted`), and whatever empties the store of a member
  is followed by the answer to a join (`Warned`).
* `RoomIsShownToMembers`.  `ShownInv`: for a member, what empties the store is followed by the room
  (`Restored`), and his page shows it, asks for the password or will be answered (`Filled`);
  for anybody else, whatever fills it is followed by what empties it (`Clears`).
  Both exclude the lapses named in section 2, and nothing else.

### Table

`TableViewProofs`, for any number of versions, messages, reconnects and seats of up to eight players.

* `BetsFit`: a range of bets is one of the server's, and the present one if the private snapshot
  names the server's version (`DecisionInv`).
* `SoundsNews`, an action property.  What shows is an earlier state of the server, and the baseline of the sounds is
  what shows (`ScreenInv`); every cue played is in the past of that baseline, or belongs
  to a result that is remembered or cannot arrive again (`SoundInv`).
* `BadgeIsRight` by `ChatInv`; `RingTurned` by arithmetic modulo the number of players.

### Pages outside the rooms

`SiteProofs`, for any number of accounts, logins, changes, pages opened, news and requests
under way.

* `RoleStays`.  Between the judgement of a demotion and the
  demotion another administrator than the judged one remains (`AnotherStays`), unless
  two demotions overlap; the count gives him when the demotion is judged (`CountLeavesAnother`),
  and nothing but a demotion takes the role, since the requests under way name
  roles and statuses of accounts (`Sound`).
* `SocketStays`.  The socket is dialled for the session, not for the user, so the property
  rests on the two being of one account as long as both are there (`Sessions`): the
  cookie is the user's, and so is every answer under way that names one; a valid session is of an active
  account; who is signed out has no socket and no news.  A login is under way only
  while nobody is signed in and nothing else is asked (`LoginAlone`), and a
  user who is being asked for is still unanswered, or signed in by the answer to a login (`UnknownWaits`).
* `PagesAreCurrent`.  `Fresh`: what is drawn is what the server has, or a load of it is under
  way, or the answer to a change that invalidates it, or news (`FreshKey`); an answer under way may carry
  what the server had before a change, but then the answer to that change is still `Due`; and a
  name that is cached and not `stale` is one that a page may be content with.  It needs that a query is
  under way once at most (`Once`), since two loads could be answered in either order.  `Names` says
  the same of the user object and the name of the account.  The
  server's steps enter through what each makes due (`ServeTells`), the tab's through what
  they load, which keeps the three kinds of steps apart.

### Only model-checked

`CallsAnswered`, `TimedDecisionsEnd`, `FinishedActorStops`, `AbsentDecisionsEnd`, `PendingEnds` and
`LoadingEnds`: they rest on fairness, for which there are no proof rules here.
Every invariant and every action property of the runs is proved.

## 5. What the code does and the documents do not say

One run ends in a violation and is listed as a finding: a quit after the first
betting round pays the pot to nobody.  The rest was met on the way, by TLC on
the models or, where it says so, by reading.

### Game and rooms

* A timed showdown choice stands still: the automatic action is one the hand
  refuses, and no timer follows a refusal (`actor.py:219`).  `TimedDecisionsEnd` holds without the choice only.
* A hand that is over when it is dealt (blinds that put every player all-in) has no decision
  point, and nothing settles it (`actor.py:394`).
* A player already away when the match starts has no disconnect fallback in an
  untimed room (`room_handlers.py:362`; Feature.md 182): `AbsentDecisionsEnd` needs `StartsConnected`.
* `_button_index` advances over empty seats (`match.py:168`), so after an elimination a player can
  deal twice in a row (Feature.md 124) and `button_account_id` may name a player
  who is not in the hand; the blinds follow the next player who is.
* With the showdown choice a quit at an all-in showdown leaves every stack
  at 0: a match without a winner (Feature.md 162); the same line as `coord_quit_chips`.
* `room:leave` of the last member waits for the CLOSED status before the runtime
  is removed; a join that loaded the row before enters the room that is closed (`:189`).
* `room:kick` waits for its message before it removes the player, and a match
  may have been started with him (Feature.md 18: kicking is for the time before the match).
* Four overlapping handlers can leave a running match without its room
  (`late`; without it `MatchHasRoom`, `RowsTellOutcome` and `ActiveRoomHasMatch` fail with four
  handlers and two accounts, TLC says in 23 states, and hold with two).  The last member leaves
  and waits for the CLOSED status; two accounts enter again, and each, in its turn as
  host, kicks the other; the match starts, both kicks land, the members are gone, and
  the old leave's `remove_if_empty` drops the runtime while the match runs.
* `room:start` does not look at the members and their readiness again after it loaded the names
  (Feature.md 82: all seated players are ready): it starts with a player who
  has become unready, and without one who left.
* Two leaves write the hosts they read in either order, so the row can name an
  account that is not the host of the runtime, and only the row's host may start.
* A quit of the last member of a room after the match is over leaves the room
  open and empty.
* A failure of `_set_room_status` after a match, or a restart during one, leaves the
  row ACTIVE without a match; nobody can join or start, and only an
  administrator can close it.  Statistics applied hand by hand before the restart
  are not taken back (by reading; Feature.md 190).
* An administrator closes a room while a match ends: the row becomes WAITING
  again.  The row of the match he ends stays active until the next restart.
* A failing `room:start`, or a command before the match's row is written, makes a
  handler void and remove the match while others still use it; `MatchRegistry.remove`
  then pops whatever match the room has by that time, so `byId` can hold two.
* By reading: ranks are computed from the final chips, so that all players
  eliminated in a winner-takes-all match share the second rank
  (`room_handlers.py:803`; Feature.md 205); a player who is away when a hand ends
  is not removed from the match (Feature.md 184); a hand is persisted after the
  next began, so that a hand may fail after the match was completed (`:645`).

### Client store

* `game:action-rejected` clears the pending command whatever command it was about
  (`store/game.ts:269`), so the answer to an older command frees the buttons of a newer one.
* A private snapshot is built after the public one it follows, so it may name an older version than its
  cards are of; the merge rules keep such cards from older tables (`CardsMatchTable`).
* A tab that another one replaced dials again when its user clicks something that needs the
  connection, and so replaces the other.
* By reading: the buttons never offer to show or muck, although the server has the showdown choice;
  an action that was applied and whose hand could not be persisted is answered as failed.

### Room pages

* A join that is acknowledged after the user was kicked, or after his leave was handled, shows a
  room he is not in (`shown`).
* A leave that is refused because a match began, that is lost, or that overlaps a join
  leaves the user a member without a page, until somebody kicks him (`member`).
* The password form waits for ever when its join is not answered, because the connection was lost (`hung`).
* A member of a locked room who reconnects, or changes the language, joins
  without the password; he is refused and sees an empty page (`RoomContainer.tsx:32`).
* The form of the lobby lets through what the server refuses: blinds that are
  not doubled, an ante, an increase over 20 and more than 20 fixed hands, with which the
  field begins (50, `Lobby.tsx:51`).
* The lobby asks for the password of a locked room and passes it as `?pw=`
  (`Lobby.tsx:192`), which `RoomContainer` does not read: it is asked for twice.

### Poker table

* A failed load of the sound library is never repeated, since the failed promise is kept (`sound/engine.ts:76`).
* Sounds that wait for the library are played when it comes although the table was muted meanwhile.
* By reading: the ticks of the last seconds sound only when a snapshot arrives in them
  (`sound/derive.ts:135`), and the fourth position of four players is drawn half a seat too low
  (`translate-y-1/2` without the minus, `PokerTable.tsx:62`).

### Pages outside the rooms

* Two demotions that overlap in the server both pass the count of
  `_ensure_not_last_administrator`, which takes no lock (`admin/accounts.py:84`), and leave
  nobody with the role: with `overlapped` dropped from `RoleRemains`, TLC finds it in
  fifteen steps.
* The count is of the role, whatever the status (`admin/accounts.py:76`): a disabled or
  deleted administrator counts, so the last one who can sign in may be
  disabled (Frontend.md 527: the UI cannot remove the last administrator).
* An invalidation does not replace the first load of a list, and one of a list that is not
  drawn does not replace a load under way either: the change that caused it is then not
  shown (`missed`).
* The list of the lobby is not loaded again after the socket was down or before
  it was accepted, so what changed meanwhile is not shown (`elsewhere`).
* Changing the own password ends the session and clears the cache, but `AuthProvider` is
  not drawn again and keeps its user: the guard of the login page sends him to the lobby,
  where every query fails (Feature.md 41: a new login is required), and the socket stays.
* By reading: a success of the password form that arrives after a logout empties the cache under the
  load of the user, and the loading screen stays until `AuthProvider` is drawn again
  (`PlayerProfile.tsx:148`).
* The success of a reset closes the dialog for whatever account it is open by then; by reading,
  the password field and the error message are shared by the dialogs, and the profile's edit form
  is not reset when another profile is opened.
* Creating an account or resetting a password does not refresh the audit records (`elsewhere`).
* By reading: an account is created with the password as typed and logged in with it
  trimmed; the audit record of a closed room reads its `before_state` after the change
  (`admin/api.py:408`).

## 6. Plan

Done: all modules of section 2, with a theorem for every safety property of the runs.

Left:

1. `RoomRegistry` with `ConnectionRegistry`: one room per account, one connection per
   account, with the two handlers of an overlapping connect and disconnect split.
2. `MatchPersistence` with `Ratings`: hands in any order, failure, void, restart, rebuild.
3. `Statistics`: the reducer against a reference definition.

## 7. Not modelled

* Ratings: floating-point arithmetic of OpenSkill; only its transaction boundaries could be checked.
* Statistics: a fold over the actions of one hand without state of its own.
* Password hashing, session tokens, the schema and its migrations, deployment, translations,
  layout and animation, the leaderboard and the read-only APIs: they keep no state the rest of the system decides by.
* PokerKit and @tanstack/react-query are libraries outside the repository; the code
  relies on them as described in section 2.
* Several rooms of one account, two connections that overlap, and hand rows are left to the plan.
