---------------------------- MODULE CommandSession ----------------------------
(***************************************************************************)
(* The commands of one player from the client (game-client/src/online.rs)  *)
(* over its connections to the match database (match/src/rules.rs), with   *)
(* lost connections, restarts of the client, and requests of a closed      *)
(* connection that arrive late.                                            *)
(*                                                                         *)
(* The client runs in frames.  turn says where in the frame it is: send    *)
(* (maintain_connection and the intents), pump (frame_tick, which runs the *)
(* callbacks of what has arrived) and apply (synchronize_authoritative_    *)
(* view: first the queued lifecycle events, then the dirty tables).        *)
(***************************************************************************)
EXTENDS Integers, Sequences, FiniteSets, FiniteSetsExt, Functions

CONSTANTS
  Command,         \* what the player asks for, by rank in the order of asking
  MaxSessions,     \* bound on the runs of the client
  MaxConnections,  \* bound on its connections, over all runs
  MaxActions,      \* bound on its lobby actions, over all runs
  Window,          \* RECEIPT_RETENTION_WINDOW
  Stride           \* distance of the id floors of two runs

ASSUME SessionAssumption ==
  /\ IsFiniteSet(Command) /\ Command \subseteq Nat
  /\ {MaxSessions, MaxConnections, MaxActions, Window, Stride} \subseteq Nat \ {0}
  /\ Cardinality(Command) < Stride

VARIABLES
  seated,      \* server: the identity has a seat
  running,     \* server: match_state.phase is Running
  watermark,   \* server: command_watermark, NoMark without a row
  receipts,    \* server: command_receipt
  verdict,     \* what the server made of a command (and its receipt says)
  up,          \* requests under way, by connection
  watching,    \* subscriptions of the open connection that are served
  down,        \* messages of the open connection that the client has not seen
  session,     \* runs of the client so far
  generation,  \* connections so far; the last is active_generation
  failed,      \* failed_generation is the active one
  open,        \* transport.connection is there
  boot, tactical,  \* subscription_lifecycle
  subscribed,  \* tactical_subscription_player is set
  bound,       \* bound_player is set
  ready,       \* command_ids_ready
  nextId,      \* next_command_id
  number,      \* id of a command, 0 before it is sent
  pending,     \* ids of pending commands
  terminal,    \* terminal_command_ids
  processed,   \* processed_receipts
  cache,       \* the subscribed rows: the own seat and receipts
  dirty,       \* dirty tables
  events,      \* queue of lifecycle events
  acting,      \* lobby.action_pending
  actions,     \* lobby actions so far
  turn,
  told         \* what the interface was told about a command

server == <<seated, running, watermark, receipts, verdict>>
wire == <<up, watching, down>>
link == <<session, generation, failed, open, boot, tactical, subscribed, bound, acting, actions>>
ids == <<ready, nextId, number, pending, terminal, processed>>
inbox == <<cache, dirty, events>>
vars == <<server, wire, link, ids, inbox, turn, told>>

Connection == 1 .. MaxConnections
NoMark == 0
NoCache == [seat |-> FALSE, running |-> FALSE, receipts |-> {}]
Tables == {"players", "receipts"}   \* ALL_DIRTY, as far as it matters here

Asking(kind) == [kind |-> kind, id |-> 0]
IdsOf(rows) == {row.id : row \in rows}

\* The id floor of a run: milliseconds since the epoch, shifted, so that all
\* ids of an earlier run are below it.
\* Mutant: every run counts from one.
SessionCommandFloor_Fixed(n) == 1
SessionCommandFloor(n) == n * Stride

SessionInit ==
  /\ seated = FALSE /\ running = FALSE
  /\ watermark = NoMark /\ receipts = {}
  /\ verdict = [c \in Command |-> "none"]
  /\ up = [g \in Connection |-> <<>>] /\ watching = {} /\ down = <<>>
  /\ session = 1 /\ generation = 0
  /\ failed = FALSE /\ open = FALSE
  /\ boot = FALSE /\ tactical = FALSE /\ subscribed = FALSE /\ bound = FALSE
  /\ ready = FALSE
  /\ nextId = SessionCommandFloor(1)
  /\ number = [c \in Command |-> 0]
  /\ pending = {} /\ terminal = {} /\ processed = {}
  /\ cache = NoCache /\ dirty = {} /\ events = <<>>
  /\ acting = FALSE /\ actions = 0
  /\ turn = "send"
  /\ told = [c \in Command |-> "nothing"]

Request(g, message) == up' = [up EXCEPT ![g] = Append(@, message)]

-----------------------------------------------------------------------------
(* The database: requests of one connection are served in their order.     *)

\* What the client gets of it if its connection is still there: the rows that
\* changed, whoever changed them, and the answer to a request of this connection.
Lost == \E i \in DOMAIN events : events[i].kind = "lost"
Rows == [seat |-> seated', running |-> running', receipts |-> receipts']
Message(kind, id) == [kind |-> kind, id |-> id, rows |-> Rows]
Reply(g, changed, answer) ==
  down' = IF ~ open \/ Lost THEN down
          ELSE down \o (IF changed \in watching THEN <<Message(changed, 0)>> ELSE <<>>)
                    \o (IF g = generation THEN answer ELSE <<>>)

ServeSubscription(g, kind) ==
  /\ UNCHANGED server
  /\ watching' = IF g = generation /\ open
                 THEN watching \cup {IF kind = "boot" THEN "slot" ELSE "receipt"}
                 ELSE watching
  /\ Reply(g, "nothing", <<Message(kind, 0)>>)

\* join_match_then of the auto-join, or a lobby action: join, create or start.
ServeLobby(g, kind) ==
  /\ UNCHANGED <<watermark, receipts, verdict, watching>>
  /\ LET end == IF kind = "act" THEN <<Message("acted", 0)>> ELSE <<>>
     IN  \/ /\ seated' = TRUE
            /\ UNCHANGED running
            /\ Reply(g, "slot", end)
         \/ /\ kind = "act" /\ seated
            /\ running' = TRUE
            /\ UNCHANGED seated
            /\ Reply(g, "nothing", end)
         \/ /\ kind = "join" => ~ seated
            /\ UNCHANGED <<seated, running>>
            /\ Reply(g, "nothing", IF kind = "act" THEN end ELSE <<Message("refused", 0)>>)

\* Mutant: without a receipt row the command is new.
CommandWasSeen_ByReceipt(id) == id \in IdsOf(receipts)
\* command_was_seen.
CommandWasSeen(id) == (watermark # NoMark /\ id <= watermark) \/ id \in IdsOf(receipts)

\* Mutants: nothing is pruned; the cutoff is the watermark itself.
Retained_All(rows, mark) == rows
Retained_Last(rows, mark) == {row \in rows : row.id = mark}
\* prune_player_receipts.
Retained(rows, mark) == {row \in rows : mark < Window \/ row.id > mark - Window}

\* write_receipt.
WriteReceipt(c, id, status) ==
  LET mark == IF id > watermark THEN id ELSE watermark
  IN  /\ watermark' = mark
      /\ receipts' = Retained(receipts \cup {[id |-> id, status |-> status]}, mark)
      /\ verdict' = [verdict EXCEPT ![c] = status]

\* A command reducer: an error rolls back, a duplicate is accepted silently,
\* and everything else leaves a receipt.
ServeCommand(g, c, id) ==
  /\ UNCHANGED <<seated, running, watching>>
  /\ \/ /\ UNCHANGED <<watermark, receipts>>
        /\ verdict' = [verdict EXCEPT ![c] = IF @ = "none" THEN "refused" ELSE @]
        /\ Reply(g, "nothing", <<Message("failed", id)>>)
     \/ /\ seated /\ running /\ CommandWasSeen(id)
        /\ UNCHANGED <<watermark, receipts, verdict, down>>
     \/ /\ seated /\ running /\ ~ CommandWasSeen(id)
        /\ \E status \in {"done", "refused"} : WriteReceipt(c, id, status)
        /\ Reply(g, "receipt", <<>>)

Serve(g) ==
  /\ up[g] # <<>>
  /\ up' = [up EXCEPT ![g] = Tail(@)]
  /\ LET message == Head(up[g])
     IN  CASE message.kind \in {"boot", "tactical"} -> ServeSubscription(g, message.kind)
           [] message.kind \in {"join", "act"} -> ServeLobby(g, message.kind)
           [] OTHER -> ServeCommand(g, message.command, message.id)
  /\ UNCHANGED <<link, ids, inbox, turn, told>>

\* What a closed connection has not delivered may be lost.
Lose(g) ==
  /\ up[g] # <<>>
  /\ g # generation \/ ~ open
  /\ up' = [up EXCEPT ![g] = <<>>]
  /\ UNCHANGED <<server, watching, down, link, ids, inbox, turn, told>>

-----------------------------------------------------------------------------
(* The frame of the client: connecting and sending.                        *)

\* connect_to_spacetimedb; a connection that cannot be set up is another
\* generation that is never open.
Connect ==
  /\ turn = "send" /\ ~ open
  /\ generation < MaxConnections
  /\ generation' = generation + 1
  /\ failed' = FALSE
  /\ boot' = FALSE /\ tactical' = FALSE /\ subscribed' = FALSE
  /\ ready' = FALSE
  /\ acting' = FALSE
  /\ dirty' = {}
  /\ cache' = NoCache /\ watching' = {}
  /\ \/ open' = TRUE /\ Request(generation', Asking("boot"))
     \/ /\ generation' < MaxConnections
        /\ UNCHANGED <<open, up>>
  /\ UNCHANGED <<server, down, session, bound, actions, nextId, number, pending, terminal,
                 processed, events, turn, told>>

CommandsReady == boot /\ tactical /\ ready

\* Mutant: the bootstrap snapshot unlocks commands.
MaySend_Bootstrap == open /\ boot
MaySend == CommandsReady

\* send_online_intents: an id is used up even if the command cannot be sent.
SendCommand(c) ==
  /\ turn = "send" /\ MaySend
  /\ told[c] = "nothing"
  /\ \A d \in Command : d < c => told[d] # "nothing"
  /\ nextId' = nextId + 1
  /\ \/ /\ number' = [number EXCEPT ![c] = nextId]
        /\ pending' = pending \cup {nextId}
        /\ Request(generation, [kind |-> "command", command |-> c, id |-> nextId])
        /\ told' = [told EXCEPT ![c] = "waiting"]
        /\ UNCHANGED terminal
     \/ /\ terminal' = terminal \cup {nextId}
        /\ told' = [told EXCEPT ![c] = "rejected"]
        /\ UNCHANGED <<number, pending, up>>
  /\ UNCHANGED <<server, watching, down, link, ready, processed, inbox, turn>>

\* send_lobby_intents.  A create configures and, with the answer, joins: the two
\* calls are one request here.  An action that cannot be dispatched ends at once.
LobbyAction ==
  /\ turn = "send" /\ open /\ boot /\ ~ acting
  /\ ~ cache.running
  /\ actions < MaxActions /\ actions' = actions + 1
  /\ acting' = TRUE
  /\ Request(generation, Asking("act"))
  /\ UNCHANGED <<server, watching, down, session, generation, failed, open, boot, tactical,
                 subscribed, bound, ids, inbox, turn, told>>

EndSend ==
  /\ turn = "send"
  /\ turn' = "pump"
  /\ UNCHANGED <<server, wire, link, ids, inbox, told>>

-----------------------------------------------------------------------------
(* frame_tick.                                                             *)

Event(kind, id) == [kind |-> kind, id |-> id]

\* One message: the rows are in the cache before the callbacks run.  Here the
\* bootstrap callback asks for a seat.
Pump ==
  /\ turn = "pump" /\ open /\ down # <<>>
  /\ LET message == Head(down)
         kind == message.kind
     IN  /\ cache' = IF subscribed THEN message.rows
                     ELSE [message.rows EXCEPT !.receipts = {}]
         /\ dirty' = dirty \cup (CASE kind \in {"boot", "tactical"} -> Tables
                                   [] kind = "slot" -> {"players"}
                                   [] kind = "receipt" -> {"receipts"}
                                   [] OTHER -> {})
         /\ events' = IF kind \in {"slot", "receipt"} THEN events
                      ELSE Append(events, Event(kind, message.id))
         /\ IF kind = "boot" THEN Request(generation, Asking("join")) ELSE UNCHANGED up
  /\ down' = Tail(down)
  /\ UNCHANGED <<server, watching, link, ids, turn, told>>

\* on_disconnect, reported once more when frame_tick fails on the connection.
Break ==
  /\ turn = "pump" /\ open
  /\ generation < MaxConnections
  /\ ~ Lost
  /\ watching' = {} /\ down' = <<>>
  /\ \E n \in 1 .. 2 : events' = events \o [i \in 1 .. n |-> Event("lost", 0)]
  /\ UNCHANGED <<server, up, link, ids, cache, dirty, turn, told>>

EndPump ==
  /\ turn = "pump"
  /\ turn' = "apply"
  /\ UNCHANGED <<server, wire, link, ids, inbox, told>>

-----------------------------------------------------------------------------
(* synchronize_authoritative_view: the events first.                       *)

Current == ~ failed

\* BootstrapSubscribed.
ApplyBoot ==
  /\ Current
  /\ boot' = TRUE
  /\ UNCHANGED <<up, down, failed, open, tactical, subscribed, bound, acting, ready,
                 pending, terminal, dirty, cache, told>>

\* TacticalSubscribed.
ApplyTactical ==
  /\ Current
  /\ tactical' = TRUE
  /\ UNCHANGED <<up, down, failed, open, boot, subscribed, bound, acting, ready,
                 pending, terminal, dirty, cache, told>>

\* JoinFailed.
ApplyRefused ==
  /\ Current
  /\ bound' = FALSE /\ subscribed' = FALSE /\ tactical' = FALSE
  /\ ready' = FALSE /\ acting' = FALSE
  /\ UNCHANGED <<up, down, failed, open, boot, pending, terminal, dirty, cache, told>>

\* LobbyActionFinished.
ApplyActed ==
  /\ Current
  /\ acting' = FALSE
  /\ UNCHANGED <<up, down, failed, open, boot, tactical, subscribed, bound, ready,
                 pending, terminal, dirty, cache, told>>

\* CommandFailed: it has no generation, the terminal ids decide.
ApplyFailed(id) ==
  /\ terminal' = terminal \cup {id}
  /\ pending' = IF id \in terminal THEN pending ELSE pending \ {id}
  /\ told' = [c \in Command |-> IF number[c] = id /\ id \in pending \ terminal
                                THEN "rejected" ELSE told[c]]
  /\ UNCHANGED <<up, down, failed, open, boot, tactical, subscribed, bound, acting, ready,
                 dirty, cache>>

\* handle_connection_loss: everything of the connection goes.
DropLink ==
  /\ Current
  /\ failed' = TRUE /\ open' = FALSE
  /\ boot' = FALSE /\ tactical' = FALSE /\ subscribed' = FALSE
  /\ ready' = FALSE /\ acting' = FALSE
  /\ dirty' = {} /\ cache' = NoCache /\ down' = <<>>
  /\ UNCHANGED up

\* The outcome of what is pending is unknown, and the interface is told of modal
\* commands, as which both count here; for a mobilization change it does not wait.
DropPending ==
  /\ terminal' = terminal \cup pending
  /\ pending' = {}
  /\ told' = [c \in Command |-> IF number[c] \in pending THEN "unknown" ELSE told[c]]

\* Mutants: pending commands wait for the next connection; the player stays bound.
ApplyLost_KeepsPending == DropLink /\ bound' = FALSE /\ UNCHANGED <<pending, terminal, told>>
ApplyLost_KeepsBound == DropLink /\ DropPending /\ UNCHANGED bound
ApplyLost == DropLink /\ DropPending /\ bound' = FALSE

\* An event of a connection that is known to be lost.
ApplyStale(kind) ==
  /\ ~ Current /\ kind # "failed"
  /\ UNCHANGED <<up, down, failed, open, boot, tactical, subscribed, bound, acting, ready,
                 pending, terminal, dirty, cache, told>>

Apply ==
  /\ turn = "apply" /\ events # <<>>
  /\ LET event == Head(events)
     IN  \/ event.kind = "boot" /\ ApplyBoot
         \/ event.kind = "tactical" /\ ApplyTactical
         \/ event.kind = "refused" /\ ApplyRefused
         \/ event.kind = "acted" /\ ApplyActed
         \/ event.kind = "failed" /\ ApplyFailed(event.id)
         \/ event.kind = "lost" /\ ApplyLost
         \/ ApplyStale(event.kind)
  /\ events' = Tail(events)
  /\ UNCHANGED <<server, watching, session, generation, actions, nextId, number, processed,
                 turn>>

-----------------------------------------------------------------------------
(* Then the dirty tables.                                                  *)

\* update_players and ensure_tactical_subscriptions.
Bind == "players" \in dirty /\ cache.seat /\ ~ bound
Subscribe == Bind /\ ~ subscribed

\* observe_command_id.
Beyond(n, S) == IF \A id \in S : id < n THEN n ELSE Max(S) + 1

\* seed_command_ids looks at all ids it knows, process_receipts at the receipts.
NextId(seed) ==
  Beyond(nextId, IdsOf(cache.receipts) \cup IF seed THEN pending \cup terminal ELSE {})

\* process_receipts: a receipt that was not seen before settles the pending
\* command of its id, unless that id was terminal already.
\* Mutant: an accepted command is all it can be.
Answer_Accepted(row, ended) == "accepted"
Answer(row, ended) ==
  IF row.id \in ended \/ row.status = "refused" THEN "rejected" ELSE "accepted"

Sync ==
  /\ turn = "apply" /\ events = <<>>
  /\ turn' = "send"
  /\ dirty' = {}
  /\ IF dirty = {} \/ ~ open
     THEN UNCHANGED <<up, tactical, subscribed, bound, ready, nextId, pending, terminal,
                      processed, told>>
     ELSE LET bind == Bind
              live == tactical /\ ~ Subscribe
              still == ready /\ ~ bind
              seed == ~ still /\ boot /\ live /\ (bound \/ bind)
              past == IF seed THEN IdsOf(cache.receipts) \ pending ELSE {}
              fresh == {row \in cache.receipts : row.id \in pending \ processed}
          IN  /\ bound' = (bound \/ bind)
              /\ subscribed' = (subscribed \/ Subscribe)
              /\ tactical' = live
              /\ IF Subscribe THEN Request(generation, Asking("tactical")) ELSE UNCHANGED up
              /\ ready' = (still \/ seed)
              /\ nextId' = NextId(seed)
              /\ processed' = processed \cup IdsOf(cache.receipts)
              /\ pending' = pending \ IdsOf(fresh)
              /\ terminal' = terminal \cup IdsOf(cache.receipts)
              /\ told' = [c \in Command |->
                            IF told[c] = "waiting" /\ number[c] \in IdsOf(fresh)
                            THEN Answer(CHOOSE row \in fresh : row.id = number[c],
                                        terminal \cup past)
                            ELSE told[c]]
  /\ UNCHANGED <<server, watching, down, session, generation, failed, open, boot, acting, actions,
                 number,
                 cache, events>>

-----------------------------------------------------------------------------

\* The client is closed or dies, and is started again.
Restart ==
  /\ session < MaxSessions /\ generation < MaxConnections
  /\ session' = session + 1
  /\ nextId' = SessionCommandFloor(session')
  /\ open' = FALSE /\ failed' = FALSE
  /\ boot' = FALSE /\ tactical' = FALSE /\ subscribed' = FALSE /\ bound' = FALSE
  /\ ready' = FALSE /\ acting' = FALSE
  /\ pending' = {} /\ terminal' = {} /\ processed' = {}
  /\ watching' = {} /\ down' = <<>>
  /\ cache' = NoCache /\ dirty' = {} /\ events' = <<>>
  /\ turn' = "send"
  /\ told' = [c \in Command |-> IF told[c] = "waiting" THEN "unknown" ELSE told[c]]
  /\ UNCHANGED <<server, up, generation, actions, number>>

Frame ==
  \/ EndSend \/ Pump \/ EndPump \/ Apply \/ Sync

SessionNext ==
  \/ \E g \in Connection : Serve(g) \/ Lose(g)
  \/ Connect
  \/ \E c \in Command : SendCommand(c)
  \/ LobbyAction
  \/ Frame
  \/ Break
  \/ Restart

\* Frames go on, what is sent arrives in one of them, a client without a
\* connection tries to connect, and the server serves what it was sent.
SessionSpec ==
  /\ SessionInit /\ [][SessionNext]_vars
  /\ WF_vars(Frame) /\ SF_vars(Pump)
  /\ SF_vars(Connect)
  /\ \A g \in Connection : WF_vars(Serve(g))
-----------------------------------------------------------------------------
(* What the player can rely on.                                            *)

Answers == {"accepted", "rejected", "unknown"}

\* The types; the server keeps the receipts of the last Window ids and no others.
SessionTypeOK ==
  /\ seated \in BOOLEAN /\ running \in BOOLEAN
  /\ watermark \in Nat
  /\ \A row \in receipts : row.id \in (watermark - Window) + 1 .. watermark
  /\ verdict \in [Command -> {"none", "done", "refused"}]
  /\ session \in 1 .. MaxSessions /\ generation \in 0 .. MaxConnections
  /\ {failed, open, boot, tactical, subscribed, bound, ready, acting} \subseteq BOOLEAN
  /\ nextId \in Nat
  /\ number \in [Command -> Nat]
  /\ pending \subseteq Nat /\ terminal \subseteq Nat /\ processed \subseteq Nat
  /\ dirty \subseteq Tables
  /\ turn \in {"send", "pump", "apply"}
  /\ told \in [Command -> {"nothing", "waiting"} \cup Answers]

\* When commands can be sent the seat is taken and the own rows are subscribed,
\* and the next id is above all the server has seen or still gets from this or
\* an older connection or run: a new command is never taken for a duplicate.
FreshIds ==
  /\ SessionTypeOK
  /\ MaySend =>
       /\ seated /\ open /\ subscribed
       /\ watermark < nextId
       /\ \A c \in Command : number[c] < nextId

\* A command takes effect at most once and in the order of giving, whatever
\* arrives late or twice, and what the player is told of it is true.
Outcome == INSTANCE CommandOutcome
             WITH asked <- number, effect <- verdict, told <- told
TrueOutcomes == Outcome!OutcomeSpec

\* Nothing the interface waits for goes unanswered: a command gets its receipt,
\* its error or the notice that the connection was lost, a lobby action ends.
NoSilence ==
  /\ \A c \in Command : told[c] = "waiting" ~> told[c] # "waiting"
  /\ acting ~> ~ acting

\* A player who has a seat gets the controls back after every connection loss
\* and every restart.
ControlsReturn == seated ~> MaySend
=============================================================================
