------------------------- MODULE CommandSession_proofs -------------------------
(***************************************************************************)
(* SessionInv is inductive: requests are sent once and not yet decided,    *)
(* everything on its way to the client is true and stays so, and the ids   *)
(* of a later run or connection lie above all earlier ones.  From it the   *)
(* session implements CommandOutcome.                                      *)
(***************************************************************************)
EXTENDS CommandSession, FiniteSetTheorems, SequenceTheorems, TLAPS

Statuses == {"done", "refused"}
Decided(id, status) ==
  \E c \in Command : number[c] = id /\ id # 0 /\ verdict[c] = status

Kinds ==
  {"boot", "tactical", "refused", "acted", "failed", "lost", "slot", "receipt", "nothing"}

\* The receipts and the snapshots of the own rows that are true at present, and
\* stay so: a verdict is never changed and a seat never given up.
TrueRow == {row \in [id : Nat, status : Statuses] : Decided(row.id, row.status)}
TrueRows == [seat : {s \in BOOLEAN : s => seated}, running : BOOLEAN, receipts : SUBSET TrueRow]

TrueEvent == {e \in [kind : Kinds, id : Nat] : e.kind = "failed" => Decided(e.id, "refused")}
TrueMessage ==
  {m \in [kind : Kinds, id : Nat, rows : TrueRows] :
     m.kind = "failed" => Decided(m.id, "refused")}

\* The requests that may be under way.
SoundRequest ==
  [kind : {"boot", "tactical", "join", "act"}, id : {0}] \cup
  {m \in [kind : {"command"}, command : Command, id : Nat] :
     m.id = number[m.command] /\ m.id # 0 /\ verdict[m.command] = "none"}

\* The requests under way are sound, and none is under way twice.
RequestsSound ==
  /\ up \in [Connection -> Seq(SoundRequest)]
  /\ \A g, h \in Connection : \A i \in DOMAIN up[g], j \in DOMAIN up[h] :
       up[g][i].kind = "command" /\ up[h][j].kind = "command" /\ up[g][i].id = up[h][j].id
         => g = h /\ i = j

\* What the client has received or will receive is true.
InboxTrue ==
  /\ down \in Seq(TrueMessage) /\ events \in Seq(TrueEvent)
  /\ cache \in TrueRows /\ receipts \subseteq TrueRow

Given == {c \in Command : told[c] # "nothing"}

\* The ids of a run lie between its floor and that of the next, no id is given
\* twice, and the next one is above all that there are.
IdsRise ==
  /\ nextId > 0 /\ nextId <= SessionCommandFloor(session) + Cardinality(Given)
  /\ \A c \in Command : number[c] < nextId
  /\ \A c, d \in Command : number[c] = number[d] /\ number[c] # 0 => c = d
  /\ watermark < nextId
  /\ \A id \in terminal \cup processed : id < nextId

\* What is decided was given, and what is done is below the watermark.
DecidedBelow ==
  \A c \in Command :
    /\ told[c] = "nothing" => number[c] = 0
    /\ verdict[c] # "none" => number[c] # 0
    /\ verdict[c] = "done" => number[c] <= watermark

\* What is pending was given, is awaited and not settled yet.
PendingAwaited ==
  /\ \A id \in pending : \E c \in Command : number[c] = id /\ id # 0
  /\ \A c \in Command : number[c] \in pending => told[c] = "waiting"
  /\ pending \cap (terminal \cup processed) = {}

\* Ids are ready only for a player who is bound, over an open connection.
BoundSeated ==
  /\ open => generation \in Connection
  /\ ready => bound
  /\ bound => seated /\ open /\ subscribed

SessionInv ==
  /\ SessionTypeOK /\ RequestsSound /\ InboxTrue /\ IdsRise /\ DecidedBelow
  /\ PendingAwaited /\ BoundSeated

\* Truths stay true: verdicts are final, and so are ids and seats.
Lasting ==
  /\ \A c \in Command : number[c] # 0 => number'[c] = number[c]
  /\ \A c \in Command : verdict[c] # "none" => verdict'[c] = verdict[c]
  /\ seated => seated'

LEMMA TruthLasts ==
  ASSUME Lasting
  PROVE  /\ TrueRow \subseteq TrueRow' /\ TrueRows \subseteq TrueRows'
         /\ TrueEvent \subseteq TrueEvent' /\ TrueMessage \subseteq TrueMessage'
<1>1. \A id, status : Decided(id, status) /\ status # "none" => Decided(id, status)'
  BY DEF Lasting, Decided
<1>2. TrueRow \subseteq TrueRow'
  BY <1>1 DEF TrueRow, Statuses
<1>3. TrueRows \subseteq TrueRows'
  BY <1>2 DEF TrueRows, Lasting
<1>4. TrueEvent \subseteq TrueEvent'
  BY <1>1 DEF TrueEvent
<1>5. TrueMessage \subseteq TrueMessage'
  BY <1>1, <1>3 DEF TrueMessage
<1> QED BY <1>2, <1>3, <1>4, <1>5

LEMMA SeqLarger ==
  ASSUME NEW S, NEW T, S \subseteq T
  PROVE  Seq(S) \subseteq Seq(T)
OBVIOUS

LEMMA SeqOf ==
  ASSUME NEW S, NEW T, NEW s \in Seq(S), \A i \in DOMAIN s : s[i] \in T
  PROVE  s \in Seq(T)
<1>1. Len(s) \in Nat /\ s \in [1 .. Len(s) -> T]
  OBVIOUS
<1> QED BY <1>1

\* The floor of a run is that of the run before and a stride.
LEMMA Floors ==
  ASSUME NEW n \in Nat \ {0}
  PROVE  /\ SessionCommandFloor(n) \in Nat \ {0}
         /\ SessionCommandFloor(n + 1) = SessionCommandFloor(n) + Stride
<1>1. Stride \in Nat /\ Stride >= 1
  BY SessionAssumption
<1>2. (n + 1) * Stride = n * Stride + Stride
  BY <1>1
<1>3. n * Stride \in Nat /\ n * Stride >= Stride
  <2>1. PICK m \in Nat : n = m + 1
    <3>1. n - 1 \in Nat /\ n = (n - 1) + 1
      OBVIOUS
    <3> QED BY <3>1
  <2>2. (m + 1) * Stride = m * Stride + Stride /\ m * Stride \in Nat
    BY <1>1
  <2> QED BY <1>1, <2>1, <2>2
<1> QED BY <1>1, <1>2, <1>3 DEF SessionCommandFloor

\* The initial state satisfies the invariant.
LEMMA SessionInitInv == SessionInit => SessionInv
<1> SUFFICES ASSUME SessionInit PROVE SessionInv
  OBVIOUS
<1>1. SessionCommandFloor(1) \in Nat \ {0}
  BY Floors
<1>2. SessionTypeOK
  <2>1. {failed, open, boot, tactical, subscribed, bound, ready, acting} \subseteq BOOLEAN
    BY DEF SessionInit
  <2>2. 1 \in 1 .. MaxSessions /\ 0 \in 0 .. MaxConnections
    BY SessionAssumption
  <2> QED BY <1>1, <2>1, <2>2 DEF SessionInit, SessionTypeOK, NoMark, Tables, Answers
<1>3. InboxTrue
  <2>1. cache \in TrueRows
    BY DEF SessionInit, NoCache, TrueRows
  <2>2. \A S : <<>> \in Seq(S)
    OBVIOUS
  <2> QED BY <2>1, <2>2 DEF SessionInit, InboxTrue
<1>4. RequestsSound
  BY DEF SessionInit, RequestsSound
<1>5. IdsRise
  <2>1. Given = {}
    BY DEF SessionInit, Given
  <2>2. Cardinality(Given) = 0
    BY <2>1, FS_EmptySet
  <2> QED BY <1>1, <2>2 DEF SessionInit, IdsRise, NoMark
<1>6. DecidedBelow /\ PendingAwaited /\ BoundSeated
  BY DEF SessionInit, DecidedBelow, PendingAwaited, BoundSeated
<1> QED BY <1>2, <1>3, <1>4, <1>5, <1>6 DEF SessionInv


-----------------------------------------------------------------------------
(* The requests.                                                           *)

\* A request that is no command.
LEMMA AskSound ==
  ASSUME RequestsSound, NEW g \in Connection,
         NEW kind \in {"boot", "tactical", "join", "act"}, Request(g, Asking(kind)),
         UNCHANGED <<number, verdict>>
  PROVE  RequestsSound'
<1>1. SoundRequest' = SoundRequest
  BY DEF SoundRequest
<1>2. Asking(kind) \in SoundRequest /\ Asking(kind).kind # "command"
  BY DEF Asking, SoundRequest
<1>3. up' \in [Connection -> Seq(SoundRequest)]
  BY <1>2 DEF RequestsSound, Request
<1>4. \A h \in Connection : \A i \in DOMAIN up'[h] :
        up'[h][i].kind = "command" => i \in DOMAIN up[h] /\ up'[h][i] = up[h][i]
  BY <1>2 DEF RequestsSound, Request
<1> QED BY <1>1, <1>3, <1>4 DEF RequestsSound

\* Requests of a closed connection are lost.
LEMMA LoseSound ==
  ASSUME RequestsSound, NEW g \in Connection, up' = [up EXCEPT ![g] = <<>>],
         UNCHANGED <<number, verdict>>
  PROVE  RequestsSound'
BY DEF RequestsSound, SoundRequest

\* The first request of a connection is taken off and may be decided.
LEMMA TakeSound ==
  ASSUME RequestsSound, NEW g \in Connection, up[g] # <<>>,
         up' = [up EXCEPT ![g] = Tail(@)], UNCHANGED number,
         \A c \in Command : verdict'[c] = verdict[c]
           \/ (up[g][1].kind = "command" /\ up[g][1].command = c)
  PROVE  RequestsSound'
<1>1. up[g] \in Seq(SoundRequest) /\ Len(up[g]) >= 1
  BY DEF RequestsSound
<1>2. /\ \A h \in Connection \ {g} : up'[h] = up[h]
      /\ up'[g] = Tail(up[g]) /\ up'[g] \in Seq(SoundRequest)
      /\ DOMAIN up'[g] = 1 .. (Len(up[g]) - 1)
      /\ \A i \in DOMAIN up'[g] : i + 1 \in DOMAIN up[g] /\ up'[g][i] = up[g][i + 1]
  BY <1>1 DEF RequestsSound
<1>3. ASSUME NEW h \in Connection, NEW i \in DOMAIN up'[h]
      PROVE  up'[h][i] \in SoundRequest'
  <2>1. PICK j \in DOMAIN up[h] : /\ up'[h][i] = up[h][j] /\ (h = g => j = i + 1)
    BY <1>2, <1>3
  <2>2. up[h][j] \in SoundRequest
    BY DEF RequestsSound
  <2>3. i \in Nat /\ i >= 1
    BY <1>2, <1>3 DEF RequestsSound
  <2>4. CASE up[h][j].kind = "command"
    <3>1. CASE up[g][1].kind = "command" /\ up[g][1].command = up[h][j].command
      <4>1. up[g][1] \in SoundRequest /\ 1 \in DOMAIN up[g]
        BY <1>1
      <4>2. up[g][1].id = up[h][j].id
        BY <2>2, <2>4, <3>1, <4>1 DEF SoundRequest
      <4>3. g = h /\ j = 1
        BY <2>4, <3>1, <4>1, <4>2 DEF RequestsSound
      <4> QED BY <2>1, <2>3, <4>3
    <3>2. CASE ~ (up[g][1].kind = "command" /\ up[g][1].command = up[h][j].command)
      BY <2>1, <2>2, <2>4, <3>2 DEF SoundRequest
    <3> QED BY <3>1, <3>2
  <2>5. CASE up[h][j].kind # "command"
    BY <2>1, <2>2, <2>5 DEF SoundRequest
  <2> QED BY <2>4, <2>5
<1>4. ASSUME NEW h \in Connection PROVE up'[h] \in Seq(SoundRequest')
  <2>1. up'[h] \in Seq(SoundRequest)
    BY <1>2 DEF RequestsSound
  <2>2. \A i \in DOMAIN up'[h] : up'[h][i] \in SoundRequest'
    BY <1>3
  <2> QED BY <2>1, <2>2, SeqOf
<1>5. up' \in [Connection -> Seq(SoundRequest')]
  BY <1>4 DEF RequestsSound
<1>6. ASSUME NEW h \in Connection, NEW k \in Connection,
             NEW i \in DOMAIN up'[h], NEW j \in DOMAIN up'[k],
             up'[h][i].kind = "command", up'[k][j].kind = "command",
             up'[h][i].id = up'[k][j].id
      PROVE  h = k /\ i = j
  <2>1. i \in Nat /\ j \in Nat
    BY <1>2, <1>6 DEF RequestsSound
  <2>2. PICK m \in DOMAIN up[h] :
          up'[h][i] = up[h][m] /\ m = IF h = g THEN i + 1 ELSE i
    BY <1>2, <1>6
  <2>3. PICK n \in DOMAIN up[k] :
          up'[k][j] = up[k][n] /\ n = IF k = g THEN j + 1 ELSE j
    BY <1>2, <1>6
  <2>4. h = k /\ m = n
    BY <1>6, <2>2, <2>3 DEF RequestsSound
  <2> QED BY <2>1, <2>2, <2>3, <2>4
<1> QED BY <1>5, <1>6 DEF RequestsSound

\* A command is sent under an id that no request under way has.
LEMMA SendSound ==
  ASSUME RequestsSound, NEW g \in Connection, NEW c \in Command, NEW n \in Nat \ {0},
         Request(g, [kind |-> "command", command |-> c, id |-> n]),
         number[c] = 0, verdict[c] = "none", \A d \in Command : number[d] < n,
         number \in [Command -> Nat], number' = [number EXCEPT ![c] = n], verdict' = verdict
  PROVE  RequestsSound'
<1> DEFINE m == [kind |-> "command", command |-> c, id |-> n]
<1>1. m \in SoundRequest' /\ SoundRequest \subseteq SoundRequest'
  BY DEF SoundRequest
<1>2. ASSUME NEW h \in Connection PROVE up'[h] \in Seq(SoundRequest')
  <2>1. up[h] \in Seq(SoundRequest')
    BY <1>1, SeqLarger DEF RequestsSound
  <2> QED BY <1>1, <2>1 DEF Request, RequestsSound
<1>3. up' \in [Connection -> Seq(SoundRequest')]
  BY <1>2 DEF RequestsSound, Request
<1>4. ASSUME NEW h \in Connection, NEW i \in DOMAIN up[h], up[h][i].kind = "command"
      PROVE  up[h][i].id < n /\ up[h][i].id \in Nat
  <2>1. up[h][i] \in SoundRequest
    BY DEF RequestsSound
  <2> QED BY <1>4, <2>1 DEF SoundRequest
<1>5. \A h \in Connection : \A i \in DOMAIN up'[h] :
        \/ i \in DOMAIN up[h] /\ up'[h][i] = up[h][i]
        \/ h = g /\ i = Len(up[g]) + 1 /\ up'[h][i] = m
  BY DEF Request, RequestsSound
<1>6. m.kind = "command" /\ m.id = n
  OBVIOUS
<1> HIDE DEF m
<1>7. ASSUME NEW h \in Connection, NEW k \in Connection,
             NEW i \in DOMAIN up'[h], NEW j \in DOMAIN up'[k],
             up'[h][i].kind = "command", up'[k][j].kind = "command",
             up'[h][i].id = up'[k][j].id
      PROVE  h = k /\ i = j
  <2>1. CASE i \in DOMAIN up[h] /\ up'[h][i] = up[h][i]
             /\ j \in DOMAIN up[k] /\ up'[k][j] = up[k][j]
    BY <1>7, <2>1 DEF RequestsSound
  <2>2. CASE up'[h][i].id = n
    <3>1. \A l \in Connection : \A a \in DOMAIN up'[l] :
            up'[l][a].kind = "command" /\ up'[l][a].id = n => l = g /\ a = Len(up[g]) + 1
      <4> SUFFICES ASSUME NEW l \in Connection, NEW a \in DOMAIN up'[l],
                          up'[l][a].kind = "command", up'[l][a].id = n
                   PROVE  l = g /\ a = Len(up[g]) + 1
        OBVIOUS
      <4>1. ~ (a \in DOMAIN up[l] /\ up'[l][a] = up[l][a])
        BY <1>4
      <4> QED BY <1>5, <4>1
    <3> QED BY <1>7, <2>2, <3>1
  <2> QED BY <1>5, <1>6, <1>7, <2>1, <2>2
<1> QED BY <1>3, <1>7 DEF RequestsSound

-----------------------------------------------------------------------------
(* The server.                                                             *)

\* What is received or will be stays true when nothing new is added.
LEMMA InboxLasts ==
  ASSUME InboxTrue, Lasting, UNCHANGED receipts,
         down' \in {down, <<>>} \/ (down # <<>> /\ down' = Tail(down)),
         events' \in {events, <<>>} \/ (events # <<>> /\ events' = Tail(events)),
         cache' \in {cache, NoCache}
  PROVE  InboxTrue'
<1>1. /\ TrueRow \subseteq TrueRow' /\ TrueRows \subseteq TrueRows'
      /\ TrueEvent \subseteq TrueEvent' /\ TrueMessage \subseteq TrueMessage'
  BY TruthLasts
<1>2. NoCache \in TrueRows'
  BY DEF NoCache, TrueRows
<1>3. \A S : \A q \in Seq(S) : <<>> \in Seq(S) /\ (q # <<>> => Tail(q) \in Seq(S))
  OBVIOUS
<1>4. down' \in Seq(TrueMessage) /\ events' \in Seq(TrueEvent)
  BY <1>3 DEF InboxTrue
<1>5. down' \in Seq(TrueMessage') /\ events' \in Seq(TrueEvent')
  BY <1>1, <1>4, SeqLarger
<1> QED BY <1>1, <1>2, <1>5 DEF InboxTrue

\* A reply tells what is true after the step.
LEMMA ReplyTrue ==
  ASSUME InboxTrue, Lasting, NEW g, NEW changed \in Kinds, NEW answer \in Seq(TrueMessage'),
         Reply(g, changed, answer), changed # "failed",
         seated' \in BOOLEAN, running' \in BOOLEAN, receipts' \subseteq TrueRow',
         UNCHANGED <<events, cache>>
  PROVE  InboxTrue'
<1>1. /\ TrueRows \subseteq TrueRows'
      /\ TrueEvent \subseteq TrueEvent' /\ TrueMessage \subseteq TrueMessage'
  BY TruthLasts
<1>2. Rows \in TrueRows'
  BY DEF Rows, TrueRows
<1>3. <<Message(changed, 0)>> \in Seq(TrueMessage') /\ <<>> \in Seq(TrueMessage')
  BY <1>2 DEF Message, TrueMessage
<1>4. down \in Seq(TrueMessage') /\ events \in Seq(TrueEvent')
  BY <1>1, SeqLarger DEF InboxTrue
<1>5. down' \in Seq(TrueMessage')
  BY <1>3, <1>4 DEF Reply
<1> QED BY <1>1, <1>4, <1>5 DEF InboxTrue

\* The answers to requests.
LEMMA AnswersTrue ==
  ASSUME seated' \in BOOLEAN, running' \in BOOLEAN, receipts' \subseteq TrueRow',
         NEW kind \in Kinds, NEW id \in Nat, kind = "failed" => Decided(id, "refused")'
  PROVE  <<Message(kind, id)>> \in Seq(TrueMessage') /\ <<>> \in Seq(TrueMessage')
<1>1. Rows \in TrueRows'
  BY DEF Rows, TrueRows
<1> QED BY <1>1 DEF Message, TrueMessage

\* Serving decides nothing but the command it takes, and that once.
LEMMA ServeCommandFacts ==
  ASSUME SessionInv, NEW g \in Connection, up[g] # <<>>,
         NEW c \in Command, NEW id \in Nat,
         up[g][1].kind = "command", up[g][1].command = c, up[g][1].id = id,
         ServeCommand(g, c, id), UNCHANGED <<events, cache, number>>
  PROVE  /\ Lasting /\ InboxTrue'
         /\ id = number[c] /\ id # 0 /\ verdict[c] = "none" /\ watermark' \in Nat
         /\ watermark' \in {watermark, id} /\ watermark <= watermark'
         /\ \E status \in {"none", "done", "refused"} :
              /\ verdict' = [verdict EXCEPT ![c] = status]
              /\ status = "done" => watermark < id /\ watermark' = id
         /\ \A row \in receipts' : row.id \in (watermark' - Window) + 1 .. watermark'
<1> USE DEF SessionInv
<1>0. /\ seated \in BOOLEAN /\ running \in BOOLEAN /\ watermark \in Nat /\ id \in Nat
      /\ verdict \in [Command -> {"none", "done", "refused"}]
      /\ \A row \in receipts : row.id \in (watermark - Window) + 1 .. watermark
      /\ receipts \subseteq TrueRow /\ InboxTrue /\ Window \in Nat \ {0}
      /\ number \in [Command -> Nat]
  BY SessionAssumption DEF SessionTypeOK, InboxTrue
<1>1. id = number[c] /\ id # 0 /\ verdict[c] = "none"
  <2>1. up[g][1] \in SoundRequest
    BY DEF RequestsSound
  <2> QED BY <2>1 DEF SoundRequest
<1>2. UNCHANGED <<seated, running>> /\ seated' \in BOOLEAN /\ running' \in BOOLEAN
  BY <1>0 DEF ServeCommand
<1>a. /\ "nothing" # "failed" /\ "receipt" # "failed"
      /\ "failed" \in Kinds /\ "nothing" \in Kinds /\ "receipt" \in Kinds
  BY DEF Kinds
<1>3. CASE /\ UNCHANGED <<watermark, receipts>>
           /\ verdict' = [verdict EXCEPT ![c] = IF @ = "none" THEN "refused" ELSE @]
           /\ Reply(g, "nothing", <<Message("failed", id)>>)
  <2>1. verdict' = [verdict EXCEPT ![c] = "refused"]
    BY <1>1, <1>3
  <2>2. Lasting
    BY <1>0, <1>1, <1>2, <2>1 DEF Lasting
  <2>3. receipts' \subseteq TrueRow'
    BY <1>0, <1>3, <2>2, TruthLasts
  <2>4. Decided(id, "refused")'
    BY <1>0, <1>1, <2>1 DEF Decided
  <2>5. <<Message("failed", id)>> \in Seq(TrueMessage')
    BY <1>0, <1>2, <1>a, <2>3, <2>4, AnswersTrue
  <2>6. InboxTrue'
    BY <1>0, <1>2, <1>3, <1>a, <2>2, <2>3, <2>5, ReplyTrue
  <2> QED BY <1>0, <1>1, <1>3, <2>1, <2>2, <2>6
<1>4. CASE UNCHANGED <<watermark, receipts, verdict, down>>
  <2>1. Lasting
    BY <1>2, <1>4 DEF Lasting
  <2>2. InboxTrue'
    BY <1>0, <1>4, <2>1, InboxLasts
  <2>3. verdict' = [verdict EXCEPT ![c] = "none"]
    BY <1>0, <1>1, <1>4
  <2> QED BY <1>0, <1>1, <1>4, <2>1, <2>2, <2>3
<1>5. ASSUME ~ CommandWasSeen(id), NEW status \in {"done", "refused"},
             WriteReceipt(c, id, status), Reply(g, "receipt", <<>>)
      PROVE  /\ Lasting /\ InboxTrue' /\ watermark' = id /\ watermark < id
             /\ verdict' = [verdict EXCEPT ![c] = status]
             /\ \A row \in receipts' : row.id \in (watermark' - Window) + 1 .. watermark'
  <2>1. watermark < id
    BY <1>0, <1>1, <1>5 DEF CommandWasSeen, NoMark
  <2>2. /\ watermark' = id /\ verdict' = [verdict EXCEPT ![c] = status]
        /\ receipts' = Retained(receipts \cup {[id |-> id, status |-> status]}, id)
    BY <1>0, <1>5, <2>1 DEF WriteReceipt
  <2>3. Lasting
    BY <1>0, <1>1, <1>2, <2>2 DEF Lasting
  <2>4. Decided(id, status)'
    BY <1>0, <1>1, <2>2 DEF Decided
  <2>5. receipts' \subseteq TrueRow'
    <3>1. [id |-> id, status |-> status] \in TrueRow'
      BY <1>0, <2>4 DEF TrueRow, Statuses
    <3>2. receipts \subseteq TrueRow'
      BY <1>0, <2>3, TruthLasts
    <3> QED BY <2>2, <3>1, <3>2 DEF Retained
  <2>6. InboxTrue'
    <3>1. <<>> \in Seq(TrueMessage')
      OBVIOUS
    <3> QED BY <1>0, <1>2, <1>5, <1>a, <2>3, <2>5, <3>1, ReplyTrue
  <2>7. ASSUME NEW row \in receipts' PROVE row.id \in (watermark' - Window) + 1 .. watermark'
    <3>1. row \in receipts \/ row.id = id
      BY <2>2, <2>7 DEF Retained
    <3>2. row.id \in Nat /\ row.id <= id
      BY <1>0, <2>1, <3>1 DEF TrueRow
    <3>3. id < Window \/ row.id > id - Window
      BY <2>2, <2>7 DEF Retained
    <3> QED BY <1>0, <2>2, <3>2, <3>3
  <2> QED BY <2>1, <2>2, <2>3, <2>6, <2>7
<1> QED BY <1>0, <1>1, <1>3, <1>4, <1>5 DEF ServeCommand

\* The rest of the invariant follows if ids, links and what was told stay.
LEMMA ServerStep ==
  ASSUME SessionInv, UNCHANGED <<link, ids, dirty, turn, told>>,
         RequestsSound', InboxTrue', seated' \in BOOLEAN, running' \in BOOLEAN, seated => seated',
         verdict' \in [Command -> {"none", "done", "refused"}],
         watermark' \in Nat, watermark' < nextId, watermark <= watermark',
         \A row \in receipts' : row.id \in (watermark' - Window) + 1 .. watermark',
         \A c \in Command : verdict'[c] # verdict[c] =>
           number[c] # 0 /\ (verdict'[c] = "done" => number[c] <= watermark')
  PROVE  SessionInv'
<1> USE DEF SessionInv, link, ids
<1>1. SessionTypeOK'
  <2>1. {failed, open, boot, tactical, subscribed, bound, ready, acting}' \subseteq BOOLEAN
    BY DEF SessionTypeOK
  <2> QED BY <2>1 DEF SessionTypeOK
<1>2. IdsRise'
  <2>1. Given' = Given
    BY DEF Given
  <2> QED BY <2>1 DEF IdsRise
<1>3. DecidedBelow'
  BY DEF DecidedBelow, SessionTypeOK
<1>4. PendingAwaited' /\ BoundSeated'
  BY DEF PendingAwaited, BoundSeated
<1> QED BY <1>1, <1>2, <1>3, <1>4

\* A subscription or a lobby call changes no command.
LEMMA ServeQuiet ==
  ASSUME SessionInv, NEW g \in Connection, up[g] # <<>>, up' = [up EXCEPT ![g] = Tail(@)],
         UNCHANGED <<link, ids, inbox, turn, told, watermark, receipts, verdict>>,
         InboxTrue', seated' \in BOOLEAN, running' \in BOOLEAN, seated => seated'
  PROVE  SessionInv'
<1>1. RequestsSound'
  BY TakeSound DEF SessionInv, ids
<1> QED BY <1>1, ServerStep DEF SessionInv, IdsRise, SessionTypeOK, inbox

LEMMA ServeKeeps ==
  ASSUME SessionInv, NEW g \in Connection, Serve(g)
  PROVE  SessionInv'
<1> DEFINE m == up[g][1]
<1>0. /\ up[g] # <<>> /\ up' = [up EXCEPT ![g] = Tail(@)] /\ m \in SoundRequest
      /\ UNCHANGED <<link, ids, inbox, turn, told>> /\ UNCHANGED <<events, cache, number>>
  <2>1. up[g] \in Seq(SoundRequest)
    BY DEF SessionInv, RequestsSound
  <2> QED BY <2>1 DEF Serve, inbox, ids
<1>a. InboxTrue /\ seated \in BOOLEAN /\ running \in BOOLEAN /\ receipts \subseteq TrueRow
  BY DEF SessionInv, InboxTrue, SessionTypeOK
<1>b. "nothing" # "failed" /\ "slot" # "failed" /\ {"nothing", "slot", "acted", "refused", "boot", "tactical"} \subseteq Kinds
  BY DEF Kinds
<1>1. CASE m.kind \in {"boot", "tactical"}
  <2>1. ServeSubscription(g, m.kind)
    BY <1>0, <1>1 DEF Serve
  <2>2. Reply(g, "nothing", <<Message(m.kind, 0)>>) /\ UNCHANGED server
    BY <2>1 DEF ServeSubscription
  <2>3. /\ UNCHANGED <<seated, running, watermark, receipts, verdict>>
        /\ seated' \in BOOLEAN /\ running' \in BOOLEAN
    BY <1>a, <2>2 DEF server
  <2>4. Lasting
    BY <1>0, <2>3 DEF Lasting
  <2>5. receipts' \subseteq TrueRow'
    BY <1>a, <2>3, <2>4, TruthLasts
  <2>6. <<Message(m.kind, 0)>> \in Seq(TrueMessage')
    BY <1>1, <1>b, <2>3, <2>5, AnswersTrue
  <2>7. InboxTrue'
    BY <1>0, <1>a, <1>b, <2>2, <2>3, <2>4, <2>5, <2>6, ReplyTrue
  <2> QED BY <1>0, <2>3, <2>7, ServeQuiet
<1>2. CASE m.kind \in {"join", "act"}
  <2>1. ServeLobby(g, m.kind)
    BY <1>0, <1>2 DEF Serve
  <2>2. /\ UNCHANGED <<watermark, receipts, verdict>>
        /\ seated' \in BOOLEAN /\ running' \in BOOLEAN /\ (seated => seated')
    BY <2>1, <1>a DEF ServeLobby
  <2>3. Lasting
    BY <1>0, <2>2 DEF Lasting
  <2>4. receipts' \subseteq TrueRow'
    BY <1>a, <2>2, <2>3, TruthLasts
  <2>5. <<Message("acted", 0)>> \in Seq(TrueMessage') /\ <<Message("refused", 0)>> \in Seq(TrueMessage')
          /\ <<>> \in Seq(TrueMessage')
    BY <1>b, <2>2, <2>4, AnswersTrue
  <2>6. PICK answer \in {<<>>, <<Message("acted", 0)>>, <<Message("refused", 0)>>},
             changed \in {"slot", "nothing"} : Reply(g, changed, answer)
    BY <2>1 DEF ServeLobby
  <2>7. InboxTrue'
    BY <1>0, <1>a, <1>b, <2>2, <2>3, <2>4, <2>5, <2>6, ReplyTrue
  <2> QED BY <1>0, <2>2, <2>7, ServeQuiet
<1>3. CASE m.kind = "command"
  <2>1. ServeCommand(g, m.command, m.id) /\ m.command \in Command /\ m.id \in Nat
    BY <1>0, <1>3 DEF Serve, SoundRequest
  <2> DEFINE c == m.command
             id == m.id
  <2>2. /\ Lasting /\ InboxTrue'
        /\ id = number[c] /\ id # 0 /\ verdict[c] = "none" /\ watermark' \in Nat
        /\ watermark' \in {watermark, id} /\ watermark <= watermark'
        /\ \E status \in {"none", "done", "refused"} :
             /\ verdict' = [verdict EXCEPT ![c] = status]
             /\ status = "done" => watermark < id /\ watermark' = id
        /\ \A row \in receipts' : row.id \in (watermark' - Window) + 1 .. watermark'
    BY <1>0, <1>3, <2>1, ServeCommandFacts
  <2>3. /\ UNCHANGED <<seated, running>>
        /\ seated' \in BOOLEAN /\ running' \in BOOLEAN /\ (seated => seated')
    BY <1>a, <2>1 DEF ServeCommand
  <2>4. /\ verdict' \in [Command -> {"none", "done", "refused"}]
        /\ \A d \in Command : verdict'[d] = verdict[d] \/ d = c
        /\ verdict'[c] = "done" => number[c] <= watermark'
    <3>1. verdict \in [Command -> {"none", "done", "refused"}] /\ watermark \in Nat /\ id \in Nat
      BY <2>1 DEF SessionInv, SessionTypeOK
    <3>2. PICK status \in {"none", "done", "refused"} :
            /\ verdict' = [verdict EXCEPT ![c] = status]
            /\ status = "done" => watermark < id /\ watermark' = id
      BY <2>2
    <3>3. c \in Command
      BY <2>1
    <3> HIDE DEF c, id
    <3> QED BY <2>2, <3>1, <3>2, <3>3
  <2>5. RequestsSound'
    BY <1>0, <1>3, <2>4, TakeSound DEF SessionInv
  <2>6. watermark' < nextId
    BY <2>1, <2>2 DEF SessionInv, IdsRise
  <2> HIDE DEF c, id
  <2> QED BY <1>0, <2>2, <2>3, <2>4, <2>5, <2>6, ServerStep DEF inbox
<1> QED BY <1>0, <1>1, <1>2, <1>3 DEF SoundRequest

LEMMA LoseKeeps ==
  ASSUME SessionInv, NEW g \in Connection, Lose(g)
  PROVE  SessionInv'
<1>1. /\ up' = [up EXCEPT ![g] = <<>>]
      /\ UNCHANGED <<seated, running, watermark, receipts, verdict, down>>
      /\ UNCHANGED <<link, ids, turn, told>> /\ UNCHANGED <<number, cache, dirty, events>>
  BY DEF Lose, server, inbox, ids
<1>2. RequestsSound'
  BY <1>1, LoseSound DEF SessionInv
<1>3. InboxTrue'
  <2>1. Lasting
    BY <1>1 DEF Lasting
  <2> QED BY <1>1, <2>1, InboxLasts DEF SessionInv
<1> QED BY <1>1, <1>2, <1>3, ServerStep DEF SessionInv, SessionTypeOK, IdsRise

-----------------------------------------------------------------------------
(* The client.                                                             *)

Flags == {failed, open, boot, tactical, subscribed, bound, ready, acting}

\* A step of the client that gives no id.
LEMMA ClientStep ==
  ASSUME SessionInv, UNCHANGED <<server, number, nextId, session>>,
         RequestsSound', InboxTrue',
         generation' \in 0 .. MaxConnections, Flags' \subseteq BOOLEAN,
         dirty' \subseteq Tables, turn' \in {"send", "pump", "apply"},
         pending' \subseteq pending,
         terminal' \subseteq 0 .. nextId - 1, processed' \subseteq 0 .. nextId - 1,
         pending' \cap (terminal' \cup processed') = {},
         told' \in [Command -> {"nothing", "waiting"} \cup Answers],
         \A c \in Command : told'[c] # told[c] =>
           /\ told[c] = "waiting" /\ told'[c] \in Answers
           /\ number[c] \notin pending',
         BoundSeated'
  PROVE  SessionInv'
<1> USE DEF SessionInv
<1>0. UNCHANGED <<seated, running, watermark, receipts, verdict>>
  BY DEF server
<1>1. SessionTypeOK'
  BY <1>0 DEF SessionTypeOK, Flags
<1>2. \A c \in Command : told'[c] = "nothing" <=> told[c] = "nothing"
  BY DEF Answers
<1>3. Given' = Given
  BY <1>2 DEF Given
<1>4. IdsRise'
  <2>1. \A id \in terminal' \cup processed' : id < nextId
    BY DEF SessionTypeOK
  <2> QED BY <1>0, <1>3, <2>1 DEF IdsRise
<1>5. DecidedBelow'
  BY <1>0, <1>2 DEF DecidedBelow
<1>6. PendingAwaited'
  BY DEF PendingAwaited
<1> QED BY <1>1, <1>4, <1>5, <1>6

\* A step that leaves the commands alone.
LEMMA LinkStep ==
  ASSUME SessionInv, UNCHANGED <<server, number, nextId, session>>,
         UNCHANGED <<pending, terminal, processed, told>>,
         RequestsSound', InboxTrue',
         generation' \in 0 .. MaxConnections, Flags' \subseteq BOOLEAN,
         dirty' \subseteq Tables, turn' \in {"send", "pump", "apply"},
         BoundSeated'
  PROVE  SessionInv'
<1>1. terminal \subseteq 0 .. nextId - 1 /\ processed \subseteq 0 .. nextId - 1
  BY DEF SessionInv, SessionTypeOK, IdsRise
<1>2. pending \cap (terminal \cup processed) = {}
        /\ told \in [Command -> {"nothing", "waiting"} \cup Answers]
  BY DEF SessionInv, SessionTypeOK, PendingAwaited
<1> QED BY <1>1, <1>2, ClientStep

LEMMA SameRequests ==
  ASSUME RequestsSound, UNCHANGED <<up, number, verdict>>
  PROVE  RequestsSound'
BY DEF RequestsSound, SoundRequest

LEMMA ConnectKeeps ==
  ASSUME SessionInv, Connect
  PROVE  SessionInv'
<1> USE DEF SessionInv
<1>1. generation' \in 0 .. MaxConnections /\ generation' \in Connection
  BY SessionAssumption DEF Connect, SessionTypeOK, Connection
<1>2. UNCHANGED <<seated, running, watermark, receipts, verdict, number>>
  BY DEF Connect, server
<1>3. RequestsSound'
  <2>1. CASE Request(generation', Asking("boot"))
    BY <1>1, <1>2, <2>1, AskSound
  <2>2. CASE UNCHANGED up
    BY <1>2, <2>2, SameRequests
  <2> QED BY <2>1, <2>2 DEF Connect
<1>4. InboxTrue'
  <2>1. Lasting
    BY <1>2 DEF Lasting
  <2> QED BY <1>2, <2>1, InboxLasts DEF Connect
<1>5. Flags' \subseteq BOOLEAN
  BY DEF Connect, SessionTypeOK, Flags
<1>6. BoundSeated'
  BY <1>1, <1>2 DEF Connect, BoundSeated
<1> QED BY <1>1, <1>3, <1>4, <1>5, <1>6, LinkStep DEF Connect, SessionTypeOK

LEMMA ActKeeps ==
  ASSUME SessionInv, LobbyAction
  PROVE  SessionInv'
<1> USE DEF SessionInv
<1>2. /\ UNCHANGED <<seated, running, watermark, receipts, verdict, number>>
      /\ UNCHANGED <<nextId, pending, terminal, processed, cache, dirty, events, ready>>
  BY DEF LobbyAction, server, ids, inbox
<1>1. generation \in Connection \/ generation = 0
  BY SessionAssumption DEF SessionTypeOK, Connection
<1>3. RequestsSound'
  <2>1. CASE generation \in Connection
    BY <1>2, <2>1, AskSound DEF LobbyAction
  <2>2. CASE generation = 0
    <3>1. generation \notin DOMAIN up
      BY <2>2 DEF Connection, RequestsSound
    <3>2. up' = up
      BY <3>1 DEF LobbyAction, Request, RequestsSound
    <3> QED BY <1>2, <3>2, SameRequests
  <2> QED BY <1>1, <2>1, <2>2
<1>4. InboxTrue'
  <2>1. Lasting
    BY <1>2 DEF Lasting
  <2> QED BY <1>2, <2>1, InboxLasts DEF LobbyAction
<1>5. Flags' \subseteq BOOLEAN
  BY <1>2 DEF LobbyAction, SessionTypeOK, Flags
<1>6. BoundSeated'
  BY <1>2 DEF LobbyAction, BoundSeated
<1> QED BY <1>2, <1>3, <1>4, <1>5, <1>6, LinkStep DEF LobbyAction, SessionTypeOK

LEMMA TurnKeeps ==
  ASSUME SessionInv, EndSend \/ EndPump
  PROVE  SessionInv'
<1> USE DEF SessionInv
<1>1. UNCHANGED <<server, wire, link, ids, inbox, told>> /\ turn' \in {"pump", "apply"}
  BY DEF EndSend, EndPump
<1>2. /\ UNCHANGED <<seated, running, watermark, receipts, verdict, number>>
      /\ UNCHANGED <<nextId, pending, terminal, processed, cache, dirty, events, ready>>
      /\ UNCHANGED <<up, down>>
      /\ UNCHANGED <<session, generation, failed, open, boot, tactical, subscribed, bound, acting>>
  BY <1>1 DEF server, ids, inbox, wire, link
<1>3. RequestsSound'
  BY <1>2, SameRequests
<1>4. InboxTrue'
  <2>1. Lasting
    BY <1>2 DEF Lasting
  <2> QED BY <1>2, <2>1, InboxLasts
<1>5. Flags' \subseteq BOOLEAN
  BY <1>2 DEF SessionTypeOK, Flags
<1>6. BoundSeated'
  BY <1>2 DEF BoundSeated
<1> QED BY <1>1, <1>2, <1>3, <1>4, <1>5, <1>6, LinkStep DEF SessionTypeOK

LEMMA PumpKeeps ==
  ASSUME SessionInv, Pump
  PROVE  SessionInv'
<1> USE DEF SessionInv
<1> DEFINE m == Head(down)
           kind == m.kind
           rows == IF subscribed THEN m.rows ELSE [m.rows EXCEPT !.receipts = {}]
           more == CASE kind \in {"boot", "tactical"} -> Tables
                     [] kind = "slot" -> {"players"}
                     [] kind = "receipt" -> {"receipts"}
                     [] OTHER -> {}
<1>1. /\ cache' = rows /\ dirty' = dirty \cup more /\ down' = Tail(down) /\ down # <<>>
      /\ events' = IF kind \in {"slot", "receipt"} THEN events
                   ELSE Append(events, Event(kind, m.id))
      /\ UNCHANGED <<server, watching, link, ids, turn, told>>
  BY DEF Pump
<1>2. IF kind = "boot" THEN Request(generation, Asking("join")) ELSE UNCHANGED up
  BY DEF Pump
<1>3. m \in TrueMessage /\ Tail(down) \in Seq(TrueMessage)
  BY <1>1 DEF InboxTrue
<1>4. rows \in TrueRows
  BY <1>3 DEF TrueMessage, TrueRows
<1>5. Event(kind, m.id) \in TrueEvent
  BY <1>3 DEF TrueMessage, TrueEvent, Event
<1>6. more \subseteq Tables
  BY DEF Tables
<1> HIDE DEF rows, more, m
<1>7. /\ UNCHANGED <<seated, running, watermark, receipts, verdict, number>>
      /\ UNCHANGED <<nextId, pending, terminal, processed, ready>>
      /\ UNCHANGED <<session, generation, failed, open, boot, tactical, subscribed, bound, acting>>
  BY <1>1 DEF server, ids, link
<1>8. InboxTrue'
  <2>1. Lasting
    BY <1>7 DEF Lasting
  <2>2. /\ TrueRow \subseteq TrueRow' /\ TrueRows \subseteq TrueRows'
        /\ TrueEvent \subseteq TrueEvent' /\ TrueMessage \subseteq TrueMessage'
    BY <2>1, TruthLasts
  <2>3. events' \in Seq(TrueEvent)
    BY <1>1, <1>5 DEF InboxTrue
  <2>4. events' \in Seq(TrueEvent') /\ down' \in Seq(TrueMessage')
    BY <1>1, <1>3, <2>2, <2>3, SeqLarger
  <2> QED BY <1>1, <1>4, <1>7, <2>2, <2>4 DEF InboxTrue
<1>9. RequestsSound'
  <2>1. CASE up' = up
    BY <1>7, <2>1, SameRequests
  <2>2. CASE Request(generation, Asking("join")) /\ generation \in Connection
    BY <1>7, <2>2, AskSound
  <2>3. CASE Request(generation, Asking("join")) /\ generation \notin Connection
    <3>1. up' = up
      BY <2>3 DEF Request, RequestsSound
    <3> QED BY <1>7, <3>1, SameRequests
  <2> QED BY <1>2, <2>1, <2>2, <2>3
<1>10. Flags' \subseteq BOOLEAN
  BY <1>7 DEF SessionTypeOK, Flags
<1>11. BoundSeated'
  BY <1>7 DEF BoundSeated
<1>12. dirty' \subseteq Tables
  BY <1>1, <1>6 DEF SessionTypeOK
<1> QED BY <1>1, <1>7, <1>8, <1>9, <1>10, <1>11, <1>12, LinkStep DEF SessionTypeOK

LEMMA BreakKeeps ==
  ASSUME SessionInv, Break
  PROVE  SessionInv'
<1> USE DEF SessionInv
<1>1. /\ UNCHANGED <<seated, running, watermark, receipts, verdict, number>>
      /\ UNCHANGED <<nextId, pending, terminal, processed, cache, dirty, ready>>
      /\ UNCHANGED <<session, generation, failed, open, boot, tactical, subscribed, bound, acting>>
      /\ UNCHANGED <<up, turn, told, server>> /\ down' = <<>>
  BY DEF Break, server, ids, link
<1>2. PICK n \in 1 .. 2 : events' = events \o [i \in 1 .. n |-> Event("lost", 0)]
  BY DEF Break
<1>3. Event("lost", 0) \in TrueEvent
  BY DEF Event, TrueEvent, Kinds
<1>4. [i \in 1 .. n |-> Event("lost", 0)] \in Seq(TrueEvent)
  BY <1>3
<1>5. events' \in Seq(TrueEvent)
  BY <1>2, <1>4 DEF InboxTrue
<1>6. InboxTrue'
  <2>1. Lasting
    BY <1>1 DEF Lasting
  <2>2. /\ TrueRow \subseteq TrueRow' /\ TrueRows \subseteq TrueRows'
        /\ TrueEvent \subseteq TrueEvent' /\ TrueMessage \subseteq TrueMessage'
    BY <2>1, TruthLasts
  <2>3. events' \in Seq(TrueEvent') /\ <<>> \in Seq(TrueMessage')
    BY <1>5, <2>2, SeqLarger
  <2> QED BY <1>1, <2>2, <2>3 DEF InboxTrue
<1>7. RequestsSound'
  BY <1>1, SameRequests
<1>8. Flags' \subseteq BOOLEAN
  BY <1>1 DEF SessionTypeOK, Flags
<1>9. BoundSeated'
  BY <1>1 DEF BoundSeated
<1> QED BY <1>1, <1>6, <1>7, <1>8, <1>9, LinkStep DEF SessionTypeOK

\* One event is applied.
LEMMA ApplyKeeps ==
  ASSUME SessionInv, Apply
  PROVE  SessionInv'
<1> USE DEF SessionInv
<1> DEFINE e == Head(events)
<1>1. /\ events # <<>> /\ events' = Tail(events)
      /\ UNCHANGED <<server, watching, session, generation, actions, nextId, number, processed,
                     turn>>
  BY DEF Apply
<1>2. /\ UNCHANGED <<seated, running, watermark, receipts, verdict>>
      /\ e \in TrueEvent /\ UNCHANGED up
  BY <1>1 DEF InboxTrue, server, Apply, ApplyBoot, ApplyTactical, ApplyRefused, ApplyActed,
              ApplyFailed, ApplyLost, ApplyStale, DropLink
<1>3. RequestsSound'
  BY <1>1, <1>2, SameRequests
<1>4. Lasting
  BY <1>1, <1>2 DEF Lasting
<1>5. CASE ApplyBoot \/ ApplyTactical \/ ApplyRefused \/ ApplyActed
             \/ (\E kind : ApplyStale(kind))
  <2>1. /\ UNCHANGED <<down, cache, dirty, pending, terminal, told>>
    BY <1>5 DEF ApplyBoot, ApplyTactical, ApplyRefused, ApplyActed, ApplyStale
  <2>2. InboxTrue'
    BY <1>1, <1>2, <1>4, <2>1, InboxLasts
  <2>3. Flags' \subseteq BOOLEAN
    BY <1>5 DEF ApplyBoot, ApplyTactical, ApplyRefused, ApplyActed, ApplyStale, Flags,
                SessionTypeOK
  <2>4. BoundSeated'
    BY <1>1, <1>2, <1>5 DEF ApplyBoot, ApplyTactical, ApplyRefused, ApplyActed, ApplyStale, BoundSeated
  <2> QED BY <1>1, <1>3, <2>1, <2>2, <2>3, <2>4, LinkStep DEF SessionTypeOK
<1>6. CASE ApplyFailed(e.id) /\ e.kind = "failed"
  <2>1. /\ UNCHANGED <<down, cache, dirty>>
        /\ UNCHANGED <<failed, open, boot, tactical, subscribed, bound, acting, ready>>
        /\ terminal' = terminal \cup {e.id}
        /\ pending' = IF e.id \in terminal THEN pending ELSE pending \ {e.id}
        /\ told' = [c \in Command |-> IF number[c] = e.id /\ e.id \in pending \ terminal
                                      THEN "rejected" ELSE told[c]]
    BY <1>6 DEF ApplyFailed
  <2>2. InboxTrue'
    BY <1>1, <1>2, <1>4, <2>1, InboxLasts
  <2>3. Flags' \subseteq BOOLEAN
    BY <2>1 DEF Flags, SessionTypeOK
  <2>4. BoundSeated'
    BY <1>1, <1>2, <2>1 DEF BoundSeated
  <2>5. e.id \in 0 .. nextId - 1
    <3>1. Decided(e.id, "refused") /\ e.id \in Nat
      BY <1>2, <1>6 DEF TrueEvent
    <3> QED BY <3>1 DEF Decided, IdsRise, SessionTypeOK
  <2>6. terminal' \subseteq 0 .. nextId - 1 /\ processed' \subseteq 0 .. nextId - 1
    <3>1. terminal \subseteq 0 .. nextId - 1 /\ processed \subseteq 0 .. nextId - 1
      BY DEF SessionTypeOK, IdsRise
    <3> QED BY <1>1, <2>1, <2>5, <3>1
  <2>7. pending' \cap (terminal' \cup processed') = {} /\ pending' \subseteq pending
    BY <1>1, <2>1 DEF PendingAwaited
  <2>8. told' \in [Command -> {"nothing", "waiting"} \cup Answers]
    BY <2>1 DEF SessionTypeOK, Answers
  <2>9. \A c \in Command : told'[c] # told[c] =>
           told[c] = "waiting" /\ told'[c] \in Answers /\ number[c] \notin pending'
    BY <2>1 DEF PendingAwaited, Answers
  <2> HIDE DEF e
  <2> QED BY <1>1, <1>3, <2>1, <2>2, <2>3, <2>4, <2>6, <2>7, <2>8, <2>9, ClientStep
          DEF SessionTypeOK
<1>7. CASE ApplyLost
  <2>1. /\ failed' = TRUE /\ open' = FALSE
        /\ boot' = FALSE /\ tactical' = FALSE /\ subscribed' = FALSE
        /\ ready' = FALSE /\ acting' = FALSE /\ bound' = FALSE
        /\ dirty' = {} /\ cache' = NoCache /\ down' = <<>>
        /\ terminal' = terminal \cup pending /\ pending' = {}
        /\ told' = [c \in Command |-> IF number[c] \in pending THEN "unknown" ELSE told[c]]
    BY <1>7 DEF ApplyLost, DropLink, DropPending
  <2>2. InboxTrue'
    BY <1>1, <1>2, <1>4, <2>1, InboxLasts
  <2>3. Flags' \subseteq BOOLEAN
    BY <2>1 DEF Flags
  <2>4. BoundSeated'
    BY <2>1 DEF BoundSeated
  <2>5. pending \subseteq 0 .. nextId - 1
    BY DEF PendingAwaited, IdsRise, SessionTypeOK
  <2>6. terminal' \subseteq 0 .. nextId - 1 /\ processed' \subseteq 0 .. nextId - 1
    <3>1. terminal \subseteq 0 .. nextId - 1 /\ processed \subseteq 0 .. nextId - 1
      BY DEF SessionTypeOK, IdsRise
    <3> QED BY <1>1, <2>1, <2>5, <3>1
  <2>8. told' \in [Command -> {"nothing", "waiting"} \cup Answers]
    BY <2>1 DEF SessionTypeOK, Answers
  <2>9. \A c \in Command : told'[c] # told[c] =>
           told[c] = "waiting" /\ told'[c] \in Answers /\ number[c] \notin pending'
    BY <2>1 DEF PendingAwaited, Answers
  <2> HIDE DEF e
  <2> QED BY <1>1, <1>3, <2>1, <2>2, <2>3, <2>4, <2>6, <2>8, <2>9, ClientStep
          DEF SessionTypeOK
<1> QED BY <1>5, <1>6, <1>7 DEF Apply

\* The ids that the client knows are below the next one, so seeding keeps it.
LEMMA IdsKnown ==
  ASSUME SessionInv
  PROVE  /\ IdsOf(cache.receipts) \subseteq 0 .. nextId - 1
         /\ pending \subseteq 0 .. nextId - 1
         /\ terminal \subseteq 0 .. nextId - 1 /\ processed \subseteq 0 .. nextId - 1
         /\ \A seed \in BOOLEAN : NextId(seed) = nextId
<1> USE DEF SessionInv
<1>1. \A c \in Command : number[c] \in Nat /\ number[c] < nextId
  BY DEF SessionTypeOK, IdsRise
<1>2. pending \subseteq 0 .. nextId - 1
  BY <1>1 DEF PendingAwaited, SessionTypeOK
<1>3. terminal \subseteq 0 .. nextId - 1 /\ processed \subseteq 0 .. nextId - 1
  BY DEF IdsRise, SessionTypeOK
<1>4. IdsOf(cache.receipts) \subseteq 0 .. nextId - 1
  <2>1. \A row \in cache.receipts : row \in TrueRow
    BY DEF InboxTrue, TrueRows
  <2>2. \A row \in cache.receipts : row.id \in 0 .. nextId - 1
    <3> SUFFICES ASSUME NEW row \in cache.receipts PROVE row.id \in 0 .. nextId - 1
      OBVIOUS
    <3>1. PICK c \in Command : number[c] = row.id
      BY <2>1 DEF TrueRow, Decided
    <3> QED BY <1>1, <3>1 DEF SessionTypeOK
  <2> QED BY <2>2 DEF IdsOf
<1>5. ASSUME NEW seed \in BOOLEAN PROVE NextId(seed) = nextId
  <2> DEFINE S == IdsOf(cache.receipts) \cup IF seed THEN pending \cup terminal ELSE {}
  <2>1. \A id \in S : id < nextId
    <3>1. S \subseteq IdsOf(cache.receipts) \cup pending \cup terminal
      OBVIOUS
    <3>2. \A id \in 0 .. nextId - 1 : id < nextId
      BY DEF SessionTypeOK
    <3> HIDE DEF S
    <3> QED BY <1>2, <1>3, <1>4, <3>1, <3>2
  <2> HIDE DEF S
  <2>2. Beyond(nextId, S) = nextId
    BY <2>1 DEF Beyond
  <2> QED BY <2>2 DEF NextId, S
<1> QED BY <1>2, <1>3, <1>4, <1>5

\* The dirty tables are looked at.
LEMMA SyncKeeps ==
  ASSUME SessionInv, Sync
  PROVE  SessionInv'
<1> USE DEF SessionInv
<1>1. /\ turn' = "send" /\ dirty' = {}
      /\ UNCHANGED <<server, down, session, generation, failed, open, boot, acting, number,
                     cache, events>>
  BY DEF Sync
<1>2. UNCHANGED <<seated, running, watermark, receipts, verdict>>
  BY <1>1 DEF server
<1>3. InboxTrue'
  <2>1. Lasting
    BY <1>1, <1>2 DEF Lasting
  <2> QED BY <1>1, <1>2, <2>1, InboxLasts
<1>4. CASE UNCHANGED <<up, tactical, subscribed, bound, ready, nextId, pending, terminal,
                       processed, told>>
  <2>1. RequestsSound'
    BY <1>1, <1>2, <1>4, SameRequests
  <2>2. Flags' \subseteq BOOLEAN
    BY <1>1, <1>4 DEF SessionTypeOK, Flags
  <2>3. BoundSeated'
    BY <1>1, <1>2, <1>4 DEF BoundSeated
  <2> QED BY <1>1, <1>3, <1>4, <2>1, <2>2, <2>3, LinkStep DEF SessionTypeOK
<1>5. CASE ~ (dirty = {} \/ ~ open)
  <2> DEFINE bind == Bind
             live == tactical /\ ~ Subscribe
             still == ready /\ ~ bind
             seed == ~ still /\ boot /\ live /\ (bound \/ bind)
             past == IF seed THEN IdsOf(cache.receipts) \ pending ELSE {}
             fresh == {row \in cache.receipts : row.id \in pending \ processed}
  <2>1. /\ bound' = (bound \/ bind)
        /\ subscribed' = (subscribed \/ Subscribe)
        /\ tactical' = live
        /\ ready' = (still \/ seed)
        /\ IF Subscribe THEN Request(generation, Asking("tactical")) ELSE UNCHANGED up
    BY <1>5 DEF Sync
  <2>2. /\ nextId' = NextId(seed)
        /\ processed' = processed \cup IdsOf(cache.receipts)
        /\ pending' = pending \ IdsOf(fresh)
        /\ terminal' = terminal \cup IdsOf(cache.receipts)
        /\ told' = [c \in Command |->
                      IF told[c] = "waiting" /\ number[c] \in IdsOf(fresh)
                      THEN Answer(CHOOSE row \in fresh : row.id = number[c], terminal \cup past)
                      ELSE told[c]]
    BY <1>5 DEF Sync
  <2>3. RequestsSound'
    <3>1. CASE up' = up
      BY <1>1, <1>2, <3>1, SameRequests
    <3>2. CASE Request(generation, Asking("tactical")) /\ generation \in Connection
      BY <1>1, <1>2, <3>2, AskSound
    <3>3. CASE Request(generation, Asking("tactical")) /\ generation \notin Connection
      <4>1. up' = up
        BY <3>3 DEF Request, RequestsSound
      <4> QED BY <1>1, <1>2, <4>1, SameRequests
    <3> QED BY <2>1, <3>1, <3>2, <3>3
  <2>4. Flags' \subseteq BOOLEAN
    BY <1>1, <2>1 DEF Flags, SessionTypeOK
  <2>5. BoundSeated'
    <3>1. Bind => seated
      BY DEF Bind, InboxTrue, TrueRows
    <3>2. open'
      BY <1>1, <1>5
    <3> QED BY <1>1, <1>2, <2>1, <3>1, <3>2 DEF BoundSeated, Subscribe
  <2>6. nextId' = nextId
    BY <2>2, IdsKnown
  <2>7. terminal' \subseteq 0 .. nextId - 1 /\ processed' \subseteq 0 .. nextId - 1
    BY <2>2, IdsKnown
  <2>8. IdsOf(fresh) = IdsOf(cache.receipts) \cap pending
    BY DEF IdsOf, PendingAwaited
  <2>9. pending' \cap (terminal' \cup processed') = {} /\ pending' \subseteq pending
    BY <2>2, <2>8 DEF PendingAwaited
  <2>10. \A row, ended : Answer(row, ended) \in Answers
    BY DEF Answer, Answers
  <2>11. told' \in [Command -> {"nothing", "waiting"} \cup Answers]
    BY <2>2, <2>10 DEF SessionTypeOK
  <2>12. \A c \in Command : told'[c] # told[c] =>
           told[c] = "waiting" /\ told'[c] \in Answers /\ number[c] \notin pending'
    BY <2>2, <2>10
  <2> HIDE DEF bind, live, still, seed, past, fresh
  <2> QED BY <1>1, <1>3, <2>3, <2>4, <2>5, <2>6, <2>7, <2>9, <2>11, <2>12, ClientStep
          DEF SessionTypeOK
<1> QED BY <1>4, <1>5 DEF Sync

-----------------------------------------------------------------------------
(* New ids.                                                                *)

LEMMA SendKeeps ==
  ASSUME SessionInv, NEW c \in Command, SendCommand(c)
  PROVE  SessionInv'
<1> USE DEF SessionInv
<1>1. /\ told[c] = "nothing" /\ nextId' = nextId + 1
      /\ UNCHANGED <<server, watching, down, link, ready, processed, inbox, turn>>
  BY DEF SendCommand
<1>2. /\ UNCHANGED <<seated, running, watermark, receipts, verdict>>
      /\ UNCHANGED <<session, generation, failed, open, boot, tactical, subscribed, bound, acting>>
      /\ UNCHANGED <<cache, dirty, events>>
  BY <1>1 DEF server, link, inbox
<1>3. /\ nextId \in Nat /\ number \in [Command -> Nat] /\ nextId > 0
      /\ told \in [Command -> {"nothing", "waiting"} \cup Answers]
      /\ number[c] = 0 /\ verdict[c] = "none" /\ c \notin Given
      /\ \A d \in Command : number[d] < nextId
  BY <1>1 DEF SessionTypeOK, IdsRise, DecidedBelow, Given
<1>4. /\ told' \in [Command -> {"nothing", "waiting"} \cup Answers]
      /\ \A d \in Command \ {c} : told'[d] = told[d]
      /\ told'[c] \in {"waiting", "rejected"}
      /\ number' = number \/ number' = [number EXCEPT ![c] = nextId]
  BY <1>3 DEF SendCommand, Answers
<1>5. /\ number' \in [Command -> Nat]
      /\ \A d \in Command \ {c} : number'[d] = number[d]
      /\ number'[c] \in {0, nextId}
  BY <1>3, <1>4
<1>6. Given' = Given \cup {c}
  BY <1>3, <1>4 DEF Given
<1>7. Cardinality(Given') = Cardinality(Given) + 1 /\ Cardinality(Given) \in Nat
  <2>1. IsFiniteSet(Given)
    BY SessionAssumption, FS_Subset DEF Given
  <2> QED BY <1>3, <1>6, <2>1, FS_AddElement, FS_CardinalityType
<1>8. SessionCommandFloor(session) \in Nat
  BY SessionAssumption, Floors DEF SessionTypeOK
<1>9. pending' \subseteq pending \cup {nextId} /\ terminal' \subseteq terminal \cup {nextId}
        /\ (nextId \in pending' => number'[c] = nextId /\ told'[c] = "waiting" /\ terminal' = terminal)
  <2>1. nextId \notin pending
    BY IdsKnown, <1>3
  <2> QED BY <2>1, <1>3 DEF SendCommand
<1>10. SessionTypeOK'
  <2>1. {failed, open, boot, tactical, subscribed, bound, ready, acting}' \subseteq BOOLEAN
    BY <1>1, <1>2 DEF SessionTypeOK
  <2>2. pending' \subseteq Nat /\ terminal' \subseteq Nat /\ nextId' \in Nat
    BY <1>1, <1>3, <1>9 DEF SessionTypeOK
  <2> QED BY <1>1, <1>2, <1>4, <1>5, <2>1, <2>2 DEF SessionTypeOK
<1>11. IdsRise'
  <2>1. nextId' <= SessionCommandFloor(session') + Cardinality(Given')
    BY <1>1, <1>2, <1>3, <1>7, <1>8 DEF IdsRise
  <2>2. \A d \in Command : number'[d] < nextId'
    BY <1>1, <1>3, <1>5
  <2>3. \A a, b \in Command : number'[a] = number'[b] /\ number'[a] # 0 => a = b
    BY <1>3, <1>5 DEF IdsRise
  <2>4. watermark' < nextId'
    BY <1>1, <1>2, <1>3 DEF IdsRise, SessionTypeOK
  <2>5. \A id \in terminal' \cup processed' : id < nextId'
    BY <1>1, <1>3, <1>9, IdsKnown
  <2> QED BY <1>1, <1>3, <2>1, <2>2, <2>3, <2>4, <2>5 DEF IdsRise
<1>12. DecidedBelow'
  BY <1>2, <1>3, <1>4, <1>5 DEF DecidedBelow
<1>13. PendingAwaited'
  <2>1. \A id \in pending' : \E d \in Command : number'[d] = id /\ id # 0
    BY <1>3, <1>5, <1>9 DEF PendingAwaited
  <2>2. \A d \in Command : number'[d] \in pending' => told'[d] = "waiting"
    <3>1. 0 \notin pending' /\ nextId \notin pending
      BY <1>3, <1>9, IdsKnown DEF PendingAwaited
    <3> QED BY <1>3, <1>4, <1>5, <1>9, <3>1 DEF PendingAwaited
  <2>3. pending' \cap (terminal' \cup processed') = {}
    BY <1>1, <1>3, <1>9, IdsKnown DEF PendingAwaited
  <2> QED BY <2>1, <2>2, <2>3 DEF PendingAwaited
<1>14. BoundSeated'
  BY <1>1, <1>2 DEF BoundSeated
<1>15. InboxTrue'
  <2>1. Lasting
    BY <1>2, <1>3, <1>5 DEF Lasting
  <2> QED BY <1>1, <1>2, <2>1, InboxLasts
<1>16. RequestsSound'
  <2>1. CASE UNCHANGED <<number, up>>
    BY <1>2, <2>1, SameRequests
  <2>2. CASE /\ number' = [number EXCEPT ![c] = nextId]
             /\ Request(generation, [kind |-> "command", command |-> c, id |-> nextId])
    <3>1. generation \in Connection
      BY DEF SendCommand, MaySend, CommandsReady, BoundSeated
    <3>2. nextId \in Nat \ {0}
      BY <1>3
    <3>3. verdict' = verdict /\ RequestsSound
      BY <1>2
    <3> QED BY <1>3, <2>2, <3>1, <3>2, <3>3, SendSound
  <2> QED BY <2>1, <2>2 DEF SendCommand
<1> QED BY <1>10, <1>11, <1>12, <1>13, <1>14, <1>15, <1>16

\* A run starts above all ids of the runs before it.
LEMMA RestartKeeps ==
  ASSUME SessionInv, Restart
  PROVE  SessionInv'
<1> USE DEF SessionInv
<1>1. /\ session < MaxSessions /\ session' = session + 1
      /\ nextId' = SessionCommandFloor(session')
      /\ open' = FALSE /\ failed' = FALSE
      /\ boot' = FALSE /\ tactical' = FALSE /\ subscribed' = FALSE /\ bound' = FALSE
      /\ ready' = FALSE /\ acting' = FALSE
      /\ pending' = {} /\ terminal' = {} /\ processed' = {}
      /\ down' = <<>> /\ cache' = NoCache /\ dirty' = {} /\ events' = <<>>
      /\ turn' = "send"
      /\ told' = [c \in Command |-> IF told[c] = "waiting" THEN "unknown" ELSE told[c]]
      /\ UNCHANGED <<server, up, generation, number>>
  BY DEF Restart
<1>2. UNCHANGED <<seated, running, watermark, receipts, verdict>>
  BY <1>1 DEF server
<1>3. session \in Nat \ {0} /\ session + 1 \in 1 .. MaxSessions /\ MaxSessions \in Nat
  BY <1>1, SessionAssumption DEF SessionTypeOK
<1>4. /\ SessionCommandFloor(session) \in Nat
      /\ SessionCommandFloor(session') \in Nat \ {0}
      /\ SessionCommandFloor(session') = SessionCommandFloor(session) + Stride
  <2>1. session' = session + 1 /\ session' \in Nat \ {0}
    BY <1>1, <1>3
  <2>2. SessionCommandFloor(session') \in Nat \ {0}
    BY <2>1, Floors
  <2>3. /\ SessionCommandFloor(session) \in Nat
        /\ SessionCommandFloor(session + 1) = SessionCommandFloor(session) + Stride
    BY <1>3, Floors
  <2> QED BY <2>1, <2>2, <2>3
<1>5. IsFiniteSet(Given) /\ Cardinality(Given) \in Nat /\ Cardinality(Given) <= Cardinality(Command)
        /\ Cardinality(Command) \in Nat
  BY SessionAssumption, FS_Subset, FS_CardinalityType DEF Given
<1>6. nextId < nextId'
  BY <1>1, <1>4, <1>5, SessionAssumption DEF IdsRise, SessionTypeOK
<1>7. \A c \in Command : told'[c] = "nothing" <=> told[c] = "nothing"
  BY <1>1
<1>8. Given' = Given
  BY <1>7 DEF Given
<1>9. IdsRise'
  BY <1>1, <1>2, <1>4, <1>5, <1>6, <1>8 DEF IdsRise, SessionTypeOK
<1>10. SessionTypeOK'
  <2>1. {failed, open, boot, tactical, subscribed, bound, ready, acting}' \subseteq BOOLEAN
    BY <1>1
  <2>2. told' \in [Command -> {"nothing", "waiting"} \cup Answers]
    BY <1>1 DEF SessionTypeOK, Answers
  <2> QED BY <1>1, <1>2, <1>3, <1>4, <2>1, <2>2 DEF SessionTypeOK
<1>11. DecidedBelow' /\ PendingAwaited' /\ BoundSeated'
  BY <1>1, <1>2, <1>7 DEF DecidedBelow, PendingAwaited, BoundSeated
<1>12. RequestsSound'
  BY <1>1, <1>2, SameRequests
<1>13. InboxTrue'
  <2>1. Lasting
    BY <1>1, <1>2 DEF Lasting
  <2> QED BY <1>1, <1>2, <2>1, InboxLasts
<1> QED BY <1>9, <1>10, <1>11, <1>12, <1>13

LEMMA SessionStutters ==
  ASSUME SessionInv, UNCHANGED vars
  PROVE  SessionInv'
<1> USE DEF SessionInv, vars, server, wire, link, ids, inbox
<1>1. RequestsSound'
  BY SameRequests
<1>2. InboxTrue'
  <2>1. Lasting
    BY DEF Lasting
  <2> QED BY <2>1, InboxLasts
<1>3. Flags' \subseteq BOOLEAN
  BY DEF SessionTypeOK, Flags
<1>4. BoundSeated'
  BY DEF BoundSeated
<1> QED BY <1>1, <1>2, <1>3, <1>4, LinkStep DEF SessionTypeOK

LEMMA SessionNextInv == SessionInv /\ [SessionNext]_vars => SessionInv'
<1> SUFFICES ASSUME SessionInv, [SessionNext]_vars PROVE SessionInv'
  OBVIOUS
<1>1. ASSUME SessionNext PROVE SessionInv'
  BY <1>1, ServeKeeps, LoseKeeps, ConnectKeeps, SendKeeps, ActKeeps, TurnKeeps, PumpKeeps,
     ApplyKeeps, SyncKeeps, BreakKeeps, RestartKeeps DEF SessionNext, Frame
<1> QED BY <1>1, SessionStutters

\* The ids of a run are above those of the runs before it, what is under way is
\* sent once and undecided, and what the client has or will receive is true: in
\* every reachable state, for any number of commands, connections and runs.
THEOREM SessionSound == SessionSpec => []SessionInv
BY SessionInitInv, SessionNextInv, PTL DEF SessionSpec

\* When commands can be sent the next id is above all that the server has seen
\* or will still get, from this connection or an older one, from this run or an
\* older one.
THEOREM IdsAreFresh == SessionSpec => []FreshIds
<1>1. SessionInv => FreshIds
  BY DEF SessionInv, FreshIds, BoundSeated, MaySend, CommandsReady, IdsRise
<1> QED BY <1>1, SessionSound, PTL

-----------------------------------------------------------------------------
(* Every step is a step of CommandOutcome or changes nothing there.        *)

\* The server decides the command it takes, in the order of giving.
LEMMA ServeDecides ==
  ASSUME SessionInv, NEW g \in Connection, Serve(g)
  PROVE  [Outcome!OutcomeNext]_(Outcome!outcome)
<1> USE DEF SessionInv
<1> DEFINE m == up[g][1]
           c == m.command
<1>0. /\ up[g] # <<>> /\ m \in SoundRequest
      /\ UNCHANGED <<link, ids, inbox, turn, told>>
      /\ UNCHANGED <<events, cache, number, told>>
  <2>1. up[g] \in Seq(SoundRequest)
    BY DEF RequestsSound
  <2> QED BY <2>1 DEF Serve, inbox, ids
<1>1. CASE m.kind # "command"
  <2>1. ServeSubscription(g, m.kind) \/ ServeLobby(g, m.kind)
    BY <1>0, <1>1 DEF Serve, SoundRequest
  <2>2. verdict' = verdict
    BY <2>1 DEF ServeSubscription, ServeLobby, server
  <2> QED BY <1>0, <2>2 DEF Outcome!outcome
<1>2. CASE m.kind = "command"
  <2>1. ServeCommand(g, c, m.id) /\ c \in Command /\ m.id \in Nat
    BY <1>0, <1>2 DEF Serve, SoundRequest
  <2>2. /\ m.id = number[c] /\ m.id # 0 /\ verdict[c] = "none"
        /\ \E status \in {"none", "done", "refused"} :
             /\ verdict' = [verdict EXCEPT ![c] = status]
             /\ status = "done" => watermark < m.id /\ watermark' = m.id
    BY <1>0, <1>2, <2>1, ServeCommandFacts
  <2>3. PICK status \in {"none", "done", "refused"} :
          /\ verdict' = [verdict EXCEPT ![c] = status]
          /\ status = "done" => watermark < m.id /\ watermark' = m.id
    BY <2>2
  <2>4. CASE status = "none"
    <3>1. verdict' = verdict
      BY <2>2, <2>3, <2>4 DEF SessionTypeOK
    <3> QED BY <1>0, <3>1 DEF Outcome!outcome
  <2>5. CASE status \in {"done", "refused"}
    <3>1. status = "done" => \A d \in Command : number[d] > number[c] => verdict[d] # "done"
      BY <2>1, <2>2, <2>3 DEF DecidedBelow, SessionTypeOK
    <3>2. Outcome!Decide(c, status)
      BY <1>0, <2>2, <2>3, <3>1 DEF Outcome!Decide
    <3> QED BY <2>1, <2>5, <3>2 DEF Outcome!OutcomeNext
  <2> QED BY <2>4, <2>5
<1> QED BY <1>1, <1>2

\* What the player is told about waiting commands is true.
LEMMA Reported ==
  ASSUME SessionInv, UNCHANGED <<number, verdict>>,
         told' \in [Command -> {"nothing", "waiting"} \cup Answers],
         \A c \in Command : told'[c] # told[c] =>
           /\ told[c] = "waiting" /\ told'[c] \in Answers
           /\ told'[c] = "accepted" => verdict[c] = "done"
           /\ told'[c] = "rejected" => verdict[c] = "refused"
  PROVE  Outcome!OutcomeNext
<1>1. DOMAIN Outcome!Truth = Answers
  BY DEF Outcome!Truth, Answers
<1>2. ASSUME NEW c \in Command, told'[c] # told[c]
      PROVE  /\ told[c] = "waiting" /\ told'[c] \in DOMAIN Outcome!Truth
             /\ verdict[c] \in Outcome!Truth[told'[c]]
  <2>1. verdict[c] \in {"none", "done", "refused"}
    BY DEF SessionInv, SessionTypeOK
  <2> QED BY <1>1, <1>2, <2>1 DEF Outcome!Truth, Answers
<1>3. Outcome!Report
  BY <1>1, <1>2 DEF Outcome!Report
<1> QED BY <1>3 DEF Outcome!OutcomeNext

\* An id belongs to one command.
LEMMA DecidedOnce ==
  ASSUME SessionInv, NEW c \in Command, NEW status, Decided(number[c], status)
  PROVE  verdict[c] = status
BY DEF SessionInv, IdsRise, Decided

LEMMA SendAsks ==
  ASSUME SessionInv, NEW c \in Command, SendCommand(c)
  PROVE  Outcome!OutcomeNext
<1>1. /\ told[c] = "nothing" /\ verdict' = verdict
      /\ nextId \in Nat /\ number \in [Command -> Nat]
      /\ \A d \in Command : number[d] < nextId
  BY DEF SendCommand, server, SessionInv, SessionTypeOK, IdsRise
<1>2. CASE number' = [number EXCEPT ![c] = nextId] /\ told' = [told EXCEPT ![c] = "waiting"]
  <2>1. number'[c] = nextId
    BY <1>1, <1>2
  <2>2. Outcome!Ask(c)
    BY <1>1, <1>2, <2>1 DEF Outcome!Ask
  <2> QED BY <2>2 DEF Outcome!OutcomeNext
<1>3. CASE number' = number /\ told' = [told EXCEPT ![c] = "rejected"]
  <2>1. Outcome!Refuse(c)
    BY <1>1, <1>3 DEF Outcome!Refuse
  <2> QED BY <2>1 DEF Outcome!OutcomeNext
<1> QED BY <1>2, <1>3 DEF SendCommand

LEMMA ApplyReports ==
  ASSUME SessionInv, Apply
  PROVE  [Outcome!OutcomeNext]_(Outcome!outcome)
<1> USE DEF SessionInv
<1> DEFINE e == Head(events)
<1>1. /\ events # <<>> /\ UNCHANGED <<number, verdict>> /\ e \in TrueEvent
      /\ told \in [Command -> {"nothing", "waiting"} \cup Answers]
  BY DEF Apply, server, InboxTrue, SessionTypeOK
<1>2. CASE told' = told
  BY <1>1, <1>2 DEF Outcome!outcome
<1>3. CASE ApplyFailed(e.id) /\ e.kind = "failed"
  <2>1. told' = [c \in Command |-> IF number[c] = e.id /\ e.id \in pending \ terminal
                                   THEN "rejected" ELSE told[c]]
    BY <1>3 DEF ApplyFailed
  <2>2. Decided(e.id, "refused")
    BY <1>1, <1>3 DEF TrueEvent
  <2>3. \A c \in Command : number[c] = e.id => verdict[c] = "refused"
    BY <2>2, DecidedOnce
  <2>4. \A c \in Command : told'[c] # told[c] =>
          /\ told[c] = "waiting" /\ told'[c] = "rejected" /\ verdict[c] = "refused"
    BY <2>1, <2>3 DEF PendingAwaited
  <2>5. told' \in [Command -> {"nothing", "waiting"} \cup Answers]
    BY <1>1, <2>1 DEF Answers
  <2> HIDE DEF e
  <2> QED BY <1>1, <2>4, <2>5, Reported DEF Answers
<1>4. CASE ApplyLost
  <2>1. told' = [c \in Command |-> IF number[c] \in pending THEN "unknown" ELSE told[c]]
    BY <1>4 DEF ApplyLost, DropPending
  <2>2. \A c \in Command : told'[c] # told[c] =>
          told[c] = "waiting" /\ told'[c] = "unknown"
    BY <2>1 DEF PendingAwaited
  <2>3. told' \in [Command -> {"nothing", "waiting"} \cup Answers]
    BY <1>1, <2>1 DEF Answers
  <2> QED BY <1>1, <2>2, <2>3, Reported DEF Answers
<1> QED BY <1>2, <1>3, <1>4
        DEF Apply, ApplyBoot, ApplyTactical, ApplyRefused, ApplyActed, ApplyStale

LEMMA SyncReports ==
  ASSUME SessionInv, Sync
  PROVE  [Outcome!OutcomeNext]_(Outcome!outcome)
<1> USE DEF SessionInv
<1>1. UNCHANGED <<number, verdict>> /\ told \in [Command -> {"nothing", "waiting"} \cup Answers]
  BY DEF Sync, server, SessionTypeOK
<1>2. CASE told' = told
  BY <1>1, <1>2 DEF Outcome!outcome
<1>3. CASE ~ (dirty = {} \/ ~ open)
  <2> DEFINE live == tactical /\ ~ Subscribe
             seed == ~ (ready /\ ~ Bind) /\ boot /\ live /\ (bound \/ Bind)
             past == IF seed THEN IdsOf(cache.receipts) \ pending ELSE {}
             fresh == {row \in cache.receipts : row.id \in pending \ processed}
             ended == terminal \cup past
  <2>1. told' = [c \in Command |->
                   IF told[c] = "waiting" /\ number[c] \in IdsOf(fresh)
                   THEN Answer(CHOOSE row \in fresh : row.id = number[c], ended)
                   ELSE told[c]]
    BY <1>3 DEF Sync
  <2>2. \A row \in fresh : row.id \in pending /\ row.id \notin ended /\ row \in TrueRow
    BY DEF PendingAwaited, InboxTrue, TrueRows
  <2> HIDE DEF live, seed, past, fresh, ended
  <2>3. ASSUME NEW c \in Command, told'[c] # told[c]
        PROVE  /\ told[c] = "waiting" /\ told'[c] \in Answers
               /\ told'[c] = "accepted" => verdict[c] = "done"
               /\ told'[c] = "rejected" => verdict[c] = "refused"
    <3>1. told[c] = "waiting" /\ number[c] \in IdsOf(fresh)
      BY <2>1, <2>3
    <3> DEFINE row == CHOOSE row \in fresh : row.id = number[c]
    <3>2. row \in fresh /\ row.id = number[c]
      BY <3>1 DEF IdsOf
    <3>3. told'[c] = Answer(row, ended)
      BY <2>1, <3>1
    <3> HIDE DEF row
    <3>4. verdict[c] = row.status /\ row.status \in {"done", "refused"} /\ row.id \notin ended
      BY <2>2, <3>2, DecidedOnce DEF TrueRow, Statuses
    <3> QED BY <3>1, <3>3, <3>4 DEF Answer, Answers
  <2>4. \A row, S : Answer(row, S) \in Answers
    BY DEF Answer, Answers
  <2>5. told' \in [Command -> {"nothing", "waiting"} \cup Answers]
    BY <1>1, <2>1, <2>4
  <2> QED BY <1>1, <2>3, <2>5, Reported
<1> QED BY <1>2, <1>3 DEF Sync

LEMMA RestartReports ==
  ASSUME SessionInv, Restart
  PROVE  [Outcome!OutcomeNext]_(Outcome!outcome)
<1>1. /\ UNCHANGED <<number, verdict>> /\ told \in [Command -> {"nothing", "waiting"} \cup Answers]
      /\ told' = [c \in Command |-> IF told[c] = "waiting" THEN "unknown" ELSE told[c]]
  BY DEF Restart, server, SessionInv, SessionTypeOK
<1>2. \A c \in Command : told'[c] # told[c] => told[c] = "waiting" /\ told'[c] = "unknown"
  BY <1>1
<1>3. told' \in [Command -> {"nothing", "waiting"} \cup Answers]
  BY <1>1 DEF Answers
<1> QED BY <1>1, <1>2, <1>3, Reported DEF Answers

\* The client and the server together keep the promise of CommandOutcome: a
\* command takes effect at most once and in the order of giving, and what the
\* player is told of it is true, with any number of commands, connections,
\* restarts, and requests that arrive late or never.
THEOREM OutcomesAreTrue == SessionSpec => TrueOutcomes
<1>1. SessionInit => Outcome!OutcomeInit
  BY DEF SessionInit, Outcome!OutcomeInit
<1>2. SessionInv /\ [SessionNext]_vars => [Outcome!OutcomeNext]_(Outcome!outcome)
  <2> SUFFICES ASSUME SessionInv, [SessionNext]_vars
               PROVE  [Outcome!OutcomeNext]_(Outcome!outcome)
    OBVIOUS
  <2>1. CASE UNCHANGED vars
    BY <2>1 DEF vars, server, ids, Outcome!outcome
  <2>2. ASSUME NEW g \in Connection, Lose(g) PROVE UNCHANGED Outcome!outcome
    BY <2>2 DEF Lose, server, ids, Outcome!outcome
  <2>3. ASSUME Connect \/ LobbyAction \/ EndSend \/ Pump \/ EndPump \/ Break
        PROVE  UNCHANGED Outcome!outcome
    BY <2>3 DEF Connect, LobbyAction, EndSend, Pump, EndPump, Break, server, ids,
                Outcome!outcome
  <2> QED BY <2>1, <2>2, <2>3, ServeDecides, SendAsks, ApplyReports, SyncReports, RestartReports
          DEF SessionNext, Frame
<1> QED BY <1>1, <1>2, SessionSound, PTL DEF SessionSpec, TrueOutcomes, Outcome!OutcomeSpec
=============================================================================
