----------------------------- MODULE Orchestrator -----------------------------
(***************************************************************************)
(* The serverless function deployment/vercel/api/lobbies.mjs between the   *)
(* browsers, the lobby database and the match databases.  Each request is  *)
(* a process of its own; one step is one upstream call with its answer, so *)
(* requests interleave at every await.  What a request remembers between   *)
(* two calls (the listing it read) may be stale when it is used.           *)
(*                                                                         *)
(* The match database of lobby l is called of-match-l; here it is l.  Of a *)
(* match only the seats, the phase and who configured it are kept          *)
(* (MatchLobby has the rest).  Anybody may connect to it and configure it  *)
(* first: configure_match looks at no token.                               *)
(***************************************************************************)
EXTENDS LobbyDirectory

CONSTANTS
  Request,   \* bound: the requests that are made
  Service,   \* the identity of the function's own token
  Strangers, \* whether others configure a published match as well
  Faults,    \* whether calls fail, answers get lost and requests are cut off
  Retries    \* whether a browser may send a create again with the same id

ASSUME OrchestratorAssumption ==
  /\ Database = LobbyId
  /\ Request \subseteq Nat
  /\ Service \notin Identity \cup {NoOne}
  /\ {Strangers, Faults, Retries} \subseteq BOOLEAN

VARIABLES
  request,   \* the requests: who asks for what, the next call, what it read
  match,     \* the match databases on the server
  assigned   \* <<identity, lobby>>: the browsers that were told the database

vars == <<directory, request, match, assigned>>

NewRequest == [action |-> "none", who |-> NoOne, lobbyId |-> NoDb, playerCount |-> 0,
               call |-> "none", captured |-> NoDb]
NoMatch == [published |-> FALSE, playerCount |-> 0, configurator |-> NoOne,
            seated |-> {}, phase |-> "Lobby"]
\* init sets up two players, and the lobby is not locked.
FreshMatch == [NoMatch EXCEPT !.published = TRUE, !.playerCount = 2]

Init ==
  /\ DirectoryInit
  /\ request = [r \in Request |-> NewRequest]
  /\ match = [l \in LobbyId |-> NoMatch]
  /\ assigned = {}

\* Lobby ids of creates that were sent.
Sent == {request[r].lobbyId : r \in {r \in Request : request[r].action = "create"}}

\* A browser sends a request.  It makes up a new lobby id for every create.
Send(r, action, i, l, n, call) ==
  /\ request[r].action = "none"
  /\ \A q \in Request : q < r => request[q].action # "none"
  /\ request' = [request EXCEPT ![r] =
                   [action |-> action, who |-> i, lobbyId |-> l, playerCount |-> n,
                    call |-> call, captured |-> NoDb]]
  /\ UNCHANGED <<directory, match, assigned>>

SendCreate(r, i, l, n) ==
  /\ Retries \/ l \notin Sent
  /\ Send(r, "create", i, l, n, "create_lobby")
SendJoin(r, i, l) == l \in Sent /\ Send(r, "join", i, l, 0, "join_lobby")
SendLeave(r, i, l) == l \in Sent /\ Send(r, "leave", i, l, 0, "list_before_leave")

-----------------------------------------------------------------------------
(* The calls of a request.                                                 *)

Goto(r, call) == request' = [request EXCEPT ![r].call = call]

\* An upstream call that the server takes under the condition may, and that
\* then does effect.  An error, from the server or from the network, takes
\* the request to the call err; the network may also lose the answer.
Upstream(r, may, effect, ok, err) ==
  \/ may /\ effect /\ Goto(r, ok)
  \/ may /\ Faults /\ effect /\ Goto(r, err)
  \/ (Faults \/ ~ may) /\ UNCHANGED <<directory, match, assigned>> /\ Goto(r, err)

Directory(effect) == effect /\ UNCHANGED <<match, assigned>>
Server(effect) == effect /\ UNCHANGED <<directory, assigned>>
At(r, call) == request[r].call = call
L(r) == request[r].lobbyId
I(r) == request[r].who

CallCreate(r) ==
  /\ At(r, "create_lobby")
  /\ Upstream(r, MayCreate(I(r), L(r), request[r].playerCount),
              Directory(CreateLobby(I(r), L(r), request[r].playerCount)),
              "list_created", "done")

\* The listing decides whether to provision, and for how many players.
ListCreated(r) ==
  /\ At(r, "list_created")
  /\ request' = [request EXCEPT
                   ![r].playerCount = lobby[L(r)].playerCount,
                   ![r].call = IF ~ Exists(L(r)) THEN "done"
                               ELSE IF lobby[L(r)].matchDatabase = NoDb
                               THEN "begin_provision" ELSE "list_assigned"]
  /\ UNCHANGED <<directory, match, assigned>>

\* begin_provision is called outside of the try: its error ends the request.
CallBegin(r) ==
  /\ At(r, "begin_provision")
  /\ Upstream(r, MayBegin(L(r)), Directory(BeginProvision(L(r))), "publish", "done")

\* PUT with clear=false: a new database runs init, an old one is updated.
Publish(l) ==
  match' = [match EXCEPT ![l] = IF match[l].published THEN @ ELSE FreshMatch]
CallPublish(r) ==
  /\ At(r, "publish")
  /\ Upstream(r, TRUE, Server(Publish(L(r))), "configure_match", "fail_provision")

\* validate_lobby_configuration, in its order: the phase and the seats, then who
\* configured first.
Vacant(l) == match[l].published /\ match[l].phase = "Lobby" /\ match[l].seated = {}
MayConfigure(i, l) == Vacant(l) /\ match[l].configurator \in {NoOne, i}
Configure(i, l, n) ==
  match' = [match EXCEPT ![l].playerCount = n, ![l].configurator = i]

\* Mutant: the provisioning ends with the configuration.
CallConfigure_Returns(r) ==
  /\ At(r, "configure_match")
  /\ Upstream(r, Vacant(L(r)),
              Server(IF MayConfigure(Service, L(r))
                     THEN Configure(Service, L(r), request[r].playerCount)
                     ELSE UNCHANGED match),
              "list_assigned", "fail_provision")
\* Mutant: whatever configure_match answers, the lobby is opened.
CallConfigure_Swallows(r) ==
  /\ At(r, "configure_match")
  /\ Upstream(r, TRUE,
              Server(IF MayConfigure(Service, L(r))
                     THEN Configure(Service, L(r), request[r].playerCount)
                     ELSE UNCHANGED match),
              "complete_provision", "complete_provision")
\* "configuration is already locked" is caught: the request goes on although the
\* match keeps the configuration of another identity.
CallConfigure(r) ==
  /\ At(r, "configure_match")
  /\ Upstream(r, Vacant(L(r)),
              Server(IF MayConfigure(Service, L(r))
                     THEN Configure(Service, L(r), request[r].playerCount)
                     ELSE UNCHANGED match),
              "complete_provision", "fail_provision")

CallComplete(r) ==
  /\ At(r, "complete_provision")
  /\ Upstream(r, MayComplete(L(r), L(r)), Directory(CompleteProvision(L(r), L(r))),
              "list_assigned", "fail_provision")

\* Mutant: the status is written without looking at it.
CallFail_Forced(r) ==
  /\ At(r, "fail_provision")
  /\ Upstream(r, Exists(L(r)),
              Directory(/\ lobby' = [lobby EXCEPT ![L(r)].status = "Failed"]
                        /\ UNCHANGED member), "done", "done")
\* An error of fail_provision is swallowed.
CallFail(r) ==
  /\ At(r, "fail_provision")
  /\ Upstream(r, MayFail(L(r)), Directory(FailProvision(L(r))), "done", "done")

CallJoin(r) ==
  /\ At(r, "join_lobby")
  /\ Upstream(r, MayJoin(I(r), L(r)), Directory(JoinLobby(I(r), L(r))),
              "list_assigned", "done")

\* The answer to a create or a join names the database, if the lobby has one.
ListAssigned(r) ==
  /\ At(r, "list_assigned")
  /\ \/ /\ lobby[L(r)].matchDatabase # NoDb
        /\ assigned' = assigned \cup {<<I(r), L(r)>>}
     \/ /\ Faults \/ lobby[L(r)].matchDatabase = NoDb
        /\ UNCHANGED assigned
  /\ Goto(r, "done")
  /\ UNCHANGED <<directory, match>>

\* A leave captures the database before it calls the reducer.
ListBeforeLeave(r) ==
  /\ At(r, "list_before_leave")
  /\ request' = [request EXCEPT ![r].captured = lobby[L(r)].matchDatabase,
                                ![r].call = "leave_lobby"]
  /\ UNCHANGED <<directory, match, assigned>>

CallLeave(r) ==
  /\ At(r, "leave_lobby")
  /\ Upstream(r, MayLeave(L(r)), Directory(LeaveLobby(I(r), L(r))),
              "list_after_leave", "done")

\* Mutant: the database is deleted without looking whether the lobby is gone.
Cleanup_Always(r) == request[r].captured # NoDb
Cleanup(r) == request[r].captured # NoDb /\ ~ Exists(L(r))

ListAfterLeave(r) ==
  /\ At(r, "list_after_leave")
  /\ Goto(r, IF Cleanup(r) THEN "delete" ELSE "done")
  /\ UNCHANGED <<directory, match, assigned>>

CallDelete(r) ==
  /\ At(r, "delete")
  /\ Upstream(r, match[L(r)].published,
              Server(match' = [match EXCEPT ![L(r)] = NoMatch]), "done", "done")

\* The platform ends a function that takes too long: nothing is cleaned up.
CutOff(r) ==
  /\ Faults
  /\ request[r].call \notin {"none", "done"}
  /\ Goto(r, "done")
  /\ UNCHANGED <<directory, match, assigned>>

Work(r) ==
  \/ CallCreate(r) \/ ListCreated(r) \/ CallBegin(r) \/ CallPublish(r)
  \/ CallConfigure(r) \/ CallComplete(r) \/ CallFail(r) \/ CallJoin(r)
  \/ ListAssigned(r) \/ ListBeforeLeave(r) \/ CallLeave(r) \/ ListAfterLeave(r)
  \/ CallDelete(r)

-----------------------------------------------------------------------------
(* The match databases.                                                    *)

\* A client that is connected to the match configures it on its own.
ConfigureFirst(i, l, n) ==
  /\ Strangers
  /\ MayConfigure(i, l)
  /\ Configure(i, l, n)
  /\ UNCHANGED <<directory, request, assigned>>

\* A browser that was told the database claims a seat there, whatever became
\* of its membership since; so does the client that configured the match.
TakeSeat(i, l) ==
  /\ <<i, l>> \in assigned \/ match[l].configurator = i
  /\ match[l].published /\ match[l].phase = "Lobby"
  /\ i \notin match[l].seated
  /\ Cardinality(match[l].seated) < match[l].playerCount
  /\ match' = [match EXCEPT ![l].seated = @ \cup {i}]
  /\ UNCHANGED <<directory, request, assigned>>

Start(l) ==
  /\ match[l].phase = "Lobby" /\ match[l].published
  /\ Cardinality(match[l].seated) = match[l].playerCount
  /\ match' = [match EXCEPT ![l].phase = "Running"]
  /\ UNCHANGED <<directory, request, assigned>>

\* The owner of the directory clears away a failed lobby, also while a request
\* still works on it.
Remove(l) == RemoveInactiveLobby(l) /\ UNCHANGED <<request, match, assigned>>

\* Every request was made and answered.
AllDone ==
  /\ \A r \in Request : request[r].call = "done"
  /\ UNCHANGED vars

Next ==
  \/ \E r \in Request, i \in Identity, l \in LobbyId :
       \/ \E n \in PlayerCounts : SendCreate(r, i, l, n)
       \/ SendJoin(r, i, l)
       \/ SendLeave(r, i, l)
  \/ \E r \in Request : Work(r) \/ CutOff(r)
  \/ \E l \in LobbyId, i \in Identity :
       TakeSeat(i, l) \/ \E n \in PlayerCounts : ConfigureFirst(i, l, n)
  \/ \E l \in LobbyId : Start(l) \/ Remove(l)
  \/ AllDone

\* A request that is not cut off runs to its end.
Spec == Init /\ [][Next]_vars /\ \A r \in Request : WF_vars(Work(r))
-----------------------------------------------------------------------------
(* What the orchestration promises.                                        *)

Calls == {"none", "create_lobby", "list_created", "begin_provision", "publish",
          "configure_match", "complete_provision", "fail_provision", "join_lobby",
          "list_assigned", "list_before_leave", "leave_lobby", "list_after_leave",
          "delete", "done"}

\* Every variable has its type and no match has more players than seats.
OrchestratorTypeOK ==
  /\ DirectoryTypeOK
  /\ request \in [Request -> [action : {"none", "create", "join", "leave"},
                              who : Identity \cup {NoOne}, lobbyId : LobbyId \cup {NoDb},
                              playerCount : PlayerCounts \cup {0}, call : Calls,
                              captured : Database \cup {NoDb}]]
  /\ match \in [LobbyId -> [published : BOOLEAN, playerCount : Nat,
                            configurator : Identity \cup {NoOne, Service},
                            seated : SUBSET Identity, phase : {"Lobby", "Running"}]]
  /\ \A l \in LobbyId : Cardinality(match[l].seated) <= match[l].playerCount
  /\ assigned \subseteq Identity \X LobbyId

\* The requests use the lobby database only in the ways it allows.
DirectoryIsDirectory == DirectorySpec

\* Whoever is let into a lobby finds a match there that has been configured: the
\* name of a database is never published before the database is ready nor after
\* its deletion.  (As long as no create is sent twice.)  The match has the seats
\* of the lobby unless another identity configured it first: the function takes
\* the lock of a stranger for its own earlier call.
OpenIsReady ==
  /\ OrchestratorTypeOK
  /\ \A l \in LobbyId : lobby[l].status \in {"Open", "Full"} =>
       /\ match[l].published /\ match[l].configurator # NoOne
       /\ match[l].configurator = Service => match[l].playerCount = lobby[l].playerCount

\* No lobby waits for ever: when its request is served to the end, a new lobby
\* becomes open or failed or is given up.
ProvisioningEnds ==
  \A l \in LobbyId :
    lobby[l].status \in {"Pending", "Provisioning"}
      ~> lobby[l].status \notin {"Pending", "Provisioning"}

\* docs/technical-architecture.md: "a live match database is never upgraded or
\* cleared by the lobby path".
LiveUntouched ==
  [][\A r \in Request :
       CallPublish(r) \/ CallDelete(r) => match[L(r)].phase # "Running"]_vars
=============================================================================
