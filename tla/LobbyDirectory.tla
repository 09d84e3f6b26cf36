---------------------------- MODULE LobbyDirectory ----------------------------
(***************************************************************************)
(* The lobby database: the reducers of modules/lobby/src/lib.rs over the   *)
(* tables lobby and lobby_member.  For each reducer the condition MayX     *)
(* under which it returns Ok, repeated calls that change nothing included, *)
(* and the action X that it is then; a reducer that returns an error       *)
(* changes nothing.  Who calls them, and in which order, is Orchestrator.  *)
(***************************************************************************)
EXTENDS Integers, FiniteSets

CONSTANTS
  LobbyId,      \* lobby ids
  Identity,     \* the identities of the players
  PlayerCounts, \* the player counts a lobby is created with
  Database,     \* names of match databases
  NoOne, NoDb   \* no creator, no name

ASSUME DirectoryAssumption ==
  /\ NoOne \notin Identity
  /\ NoDb \notin Database
  /\ PlayerCounts \subseteq Nat \ {0, 1}   \* validate_player_count

VARIABLES lobby, member
directory == <<lobby, member>>

LiveStatus == {"Pending", "Provisioning", "Open", "Full"}
Status == LiveStatus \cup {"Failed"}
NoRow == [status |-> "None", creator |-> NoOne, playerCount |-> 0, memberCount |-> 0,
          matchDatabase |-> NoDb]

DirectoryInit ==
  /\ lobby = [l \in LobbyId |-> NoRow]
  /\ member = {}

Exists(l) == lobby[l].status # "None"
Live(l) == lobby[l].status \in LiveStatus
Members(l) == {i \in Identity : <<l, i>> \in member}
\* active_lobby_for_identity: failed lobbies do not count.
ActiveLobbies(i) == {l \in LobbyId : <<l, i>> \in member /\ Live(l)}

\* Row l with another status, member count and match database.
Updated(l, status, n, d) ==
  [status |-> status, creator |-> lobby[l].creator, playerCount |-> lobby[l].playerCount,
   memberCount |-> n, matchDatabase |-> d]
SetRow(l, status, n, d) == lobby' = [lobby EXCEPT ![l] = Updated(l, status, n, d)]

-----------------------------------------------------------------------------
(* Reducers of the players.                                                *)

Created(i, l, n) ==
  Live(l) /\ lobby[l].creator = i /\ lobby[l].playerCount = n
MayCreate(i, l, n) ==
  \/ Created(i, l, n)
  \/ ~ Exists(l) /\ ActiveLobbies(i) = {}

CreateLobby(i, l, n) ==
  /\ MayCreate(i, l, n)
  /\ IF Created(i, l, n) THEN UNCHANGED directory
     ELSE /\ lobby' = [lobby EXCEPT ![l] =
                         [status |-> "Pending", creator |-> i, playerCount |-> n,
                          memberCount |-> 1, matchDatabase |-> NoDb]]
          /\ member' = member \cup {<<l, i>>}

\* Mutant: a player in another lobby may join too.
MayJoin_Twice(i, l) ==
  \/ l \in ActiveLobbies(i)
  \/ lobby[l].status = "Open" /\ lobby[l].memberCount < lobby[l].playerCount
MayJoin(i, l) ==
  \/ l \in ActiveLobbies(i)
  \/ /\ ActiveLobbies(i) = {}
     /\ lobby[l].status = "Open"
     /\ lobby[l].memberCount < lobby[l].playerCount

JoinLobby(i, l) ==
  /\ MayJoin(i, l)
  /\ IF l \in ActiveLobbies(i) THEN UNCHANGED directory
     ELSE LET n == lobby[l].memberCount + 1
          IN  /\ member' = member \cup {<<l, i>>}
              /\ SetRow(l, IF n = lobby[l].playerCount THEN "Full" ELSE lobby[l].status,
                        n, lobby[l].matchDatabase)

\* Mutant: the member rows stay.
DeleteLobby_KeepsMembers(l) ==
  /\ lobby' = [lobby EXCEPT ![l] = NoRow]
  /\ UNCHANGED member

\* delete_lobby_and_members.
DeleteLobby(l) ==
  /\ lobby' = [lobby EXCEPT ![l] = NoRow]
  /\ member' = {m \in member : m[1] # l}

\* Mutant: a full lobby stays full.
StatusAfterLeave_KeepsFull(l) == lobby[l].status
\* status_after_member_leave.
StatusAfterLeave(l) == IF lobby[l].status = "Full" THEN "Open" ELSE lobby[l].status

MayLeave(l) == Exists(l)
LeaveLobby(i, l) ==
  /\ MayLeave(l)
  /\ IF <<l, i>> \notin member THEN UNCHANGED directory
     ELSE IF lobby[l].memberCount <= 1 THEN DeleteLobby(l)
     ELSE /\ member' = member \ {<<l, i>>}
          /\ SetRow(l, StatusAfterLeave(l), lobby[l].memberCount - 1,
                    lobby[l].matchDatabase)

-----------------------------------------------------------------------------
(* Reducers of the orchestrator, which owns the database.                  *)

MayBegin(l) == lobby[l].status \in {"Pending", "Provisioning"}
BeginProvision(l) ==
  /\ MayBegin(l)
  /\ SetRow(l, "Provisioning", lobby[l].memberCount, lobby[l].matchDatabase)
  /\ UNCHANGED member

Completed(l, d) ==
  lobby[l].status \in {"Open", "Full"} /\ lobby[l].matchDatabase = d
MayComplete(l, d) ==
  Completed(l, d) \/ (lobby[l].status = "Provisioning" /\ d # NoDb)
CompleteProvision(l, d) ==
  /\ MayComplete(l, d)
  /\ IF Completed(l, d) THEN UNCHANGED directory
     ELSE /\ SetRow(l, "Open", lobby[l].memberCount, d)
          /\ UNCHANGED member

\* Mutant: any lobby can be failed.
MayFail_Any(l) == Exists(l)
MayFail(l) == lobby[l].status \in {"Pending", "Provisioning"}
FailProvision(l) ==
  /\ MayFail(l)
  /\ SetRow(l, "Failed", lobby[l].memberCount, lobby[l].matchDatabase)
  /\ UNCHANGED member

RemoveInactiveLobby(l) ==
  /\ Exists(l) /\ ~ Live(l)
  /\ DeleteLobby(l)

DirectoryNext ==
  \E l \in LobbyId :
    \/ \E i \in Identity :
         \/ \E n \in PlayerCounts : CreateLobby(i, l, n)
         \/ JoinLobby(i, l)
         \/ LeaveLobby(i, l)
    \/ BeginProvision(l)
    \/ \E d \in Database : CompleteProvision(l, d)
    \/ FailProvision(l)
    \/ RemoveInactiveLobby(l)

DirectorySpec == DirectoryInit /\ [][DirectoryNext]_directory
-----------------------------------------------------------------------------
(* What the directory promises.                                            *)

LobbyRow == [status : Status, creator : Identity, playerCount : PlayerCounts,
             memberCount : Nat \ {0}, matchDatabase : Database \cup {NoDb}]

\* Every row has its type: a lobby has at least one member while it exists.
DirectoryTypeOK ==
  /\ lobby \in [LobbyId -> LobbyRow \cup {NoRow}]
  /\ member \subseteq LobbyId \X Identity

\* The denormalized member_count is the number of member rows, through joins,
\* repeated leaves and deletions, and no member row outlives its lobby.
CountsAgree ==
  \A l \in LobbyId :
    /\ IsFiniteSet(Members(l))
    /\ lobby[l].memberCount = Cardinality(Members(l))

\* The status that opens the door agrees with the room behind it: a lobby is
\* full exactly when its last place is taken and open while one is left.
DoorAgrees ==
  \A l \in LobbyId :
    /\ lobby[l].status = "Open" => lobby[l].memberCount < lobby[l].playerCount
    /\ lobby[l].status = "Full" => lobby[l].memberCount = lobby[l].playerCount
    /\ lobby[l].status \in {"Pending", "Provisioning"} => lobby[l].memberCount = 1
    /\ lobby[l].status \in {"Open", "Full"} <=> lobby[l].matchDatabase # NoDb

\* No player is in two lobbies that are still of use.
OneActiveLobby ==
  \A i \in Identity : \A k, l \in ActiveLobbies(i) : k = l

\* The tables agree with each other: counts with members, doors with room, and
\* each player with one lobby.
DirectoryInv ==
  /\ DirectoryTypeOK
  /\ CountsAgree
  /\ DoorAgrees
  /\ OneActiveLobby

\* An assigned lobby keeps its match database and never becomes failed or
\* unprovisioned again, whatever late answers of other provisioning attempts
\* arrive: it can only be deleted.
AssignedForGood ==
  [][\A l \in LobbyId : lobby[l].matchDatabase # NoDb =>
       \/ /\ lobby'[l].matchDatabase = lobby[l].matchDatabase
          /\ lobby'[l].status \in {"Open", "Full"}
       \/ lobby'[l] = NoRow]_directory
=============================================================================
