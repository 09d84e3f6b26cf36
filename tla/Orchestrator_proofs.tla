-------------------------- MODULE Orchestrator_proofs --------------------------
(***************************************************************************)
(* The requests of Orchestrator, interleaved in any way and failing at any *)
(* call, use the lobby database as LobbyDirectory allows: Orchestrator     *)
(* implements DirectorySpec.  A request only has to remember for whom and  *)
(* for which lobby it was sent.                                            *)
(* Third, a lobby shown as open has its match: what a creation has done so *)
(* far is kept by ReadyInv at each of its awaits.                          *)
(***************************************************************************)
EXTENDS Orchestrator, FiniteSetTheorems, TLAPS

-----------------------------------------------------------------------------
(* DirectoryInv is inductive: no call of the lobby database, by whomever   *)
(* and in whatever order, breaks it.  Every reducer changes one lobby, so  *)
(* the induction is over what happens to that lobby (OneLobby).            *)

RowOK(r) == r \in LobbyRow \cup {NoRow}

\* DoorAgrees of one row.
Door(r) ==
  /\ r.status = "Open" => r.memberCount < r.playerCount
  /\ r.status = "Full" => r.memberCount = r.playerCount
  /\ r.status \in {"Pending", "Provisioning"} => r.memberCount = 1
  /\ r.status \in {"Open", "Full"} <=> r.matchDatabase # NoDb

\* A row is typed field by field.
LEMMA Fields ==
  ASSUME NEW r, RowOK(r)
  PROVE  /\ r.status \in Status \cup {"None"}
         /\ r.status = "None" <=> r = NoRow
         /\ r.status # "None" => /\ r \in LobbyRow
                                 /\ r.creator \in Identity
                                 /\ r.playerCount \in PlayerCounts
                                 /\ r.playerCount \in Nat \ {0, 1}
                                 /\ r.memberCount \in Nat \ {0}
                                 /\ r.matchDatabase \in Database \cup {NoDb}
  <1>1. CASE r = NoRow
    BY <1>1 DEF NoRow, Status, LiveStatus
  <1>2. CASE r \in LobbyRow
    <2>1. /\ r.status \in Status
          /\ r.creator \in Identity
          /\ r.playerCount \in PlayerCounts
          /\ r.memberCount \in Nat \ {0}
          /\ r.matchDatabase \in Database \cup {NoDb}
      BY <1>2 DEF LobbyRow
    <2>2. r.status # "None" BY <2>1 DEF Status, LiveStatus
    <2>3. NoRow.status = "None" BY DEF NoRow
    <2> QED BY <1>2, <2>1, <2>2, <2>3, DirectoryAssumption
  <1> QED BY <1>1, <1>2 DEF RowOK

\* What a reducer has to show about the one lobby it changes.
LEMMA OneLobby ==
  ASSUME DirectoryInv, NEW l \in LobbyId,
         lobby' = [lobby EXCEPT ![l] = lobby'[l]],
         RowOK(lobby'[l]), Door(lobby'[l]),
         member' \subseteq LobbyId \X Identity,
         \A k \in LobbyId \ {l} : Members(k)' = Members(k),
         IsFiniteSet(Members(l)'),
         lobby'[l].memberCount = Cardinality(Members(l)'),
         \A i \in Members(l)' : lobby'[l].status \in LiveStatus =>
           (i \in Members(l) /\ Live(l)) \/ ActiveLobbies(i) = {}
  PROVE  DirectoryInv'
  <1>1. /\ lobby' \in [LobbyId -> LobbyRow \cup {NoRow}]
        /\ \A k \in LobbyId \ {l} : lobby'[k] = lobby[k]
    BY DEF DirectoryInv, DirectoryTypeOK, RowOK
  <1>2. DirectoryTypeOK'
    BY <1>1 DEF DirectoryTypeOK
  <1>3. CountsAgree'
    <2> SUFFICES ASSUME NEW k \in LobbyId
                 PROVE  IsFiniteSet(Members(k)') /\ lobby'[k].memberCount = Cardinality(Members(k)')
      BY DEF CountsAgree
    <2>1. CASE k = l BY <2>1
    <2>2. CASE k # l BY <2>2, <1>1 DEF DirectoryInv, CountsAgree
    <2> QED BY <2>1, <2>2
  <1>4. DoorAgrees'
    <2>1. \A k \in LobbyId : Door(lobby'[k])
      BY <1>1 DEF DirectoryInv, DoorAgrees, Door
    <2> QED BY <2>1 DEF DoorAgrees, Door
  <1>5. OneActiveLobby'
    <2> SUFFICES ASSUME NEW i \in Identity, NEW j \in ActiveLobbies(i)', NEW k \in ActiveLobbies(i)'
                 PROVE  j = k
      BY DEF OneActiveLobby
    <2>1. /\ j \in LobbyId /\ i \in Members(j)' /\ lobby'[j].status \in LiveStatus
          /\ k \in LobbyId /\ i \in Members(k)' /\ lobby'[k].status \in LiveStatus
      BY DEF ActiveLobbies, Members, Live
    <2>2. \A m \in LobbyId : i \in Members(m) /\ Live(m) => m \in ActiveLobbies(i)
      BY DEF Members, ActiveLobbies
    <2>3. \A m \in LobbyId \ {l} :
            i \in Members(m)' /\ lobby'[m].status \in LiveStatus => m \in ActiveLobbies(i)
      BY <1>1, <2>2 DEF Live
    <2>4. \A m, n \in ActiveLobbies(i) : m = n
      BY DEF DirectoryInv, OneActiveLobby
    <2>5. i \in Members(l)' /\ lobby'[l].status \in LiveStatus =>
            l \in ActiveLobbies(i) \/ ActiveLobbies(i) = {}
      BY <2>2
    <2> QED BY <2>1, <2>3, <2>4, <2>5
  <1> QED BY <1>2, <1>3, <1>4, <1>5 DEF DirectoryInv

\* Deleting a lobby with its member rows leaves the others as they were.
LEMMA Deleted ==
  ASSUME DirectoryInv, NEW l \in LobbyId, DeleteLobby(l)
  PROVE  DirectoryInv'
  <1>1. lobby' = [lobby EXCEPT ![l] = lobby'[l]] /\ lobby'[l] = NoRow
    BY DEF DeleteLobby, DirectoryInv, DirectoryTypeOK
  <1>2. member' \subseteq LobbyId \X Identity
    BY DEF DeleteLobby, DirectoryInv, DirectoryTypeOK
  <1>3. Members(l)' = {} /\ \A k \in LobbyId \ {l} : Members(k)' = Members(k)
    BY DEF DeleteLobby, Members
  <1>4. IsFiniteSet(Members(l)') /\ Cardinality(Members(l)') = 0
    BY <1>3, FS_EmptySet
  <1>5. RowOK(lobby'[l]) /\ Door(lobby'[l]) /\ lobby'[l].memberCount = 0
    BY <1>1 DEF RowOK, Door, NoRow
  <1> QED BY <1>1, <1>2, <1>3, <1>4, <1>5, OneLobby

\* A reducer that writes a row and leaves the members alone.
LEMMA Rewritten ==
  ASSUME DirectoryInv, NEW l \in LobbyId, NEW r,
         lobby' = [lobby EXCEPT ![l] = r], UNCHANGED member,
         RowOK(r), Door(r), r.memberCount = lobby[l].memberCount,
         r.status \in LiveStatus => Live(l)
  PROVE  DirectoryInv'
  <1>1. lobby' = [lobby EXCEPT ![l] = lobby'[l]] /\ lobby'[l] = r
    BY DEF DirectoryInv, DirectoryTypeOK
  <1>2. \A k \in LobbyId : Members(k)' = Members(k)
    BY DEF Members
  <1>3. IsFiniteSet(Members(l)') /\ r.memberCount = Cardinality(Members(l)')
    BY <1>2 DEF DirectoryInv, CountsAgree
  <1>4. member' \subseteq LobbyId \X Identity
    BY DEF DirectoryInv, DirectoryTypeOK
  <1> QED BY <1>1, <1>2, <1>3, <1>4, OneLobby

\* The first step of every reducer: the row it looks at, field by field, and
\* what the invariant says of it.
LEMMA Row ==
  ASSUME DirectoryInv, NEW l \in LobbyId
  PROVE  /\ RowOK(lobby[l]) /\ Door(lobby[l])
         /\ IsFiniteSet(Members(l)) /\ lobby[l].memberCount = Cardinality(Members(l))
         /\ Exists(l) => lobby[l] \in LobbyRow
         /\ ~ Exists(l) => lobby[l] = NoRow /\ Members(l) = {}
  <1>1. RowOK(lobby[l]) /\ Door(lobby[l])
    BY DEF DirectoryInv, DirectoryTypeOK, DoorAgrees, RowOK, Door
  <1>2. IsFiniteSet(Members(l)) /\ lobby[l].memberCount = Cardinality(Members(l))
    BY DEF DirectoryInv, CountsAgree
  <1>3. Exists(l) => lobby[l] \in LobbyRow
    BY <1>1, Fields DEF Exists
  <1>4. ~ Exists(l) => lobby[l] = NoRow /\ lobby[l].memberCount = 0
    BY <1>1, Fields DEF Exists, NoRow
  <1> QED BY <1>1, <1>2, <1>3, <1>4, FS_EmptySet

\* Nothing changes: the invariant stays.
LEMMA NothingKeeps ==
  ASSUME DirectoryInv, UNCHANGED directory
  PROVE  DirectoryInv'
<1>1. lobby' = lobby /\ member' = member
  BY DEF directory
<1>2. DirectoryTypeOK'
  BY <1>1 DEF DirectoryInv, DirectoryTypeOK
<1>3. \A l \in LobbyId : Members(l)' = Members(l)
  BY <1>1 DEF Members
<1>4. CountsAgree'
  BY <1>1, <1>3 DEF DirectoryInv, CountsAgree
<1>5. DoorAgrees'
  BY <1>1 DEF DirectoryInv, DoorAgrees
<1>6. \A i \in Identity : ActiveLobbies(i)' = ActiveLobbies(i)
  BY <1>1 DEF ActiveLobbies, Live
<1>7. OneActiveLobby'
  BY <1>6 DEF DirectoryInv, OneActiveLobby
<1> QED BY <1>2, <1>4, <1>5, <1>7 DEF DirectoryInv

LEMMA CreateKeeps ==
  ASSUME DirectoryInv, NEW i \in Identity, NEW l \in LobbyId, NEW n \in PlayerCounts,
         CreateLobby(i, l, n)
  PROVE  DirectoryInv'
  <1>1. CASE Created(i, l, n)
    BY <1>1, NothingKeeps DEF CreateLobby
  <1>2. CASE ~ Created(i, l, n)
    <2> DEFINE r == [status |-> "Pending", creator |-> i, playerCount |-> n,
                     memberCount |-> 1, matchDatabase |-> NoDb]
    <2>1. /\ ~ Exists(l) /\ ActiveLobbies(i) = {}
          /\ lobby' = [lobby EXCEPT ![l] = r] /\ member' = member \cup {<<l, i>>}
      BY <1>2 DEF CreateLobby, MayCreate
    <2>2. lobby'[l] = r
      BY <2>1 DEF DirectoryInv, DirectoryTypeOK
    <2>3. Members(l)' = {i} /\ \A k \in LobbyId \ {l} : Members(k)' = Members(k)
      BY <2>1, Row DEF Members
    <2>4. IsFiniteSet(Members(l)') /\ Cardinality(Members(l)') = 1
      BY <2>3, FS_Singleton
    <2>5. RowOK(r) /\ Door(r)
      BY DirectoryAssumption DEF RowOK, LobbyRow, Status, LiveStatus, Door
    <2>6. member' \subseteq LobbyId \X Identity
      BY <2>1 DEF DirectoryInv, DirectoryTypeOK
    <2> HIDE DEF r
    <2>7. lobby'[l].memberCount = 1
      BY <2>2 DEF r
    <2> QED BY <2>1, <2>2, <2>3, <2>4, <2>5, <2>6, <2>7, OneLobby
  <1> QED BY <1>1, <1>2

LEMMA JoinKeeps ==
  ASSUME DirectoryInv, NEW i \in Identity, NEW l \in LobbyId, JoinLobby(i, l)
  PROVE  DirectoryInv'
  <1>1. CASE l \in ActiveLobbies(i)
    BY <1>1, NothingKeeps DEF JoinLobby
  <1>2. CASE l \notin ActiveLobbies(i)
    <2> DEFINE old == lobby[l]
               n == old.memberCount + 1
               r == Updated(l, IF n = old.playerCount THEN "Full" ELSE old.status, n,
                            old.matchDatabase)
    <2>1. /\ ActiveLobbies(i) = {} /\ old.status = "Open"
          /\ old.memberCount < old.playerCount
          /\ lobby' = [lobby EXCEPT ![l] = r] /\ member' = member \cup {<<l, i>>}
      BY <1>2 DEF JoinLobby, MayJoin, SetRow
    <2>2. /\ Exists(l) /\ old \in LobbyRow /\ lobby'[l] = r
          /\ lobby' = [lobby EXCEPT ![l] = lobby'[l]]
      BY <2>1, Row DEF Exists, DirectoryInv, DirectoryTypeOK
    <2>3. i \notin Members(l)
      BY <2>1 DEF ActiveLobbies, Members, Live, LiveStatus
    <2>4. Members(l)' = Members(l) \cup {i} /\ \A k \in LobbyId \ {l} : Members(k)' = Members(k)
      BY <2>1 DEF Members
    <2>5. IsFiniteSet(Members(l)') /\ Cardinality(Members(l)') = n
      BY <2>3, <2>4, Row, FS_AddElement
    <2>6. /\ old.memberCount \in Nat \ {0} /\ old.playerCount \in Nat
          /\ old.matchDatabase # NoDb
      BY <2>1, <2>2, Row, Fields, DirectoryAssumption DEF Exists, Door, RowOK
    <2>7. r \in LobbyRow /\ r.memberCount = n /\ r.playerCount = old.playerCount
          /\ r.matchDatabase = old.matchDatabase
          /\ r.status = IF n = old.playerCount THEN "Full" ELSE "Open"
      BY <2>1, <2>2, <2>6 DEF LobbyRow, Status, LiveStatus, Updated
    <2>8. RowOK(r) /\ Door(r)
      <3> HIDE DEF r
      <3> QED BY <2>1, <2>6, <2>7 DEF RowOK, Door
    <2>9. member' \subseteq LobbyId \X Identity
      BY <2>1 DEF DirectoryInv, DirectoryTypeOK
    <2>10. \A j \in Members(l)' : (j \in Members(l) /\ Live(l)) \/ ActiveLobbies(j) = {}
      BY <2>1, <2>4 DEF Live, LiveStatus
    <2> HIDE DEF r, n, old
    <2> QED BY <2>2, <2>4, <2>5, <2>7, <2>8, <2>9, <2>10, OneLobby
  <1> QED BY <1>1, <1>2

LEMMA LeaveKeeps ==
  ASSUME DirectoryInv, NEW i \in Identity, NEW l \in LobbyId, LeaveLobby(i, l)
  PROVE  DirectoryInv'
  <1>1. CASE <<l, i>> \notin member
    BY <1>1, NothingKeeps DEF LeaveLobby
  <1>2. CASE <<l, i>> \in member /\ lobby[l].memberCount <= 1
    BY <1>2, Deleted DEF LeaveLobby
  <1>3. CASE <<l, i>> \in member /\ ~ lobby[l].memberCount <= 1
    <2> DEFINE old == lobby[l]
               n == old.memberCount - 1
               r == Updated(l, StatusAfterLeave(l), n, old.matchDatabase)
    <2>1. /\ Exists(l) /\ member' = member \ {<<l, i>>}
          /\ lobby' = [lobby EXCEPT ![l] = r]
      BY <1>3 DEF LeaveLobby, MayLeave, SetRow
    <2>2. /\ old \in LobbyRow /\ lobby'[l] = r
          /\ lobby' = [lobby EXCEPT ![l] = lobby'[l]]
      BY <2>1, Row DEF Exists, DirectoryInv, DirectoryTypeOK
    <2>3. i \in Members(l)
      BY <1>3 DEF Members
    <2>4. Members(l)' = Members(l) \ {i} /\ \A k \in LobbyId \ {l} : Members(k)' = Members(k)
      BY <2>1 DEF Members
    <2>5. IsFiniteSet(Members(l)') /\ Cardinality(Members(l)') = n
      BY <2>3, <2>4, Row, FS_RemoveElement
    <2>6. /\ old.memberCount \in Nat \ {0} /\ old.playerCount \in Nat
          /\ old.status \in Status
      BY <2>1, <2>2, Row, Fields, DirectoryAssumption DEF Exists
    <2>7. n \in Nat \ {0} /\ n < old.memberCount
      BY <1>3, <2>6
    <2>8. r \in LobbyRow /\ r.memberCount = n /\ r.playerCount = old.playerCount
          /\ r.matchDatabase = old.matchDatabase
          /\ r.status = IF old.status = "Full" THEN "Open" ELSE old.status
      BY <2>2, <2>6, <2>7 DEF LobbyRow, Status, LiveStatus, StatusAfterLeave, Updated
    <2>9. RowOK(r) /\ Door(r)
      <3> HIDE DEF r, n
      <3>1. Door(old) BY Row
      <3> QED BY <1>3, <3>1, <2>6, <2>7, <2>8 DEF RowOK, Door
    <2>10. member' \subseteq LobbyId \X Identity
      BY <2>1 DEF DirectoryInv, DirectoryTypeOK
    <2>11. \A j \in Members(l)' : r.status \in LiveStatus => j \in Members(l) /\ Live(l)
      BY <2>4, <2>8 DEF Live, LiveStatus
    <2> HIDE DEF r, n, old
    <2> QED BY <2>2, <2>4, <2>5, <2>8, <2>9, <2>10, <2>11, OneLobby
  <1> QED BY <1>1, <1>2, <1>3

\* A provisioning reducer writes the status and perhaps the database.
LEMMA StatusKeeps ==
  ASSUME DirectoryInv, NEW l \in LobbyId, NEW status \in Status, NEW d \in Database \cup {NoDb},
         lobby[l].status \in {"Pending", "Provisioning"}, UNCHANGED member,
         SetRow(l, status, lobby[l].memberCount, d),
         status \in {"Provisioning", "Failed"} => d = lobby[l].matchDatabase,
         status \in {"Provisioning", "Failed"} \/ (status = "Open" /\ d # NoDb)
  PROVE  DirectoryInv'
  <1> DEFINE old == lobby[l]
             r == Updated(l, status, old.memberCount, d)
  <1>1. /\ old \in LobbyRow /\ Door(old)
        /\ old.playerCount \in Nat \ {0, 1} /\ old.memberCount = 1
        /\ old.matchDatabase = NoDb
    <2>1. Exists(l) BY DEF Exists
    <2>2. Door(old) /\ old \in LobbyRow /\ old.playerCount \in Nat \ {0, 1}
      BY <2>1, Row, Fields DEF Exists
    <2> QED BY <2>2 DEF Door
  <1>2. /\ r \in LobbyRow /\ r.status = status /\ r.memberCount = old.memberCount
        /\ r.playerCount = old.playerCount /\ r.matchDatabase = d
    BY <1>1 DEF LobbyRow, Updated
  <1>3. lobby' = [lobby EXCEPT ![l] = r]
    BY DEF SetRow
  <1>4. RowOK(r) /\ Door(r)
    <2> HIDE DEF r
    <2> QED BY <1>1, <1>2 DEF RowOK, Door
  <1>5. Live(l)
    BY DEF Live, LiveStatus
  <1> HIDE DEF r
  <1> QED BY <1>2, <1>3, <1>4, <1>5, Rewritten

\* The directory starts consistent.
LEMMA DirectoryStarts == DirectoryInit => DirectoryInv
  <1> SUFFICES ASSUME DirectoryInit PROVE DirectoryInv
    OBVIOUS
  <1>1. \A l \in LobbyId : lobby[l] = NoRow /\ Members(l) = {}
    BY DEF DirectoryInit, Members
  <1>2. DirectoryTypeOK
    BY DEF DirectoryInit, DirectoryTypeOK
  <1>3. CountsAgree
    BY <1>1, FS_EmptySet DEF CountsAgree, NoRow
  <1>4. DoorAgrees
    BY <1>1 DEF DoorAgrees, NoRow
  <1>5. OneActiveLobby
    BY DEF DirectoryInit, OneActiveLobby, ActiveLobbies
  <1> QED BY <1>2, <1>3, <1>4, <1>5 DEF DirectoryInv

\* Every call keeps it consistent.
LEMMA DirectoryStep == DirectoryInv /\ [DirectoryNext]_directory => DirectoryInv'
  <1> SUFFICES ASSUME DirectoryInv, [DirectoryNext]_directory
               PROVE  DirectoryInv'
    OBVIOUS
  <1>1. CASE UNCHANGED directory
    BY <1>1, NothingKeeps
  <1>2. CASE DirectoryNext
    <2> PICK l \in LobbyId :
           \/ \E i \in Identity :
                \/ \E n \in PlayerCounts : CreateLobby(i, l, n)
                \/ JoinLobby(i, l)
                \/ LeaveLobby(i, l)
           \/ BeginProvision(l)
           \/ \E d \in Database : CompleteProvision(l, d)
           \/ FailProvision(l)
           \/ RemoveInactiveLobby(l)
      BY <1>2 DEF DirectoryNext
    <2>1. ASSUME NEW i \in Identity, NEW n \in PlayerCounts, CreateLobby(i, l, n)
          PROVE  DirectoryInv'
      BY <2>1, CreateKeeps
    <2>2. ASSUME NEW i \in Identity, JoinLobby(i, l)
          PROVE  DirectoryInv'
      BY <2>2, JoinKeeps
    <2>3. ASSUME NEW i \in Identity, LeaveLobby(i, l)
          PROVE  DirectoryInv'
      BY <2>3, LeaveKeeps
    <2>4. CASE BeginProvision(l)
      <3>1. lobby[l].matchDatabase \in Database \cup {NoDb}
        BY <2>4, Row, Fields DEF BeginProvision, MayBegin, Exists
      <3> QED BY <2>4, <3>1, StatusKeeps DEF BeginProvision, MayBegin, Status, LiveStatus
    <2>5. ASSUME NEW d \in Database, CompleteProvision(l, d)
          PROVE  DirectoryInv'
      <3>1. CASE Completed(l, d)
        BY <2>5, <3>1, NothingKeeps DEF CompleteProvision
      <3>2. CASE ~ Completed(l, d)
        BY <2>5, <3>2, StatusKeeps DEF CompleteProvision, MayComplete, Status, LiveStatus
      <3> QED BY <3>1, <3>2
    <2>6. CASE FailProvision(l)
      <3>1. lobby[l].matchDatabase \in Database \cup {NoDb}
        BY <2>6, Row, Fields DEF FailProvision, MayFail, Exists
      <3> QED BY <2>6, <3>1, StatusKeeps DEF FailProvision, MayFail, Status
    <2>7. CASE RemoveInactiveLobby(l)
      BY <2>7, Deleted DEF RemoveInactiveLobby
    <2> QED BY <2>1, <2>2, <2>3, <2>4, <2>5, <2>6, <2>7
  <1> QED BY <1>1, <1>2

\* The lobby table, the member table and the counts and states derived from
\* them agree after any calls of create_lobby, join_lobby, leave_lobby and the
\* provisioning reducers, for any players, lobbies and player counts.
THEOREM DirectorySound == DirectorySpec => []DirectoryInv
  BY DirectoryStarts, DirectoryStep, PTL DEF DirectorySpec

\* No player is in two lobbies that are still of use.
THEOREM PlayersInOneLobby == DirectorySpec => []OneActiveLobby
  BY DirectorySound, PTL DEF DirectoryInv

\* member_count is the number of member rows.
THEOREM CountsAreMembers == DirectorySpec => []CountsAgree
  BY DirectorySound, PTL DEF DirectoryInv

\* A provisioned lobby keeps its match database until it is deleted: no late
\* begin_provision, complete_provision or fail_provision takes it back.
THEOREM DatabasesAreKept == DirectorySpec => AssignedForGood
  <1> DEFINE Kept(l) == lobby[l].matchDatabase # NoDb =>
               \/ /\ lobby'[l].matchDatabase = lobby[l].matchDatabase
                  /\ lobby'[l].status \in {"Open", "Full"}
               \/ lobby'[l] = NoRow
  <1>1. DirectoryInv /\ DirectoryNext => \A l \in LobbyId : Kept(l)
    <2> SUFFICES ASSUME DirectoryInv, DirectoryNext, NEW l \in LobbyId,
                        lobby[l].matchDatabase # NoDb
                 PROVE  Kept(l)
      OBVIOUS
    <2>1. lobby[l].status \in {"Open", "Full"} /\ Exists(l)
      BY Row DEF Door, Exists
    <2>2. ASSUME NEW k \in LobbyId, DeleteLobby(k)
          PROVE  Kept(l)
      BY <2>1, <2>2 DEF DeleteLobby, DirectoryInv, DirectoryTypeOK
    <2>3. ASSUME NEW k \in LobbyId, NEW status, NEW n, NEW d, SetRow(k, status, n, d),
                 k = l => status \in {"Open", "Full"} /\ d = lobby[l].matchDatabase
          PROVE  Kept(l)
      BY <2>1, <2>3 DEF SetRow, Updated, DirectoryInv, DirectoryTypeOK
    <2>4. UNCHANGED directory => Kept(l)
      BY <2>1 DEF directory
    <2>5. PICK k \in LobbyId :
           \/ \E i \in Identity :
                \/ \E n \in PlayerCounts : CreateLobby(i, k, n)
                \/ JoinLobby(i, k)
                \/ LeaveLobby(i, k)
           \/ BeginProvision(k)
           \/ \E d \in Database : CompleteProvision(k, d)
           \/ FailProvision(k)
           \/ RemoveInactiveLobby(k)
      BY DEF DirectoryNext
    <2>6. ASSUME NEW i \in Identity, NEW n \in PlayerCounts, CreateLobby(i, k, n)
          PROVE  Kept(l)
      BY <2>1, <2>4, <2>6 DEF CreateLobby, MayCreate, DirectoryInv, DirectoryTypeOK
    <2>7. ASSUME NEW i \in Identity, JoinLobby(i, k)
          PROVE  Kept(l)
      BY <2>1, <2>3, <2>4, <2>7 DEF JoinLobby
    <2>8. ASSUME NEW i \in Identity, LeaveLobby(i, k)
          PROVE  Kept(l)
      BY <2>1, <2>2, <2>3, <2>4, <2>8 DEF LeaveLobby, StatusAfterLeave
    <2>9. CASE BeginProvision(k)
      BY <2>1, <2>3, <2>9 DEF BeginProvision, MayBegin
    <2>10. ASSUME NEW d \in Database, CompleteProvision(k, d)
           PROVE  Kept(l)
      BY <2>1, <2>3, <2>4, <2>10 DEF CompleteProvision, MayComplete
    <2>11. CASE FailProvision(k)
      BY <2>1, <2>3, <2>11 DEF FailProvision, MayFail
    <2>12. CASE RemoveInactiveLobby(k)
      BY <2>2, <2>12 DEF RemoveInactiveLobby
    <2> QED BY <2>5, <2>6, <2>7, <2>8, <2>9, <2>10, <2>11, <2>12
  <1> QED BY <1>1, DirectorySound, PTL DEF DirectorySpec, AssignedForGood

-----------------------------------------------------------------------------
(* The requests.                                                           *)

Ended == {"none", "done"}
RequestRow == [action : {"none", "create", "join", "leave"},
               who : Identity \cup {NoOne}, lobbyId : LobbyId \cup {NoDb},
               playerCount : PlayerCounts \cup {0}, call : Calls,
               captured : Database \cup {NoDb}]

\* A request in progress has a player and a lobby; a create also has the player
\* count that the browser asked for.
Bound(row) ==
  /\ row.call \notin Ended => row.who \in Identity /\ row.lobbyId \in LobbyId
  /\ row.call = "create_lobby" => row.playerCount \in PlayerCounts

RequestsInv ==
  /\ request \in [Request -> RequestRow]
  /\ \A r \in Request : Bound(request[r])

DirectoryUse == DirectoryInv /\ RequestsInv

\* A request that goes on to its next call stays bound.
LEMMA GotoKeeps ==
  ASSUME RequestsInv, NEW r \in Request, NEW call \in Calls,
         request[r].call \notin Ended, call # "create_lobby", Goto(r, call)
  PROVE  RequestsInv'
  <1>1. request' \in [Request -> RequestRow]
    BY DEF RequestsInv, RequestRow, Goto
  <1>2. \A q \in Request : q # r => request'[q] = request[q]
    BY DEF RequestsInv, Goto
  <1>3. /\ request'[r].call = call /\ request'[r].who = request[r].who
        /\ request'[r].lobbyId = request[r].lobbyId
    BY DEF RequestsInv, RequestRow, Goto
  <1> QED BY <1>1, <1>2, <1>3 DEF RequestsInv, Bound

\* Each step of the system is a step of the lobby database or leaves it alone.
LEMMA StepUsesDirectory ==
  ASSUME RequestsInv, [Next]_vars
  PROVE  [DirectoryNext]_directory
  <1>1. ASSUME NEW r \in Request, request[r].call \notin Ended
        PROVE  L(r) \in LobbyId /\ I(r) \in Identity
    BY <1>1 DEF RequestsInv, Bound, L, I
  <1>2. ASSUME NEW r \in Request, Work(r)
        PROVE  [DirectoryNext]_directory
    <2> request[r].call \notin Ended
      BY <1>2 DEF Work, CallCreate, ListCreated, CallBegin, CallPublish, CallConfigure,
         CallComplete, CallFail, CallJoin, ListAssigned, ListBeforeLeave, CallLeave,
         ListAfterLeave, CallDelete, At, Ended
    <2> L(r) \in LobbyId /\ I(r) \in Identity
      BY <1>1
    <2>1. CASE CallCreate(r)
      <3> request[r].playerCount \in PlayerCounts
        BY <2>1 DEF CallCreate, At, RequestsInv, Bound
      <3> QED BY <2>1 DEF CallCreate, Upstream, Directory, DirectoryNext, directory
    <2>2. CASE CallBegin(r)
      BY <2>2 DEF CallBegin, Upstream, Directory, DirectoryNext, directory
    <2>3. CASE CallComplete(r)
      <3> L(r) \in Database
        BY OrchestratorAssumption
      <3> QED BY <2>3 DEF CallComplete, Upstream, Directory, DirectoryNext, directory
    <2>4. CASE CallFail(r)
      BY <2>4 DEF CallFail, Upstream, Directory, DirectoryNext, directory
    <2>5. CASE CallJoin(r)
      BY <2>5 DEF CallJoin, Upstream, Directory, DirectoryNext, directory
    <2>6. CASE CallLeave(r)
      BY <2>6 DEF CallLeave, Upstream, Directory, DirectoryNext, directory
    <2>7. CASE CallPublish(r) \/ CallConfigure(r) \/ CallDelete(r)
      BY <2>7 DEF CallPublish, CallConfigure, CallDelete, Upstream, Server, directory
    <2>8. CASE ListCreated(r) \/ ListAssigned(r) \/ ListBeforeLeave(r) \/ ListAfterLeave(r)
      BY <2>8 DEF ListCreated, ListAssigned, ListBeforeLeave, ListAfterLeave, directory
    <2> QED BY <1>2, <2>1, <2>2, <2>3, <2>4, <2>5, <2>6, <2>7, <2>8 DEF Work
  <1>3. ASSUME NEW r \in Request, CutOff(r)
        PROVE  UNCHANGED directory
    BY <1>3 DEF CutOff, directory
  <1>4. ASSUME NEW r \in Request, NEW i \in Identity, NEW l \in LobbyId,
               \/ \E n \in PlayerCounts : SendCreate(r, i, l, n)
               \/ SendJoin(r, i, l)
               \/ SendLeave(r, i, l)
        PROVE  UNCHANGED directory
    BY <1>4 DEF SendCreate, SendJoin, SendLeave, Send, directory
  <1>5. ASSUME NEW l \in LobbyId,
               \/ Start(l)
               \/ \E i \in Identity : TakeSeat(i, l) \/ \E n \in PlayerCounts : ConfigureFirst(i, l, n)
        PROVE  UNCHANGED directory
    BY <1>5 DEF Start, TakeSeat, ConfigureFirst, directory
  <1>6. ASSUME NEW l \in LobbyId, Remove(l)
        PROVE  DirectoryNext
    BY <1>6 DEF Remove, DirectoryNext
  <1>7. AllDone \/ UNCHANGED vars => UNCHANGED directory
    BY DEF AllDone, vars, directory
  <1> QED BY <1>2, <1>3, <1>4, <1>5, <1>6, <1>7 DEF Next

\* A browser sends requests for itself.
LEMMA SendKeeps ==
  ASSUME RequestsInv, NEW r \in Request, NEW i \in Identity, NEW l \in LobbyId,
         NEW action \in {"create", "join", "leave"}, NEW n \in PlayerCounts \cup {0},
         NEW call \in Calls, call = "create_lobby" => n \in PlayerCounts,
         Send(r, action, i, l, n, call)
  PROVE  RequestsInv'
  <1> DEFINE row == [action |-> action, who |-> i, lobbyId |-> l, playerCount |-> n,
                     call |-> call, captured |-> NoDb]
  <1>1. request' = [request EXCEPT ![r] = row]
    BY DEF Send
  <1>2. row \in RequestRow /\ Bound(row)
    BY DEF RequestRow, Bound
  <1> HIDE DEF row
  <1> QED BY <1>1, <1>2 DEF RequestsInv

LEMMA RequestsStep ==
  ASSUME DirectoryInv, RequestsInv, [Next]_vars
  PROVE  RequestsInv'
  <1>1. ASSUME NEW r \in Request, Work(r)
        PROVE  RequestsInv'
    <2>0. request[r].call \notin Ended
      BY <1>1 DEF Work, CallCreate, ListCreated, CallBegin, CallPublish, CallConfigure,
         CallComplete, CallFail, CallJoin, ListAssigned, ListBeforeLeave, CallLeave,
         ListAfterLeave, CallDelete, At, Ended
    <2>1. L(r) \in LobbyId
      BY <2>0 DEF RequestsInv, Bound, L
    <2>2. CASE ListCreated(r)
      <3>1. lobby[L(r)].playerCount \in PlayerCounts \cup {0}
        BY <2>1, Row, Fields DEF Exists, NoRow
      <3> DEFINE call == IF ~ Exists(L(r)) THEN "done"
                         ELSE IF lobby[L(r)].matchDatabase = NoDb
                         THEN "begin_provision" ELSE "list_assigned"
                 row == [request[r] EXCEPT !.playerCount = lobby[L(r)].playerCount, !.call = call]
      <3>2. request' = [request EXCEPT ![r] = row]
        BY <2>2 DEF ListCreated
      <3>3. call \in Calls /\ call # "create_lobby"
        BY DEF Calls
      <3>4. row \in RequestRow /\ row.call = call /\ row.who = request[r].who
            /\ row.lobbyId = request[r].lobbyId
        <4> HIDE DEF call
        <4> QED BY ZenonT(60), <3>1, <3>3 DEF RequestsInv, RequestRow
      <3> HIDE DEF row, call
      <3> QED BY <2>0, <3>2, <3>3, <3>4 DEF RequestsInv, Bound
    <2>3. CASE ListBeforeLeave(r)
      <3>1. lobby[L(r)].matchDatabase \in Database \cup {NoDb}
        BY <2>1, Row, Fields DEF Exists, NoRow
      <3> DEFINE row == [request[r] EXCEPT !.captured = lobby[L(r)].matchDatabase,
                                           !.call = "leave_lobby"]
      <3>2. request' = [request EXCEPT ![r] = row]
        BY <2>3 DEF ListBeforeLeave
      <3>3. row \in RequestRow /\ row.call = "leave_lobby" /\ row.who = request[r].who
            /\ row.lobbyId = request[r].lobbyId
        BY ZenonT(60), <3>1 DEF RequestsInv, RequestRow, Calls
      <3> HIDE DEF row
      <3> QED BY <2>0, <3>2, <3>3 DEF RequestsInv, Bound
    <2>4. CASE ~ ListCreated(r) /\ ~ ListBeforeLeave(r)
      <3>1. \E call \in Calls \ {"create_lobby"} : Goto(r, call)
        BY <1>1, <2>4 DEF Work, CallCreate, CallBegin, CallPublish, CallConfigure,
           CallComplete, CallFail, CallJoin, ListAssigned, CallLeave, ListAfterLeave,
           CallDelete, Upstream, Calls
      <3> QED BY <2>0, <3>1, GotoKeeps
    <2> QED BY <2>2, <2>3, <2>4
  <1>2. ASSUME NEW r \in Request, CutOff(r)
        PROVE  RequestsInv'
    BY <1>2, GotoKeeps DEF CutOff, Calls, Ended
  <1>3. ASSUME NEW r \in Request, NEW i \in Identity, NEW l \in LobbyId,
               NEW n \in PlayerCounts, SendCreate(r, i, l, n)
        PROVE  RequestsInv'
    BY <1>3, SendKeeps DEF SendCreate, Calls
  <1>4. ASSUME NEW r \in Request, NEW i \in Identity, NEW l \in LobbyId,
               SendJoin(r, i, l) \/ SendLeave(r, i, l)
        PROVE  RequestsInv'
    BY <1>4, SendKeeps DEF SendJoin, SendLeave, Calls
  <1>5. ASSUME UNCHANGED request
        PROVE  RequestsInv'
    BY <1>5 DEF RequestsInv, Bound
  <1>6. ASSUME NEW l \in LobbyId,
               \/ Start(l) \/ Remove(l)
               \/ \E i \in Identity : TakeSeat(i, l) \/ \E n \in PlayerCounts : ConfigureFirst(i, l, n)
        PROVE  UNCHANGED request
    BY <1>6 DEF Start, TakeSeat, ConfigureFirst, Remove
  <1>7. AllDone \/ UNCHANGED vars => UNCHANGED request
    BY DEF AllDone, vars
  <1> QED BY <1>1, <1>2, <1>3, <1>4, <1>5, <1>6, <1>7 DEF Next

LEMMA RequestsStart == Init => DirectoryUse
  <1>1. Init => RequestsInv
    BY DEF Init, RequestsInv, RequestRow, NewRequest, Bound, Ended, Calls
  <1> QED BY <1>1, DirectoryStarts DEF Init, DirectoryUse

LEMMA UseStep == DirectoryUse /\ [Next]_vars => DirectoryUse' /\ [DirectoryNext]_directory
  BY StepUsesDirectory, RequestsStep, DirectoryStep DEF DirectoryUse

\* The serverless function implements the directory: whatever requests are
\* made, however they interleave, fail or are cut off, the lobby database goes
\* through a behaviour of DirectorySpec.
THEOREM RequestsUseDirectory == Spec => DirectoryIsDirectory
  <1>1. Init => DirectoryInit
    BY DEF Init
  <1> QED BY <1>1, RequestsStart, UseStep, PTL DEF Spec, DirectorySpec, DirectoryIsDirectory

\* Hence what is proved of the directory holds while requests race each other.
THEOREM RequestsKeepDirectory == Spec => []DirectoryInv /\ AssignedForGood
  BY RequestsUseDirectory, DirectorySound, DatabasesAreKept, PTL DEF DirectoryIsDirectory

-----------------------------------------------------------------------------
(* The match databases are typed.                                          *)

MatchRow == [published : BOOLEAN, playerCount : Nat,
             configurator : Identity \cup {NoOne, Service},
             seated : SUBSET Identity, phase : {"Lobby", "Running"}]
MatchesInv ==
  /\ match \in [LobbyId -> MatchRow]
  /\ \A l \in LobbyId : /\ IsFiniteSet(match[l].seated)
                        /\ Cardinality(match[l].seated) <= match[l].playerCount
  /\ assigned \subseteq Identity \X LobbyId

\* A match that its players may be sent to, of a lobby for n players: it is
\* configured, and for n players if the function configured it.
Suits(m, n) ==
  /\ m.published /\ m.configurator # NoOne
  /\ m.configurator = Service => m.playerCount = n

\* A change of one match.
LEMMA OneMatch ==
  ASSUME MatchesInv, UNCHANGED assigned, NEW l \in LobbyId, NEW row \in MatchRow,
         match' = [match EXCEPT ![l] = row],
         IsFiniteSet(row.seated), Cardinality(row.seated) <= row.playerCount
  PROVE  MatchesInv'
  BY DEF MatchesInv

\* Whoever configures a match that has no seats taken yet.
LEMMA ConfigureKeeps ==
  ASSUME MatchesInv, UNCHANGED assigned, NEW l \in LobbyId,
         NEW i \in Identity \cup {Service}, NEW n \in Nat, MayConfigure(i, l), Configure(i, l, n)
  PROVE  /\ MatchesInv'
         /\ match'[l].published /\ match'[l].configurator = i /\ match'[l].playerCount = n
         /\ \A k \in LobbyId \ {l} : match'[k] = match[k]
  <1> DEFINE row == [match[l] EXCEPT !.playerCount = n, !.configurator = i]
  <1>1. match' = [match EXCEPT ![l] = row]
    BY DEF Configure
  <1>2. row \in MatchRow /\ row.seated = {} /\ row.playerCount = n /\ row.published
        /\ row.configurator = i
    BY DEF MatchesInv, MatchRow, MayConfigure, Vacant
  <1> HIDE DEF row
  <1>3. IsFiniteSet(row.seated) /\ Cardinality(row.seated) <= row.playerCount
    BY <1>2, FS_EmptySet
  <1>4. MatchesInv'
    BY <1>1, <1>2, <1>3, OneMatch
  <1>5. match'[l] = row /\ \A k \in LobbyId \ {l} : match'[k] = match[k]
    BY <1>1 DEF MatchesInv
  <1> QED BY <1>2, <1>4, <1>5

\* The number of players that a request asks for.
LEMMA AskedCount ==
  ASSUME RequestsInv, NEW r \in Request
  PROVE  request[r].playerCount \in Nat
  <1>1. request[r].playerCount \in PlayerCounts \cup {0}
    BY DEF RequestsInv, RequestRow
  <1>2. \A n \in PlayerCounts : n \in Nat
    BY DirectoryAssumption
  <1> QED BY <1>1, <1>2

LEMMA MatchesStep ==
  ASSUME RequestsInv, MatchesInv, [Next]_vars
  PROVE  MatchesInv'
  <1>0. IsFiniteSet({}) /\ Cardinality({}) = 0
    BY FS_EmptySet
  <1>1. UNCHANGED <<match, assigned>> => MatchesInv'
    BY DEF MatchesInv
  <1>2. ASSUME NEW r \in Request, Work(r) PROVE MatchesInv'
    <2>1. L(r) \in LobbyId /\ I(r) \in Identity
      <3>1. request[r].call \notin Ended
        BY <1>2 DEF Work, CallCreate, ListCreated, CallBegin, CallPublish, CallConfigure,
           CallComplete, CallFail, CallJoin, ListAssigned, ListBeforeLeave, CallLeave,
           ListAfterLeave, CallDelete, At, Ended
      <3> QED BY <3>1 DEF RequestsInv, Bound, L, I
    <2>2. NoMatch \in MatchRow /\ FreshMatch \in MatchRow
      <3>1. NoMatch \in MatchRow
        BY DEF NoMatch, MatchRow
      <3> QED BY <3>1 DEF FreshMatch, MatchRow
    <2>3. CASE CallPublish(r)
      <3>1. \/ UNCHANGED <<match, assigned>>
            \/ UNCHANGED assigned /\ Publish(L(r))
        BY <2>3 DEF CallPublish, Upstream, Server
      <3>2. ASSUME UNCHANGED assigned, Publish(L(r)) PROVE MatchesInv'
        <4>1. CASE match[L(r)].published
          <5>1. match' = match
            BY <2>1, <3>2, <4>1 DEF Publish, MatchesInv
          <5> QED BY <1>1, <3>2, <5>1
        <4>2. CASE ~ match[L(r)].published
          <5>1. match' = [match EXCEPT ![L(r)] = FreshMatch]
            BY <3>2, <4>2 DEF Publish
          <5>2. FreshMatch.seated = {} /\ 0 <= FreshMatch.playerCount
            BY DEF FreshMatch, NoMatch
          <5> QED BY <1>0, <2>1, <2>2, <3>2, <5>1, <5>2, OneMatch
        <4> QED BY <4>1, <4>2
      <3> QED BY <1>1, <3>1, <3>2
    <2>4. CASE CallConfigure(r)
      <3>1. \/ UNCHANGED <<match, assigned>>
            \/ /\ UNCHANGED assigned /\ MayConfigure(Service, L(r))
               /\ Configure(Service, L(r), request[r].playerCount)
        BY <2>4 DEF CallConfigure, Upstream, Server
      <3> QED BY <1>1, <2>1, <3>1, AskedCount, ConfigureKeeps
    <2>5. CASE CallDelete(r)
      <3>1. \/ UNCHANGED <<match, assigned>>
            \/ UNCHANGED assigned /\ match' = [match EXCEPT ![L(r)] = NoMatch]
        BY <2>5 DEF CallDelete, Upstream, Server
      <3>2. NoMatch.seated = {} /\ 0 <= NoMatch.playerCount
        BY DEF NoMatch
      <3> QED BY <1>0, <1>1, <2>1, <2>2, <3>1, <3>2, OneMatch
    <2>6. CASE ListAssigned(r)
      <3>1. match' = match /\ assigned' \subseteq assigned \cup {<<I(r), L(r)>>}
        BY <2>6 DEF ListAssigned
      <3> QED BY <2>1, <3>1 DEF MatchesInv
    <2>7. CASE \/ CallCreate(r) \/ ListCreated(r) \/ CallBegin(r) \/ CallComplete(r)
               \/ CallFail(r) \/ CallJoin(r) \/ ListBeforeLeave(r) \/ CallLeave(r)
               \/ ListAfterLeave(r)
      <3>1. UNCHANGED <<match, assigned>>
        BY <2>7 DEF CallCreate, ListCreated, CallBegin, CallComplete, CallFail, CallJoin,
           ListBeforeLeave, CallLeave, ListAfterLeave, Upstream, Directory
      <3> QED BY <1>1, <3>1
    <2> QED BY <1>2, <2>3, <2>4, <2>5, <2>6, <2>7 DEF Work
  <1>3. ASSUME NEW l \in LobbyId, NEW i \in Identity, TakeSeat(i, l) PROVE MatchesInv'
    <2> DEFINE S == match[l].seated
               row == [match[l] EXCEPT !.seated = @ \cup {i}]
    <2>1. /\ match' = [match EXCEPT ![l] = row] /\ UNCHANGED assigned
          /\ i \notin S /\ Cardinality(S) < match[l].playerCount
      BY <1>3 DEF TakeSeat
    <2>2. row \in MatchRow /\ row.seated = S \cup {i} /\ row.playerCount = match[l].playerCount
      BY DEF MatchesInv, MatchRow
    <2>3. IsFiniteSet(S) /\ match[l].playerCount \in Nat
      BY DEF MatchesInv, MatchRow
    <2> HIDE DEF row, S
    <2>4. IsFiniteSet(S \cup {i}) /\ Cardinality(S \cup {i}) = Cardinality(S) + 1
          /\ Cardinality(S) \in Nat
      BY <2>1, <2>3, FS_AddElement, FS_CardinalityType
    <2>5. IsFiniteSet(row.seated) /\ Cardinality(row.seated) <= row.playerCount
      BY <2>1, <2>2, <2>3, <2>4
    <2> QED BY <2>1, <2>2, <2>5, OneMatch
  <1>4. ASSUME NEW l \in LobbyId, Start(l) PROVE MatchesInv'
    <2> DEFINE row == [match[l] EXCEPT !.phase = "Running"]
    <2>1. match' = [match EXCEPT ![l] = row] /\ UNCHANGED assigned
      BY <1>4 DEF Start
    <2>2. /\ row \in MatchRow /\ row.seated = match[l].seated
          /\ row.playerCount = match[l].playerCount
      BY DEF MatchesInv, MatchRow
    <2> HIDE DEF row
    <2> QED BY <2>1, <2>2, OneMatch DEF MatchesInv
  <1>5. ASSUME \/ \E r \in Request, i \in Identity, l \in LobbyId :
                    \/ \E n \in PlayerCounts : SendCreate(r, i, l, n)
                    \/ SendJoin(r, i, l) \/ SendLeave(r, i, l)
               \/ \E r \in Request : CutOff(r)
               \/ \E l \in LobbyId : Remove(l)
               \/ AllDone \/ UNCHANGED vars
        PROVE  MatchesInv'
    <2>1. UNCHANGED <<match, assigned>>
      BY <1>5 DEF SendCreate, SendJoin, SendLeave, Send, CutOff, Remove, AllDone, vars
    <2> QED BY <1>1, <2>1
  <1>6. ASSUME NEW l \in LobbyId, NEW i \in Identity, NEW n \in PlayerCounts,
               ConfigureFirst(i, l, n)
        PROVE  MatchesInv'
    BY <1>6, ConfigureKeeps, DirectoryAssumption DEF ConfigureFirst
  <1> QED BY <1>2, <1>3, <1>4, <1>5, <1>6 DEF Next

-----------------------------------------------------------------------------
(* An open lobby has its match.  No create is sent twice here: a second    *)
(* create of a lobby may delete or configure the match of the first.       *)

CallOK(action, call) ==
  /\ action = "none" => call = "none"
  /\ action = "create" =>
       call \in {"create_lobby", "list_created", "begin_provision", "publish",
                 "configure_match", "complete_provision", "fail_provision",
                 "list_assigned", "done"}
  /\ action = "join" => call \in {"join_lobby", "list_assigned", "done"}
  /\ action = "leave" =>
       call \in {"list_before_leave", "leave_lobby", "list_after_leave", "delete", "done"}

\* The calls of a create that does not provision its lobby any more, unless it
\* gives it up.
Past == {"list_assigned", "fail_provision", "done"}
Creates(q, l) == request[q].action = "create" /\ request[q].lobbyId = l
Provided(l) == \E q \in Request : Creates(q, l) /\ request[q].call \in Past
Started(l) == \E q \in Request : Creates(q, l) /\ request[q].call # "create_lobby"

\* Where the create of a lobby is tells how far the lobby is.
ProvisionOK(q) ==
  LET l == request[q].lobbyId
      call == request[q].call
  IN  /\ call = "create_lobby" => ~ Exists(l)
      /\ call \in {"list_created", "begin_provision"} =>
           lobby[l].status \in {"None", "Pending"}
      /\ call \in {"publish", "configure_match", "complete_provision"} =>
           lobby[l].status \in {"None", "Provisioning"}
      /\ call \in {"begin_provision", "publish", "configure_match", "complete_provision"} =>
           ~ Exists(l) \/ request[q].playerCount = lobby[l].playerCount
      /\ call = "complete_provision" =>
           Suits(match[l], request[q].playerCount)

\* A leave deletes only the match of a lobby that was open and is gone.
CleanupOK(q) ==
  LET l == request[q].lobbyId
  IN  /\ request[q].captured # NoDb => Provided(l)
      /\ request[q].call = "delete" => request[q].captured # NoDb /\ ~ Exists(l)

OpenOK(l) ==
  lobby[l].status \in {"Open", "Full"} =>
    Provided(l) /\ Suits(match[l], lobby[l].playerCount)

ReadyInv ==
  /\ \A q, r \in Request, l \in LobbyId : Creates(q, l) /\ Creates(r, l) => q = r
  /\ \A q \in Request : /\ CallOK(request[q].action, request[q].call)
                        /\ request[q].action = "create" => ProvisionOK(q)
                        /\ CleanupOK(q)
  /\ \A l \in LobbyId : Exists(l) => Started(l)
  /\ \A l \in LobbyId : OpenOK(l)

\* Requests keep what they are about, and creates only go forward.
Forward ==
  \A q \in Request :
    /\ request'[q].action = request[q].action /\ request'[q].lobbyId = request[q].lobbyId
    /\ CallOK(request[q].action, request'[q].call)
    /\ request[q].action = "create" =>
         /\ request[q].call # "create_lobby" => request'[q].call # "create_lobby"
         /\ request[q].call \in Past => request'[q].call \in Past

LEMMA ForwardFacts ==
  ASSUME ReadyInv, Forward
  PROVE  /\ \A q, r \in Request, l \in LobbyId : Creates(q, l)' /\ Creates(r, l)' => q = r
         /\ \A q \in Request : CallOK(request[q].action, request[q].call)'
         /\ \A l : Provided(l) => Provided(l)'
         /\ \A l : Started(l) => Started(l)'
  <1>1. \A q \in Request : \A l : Creates(q, l)' <=> Creates(q, l)
    BY DEF Forward, Creates
  <1>2. \A q, r \in Request, l \in LobbyId : Creates(q, l)' /\ Creates(r, l)' => q = r
    BY <1>1 DEF ReadyInv
  <1>3. \A q \in Request : CallOK(request[q].action, request[q].call)'
    BY DEF Forward, CallOK
  <1>4. \A l : Provided(l) => Provided(l)'
    BY <1>1 DEF Forward, Provided, Creates
  <1>5. \A l : Started(l) => Started(l)'
    BY <1>1 DEF Forward, Started, Creates
  <1> QED BY <1>2, <1>3, <1>4, <1>5

\* What others may do to a lobby and to its match.
Standing(l) ==
  \/ lobby'[l] = NoRow
  \/ /\ lobby'[l].playerCount = lobby[l].playerCount
     /\ \/ lobby'[l].status = lobby[l].status
        \/ {lobby[l].status, lobby'[l].status} \subseteq {"Open", "Full"}
MatchStands(l) ==
  \/ \A n : Suits(match[l], n) => Suits(match'[l], n)
  \/ Provided(l) /\ ~ Exists(l)

\* A step that is not one of a create.
LEMMA OutsiderReady ==
  ASSUME RequestsInv, ReadyInv, Forward,
         \A l \in LobbyId : Standing(l) /\ MatchStands(l) /\ (~ Exists(l) => ~ Exists(l)'),
         \A q \in Request :
           /\ request[q].action = "create" =>
                \/ request'[q] = request[q]
                \/ request'[q].call = "done" /\ request'[q].captured = request[q].captured
           /\ request'[q].captured # request[q].captured =>
                (request'[q].captured # NoDb => Provided(request[q].lobbyId))
           /\ request'[q].call = "delete" =>
                request'[q].captured # NoDb /\ ~ Exists(request[q].lobbyId)'
  PROVE  ReadyInv'
  <1>1. \A l \in LobbyId : Exists(l)' => Exists(l)
    OBVIOUS
  <1>2. ASSUME NEW l \in LobbyId PROVE OpenOK(l)'
    <2> SUFFICES ASSUME lobby'[l].status \in {"Open", "Full"}
                 PROVE  Provided(l)' /\ Suits(match'[l], lobby'[l].playerCount)
      BY DEF OpenOK
    <2>1. lobby'[l] # NoRow /\ Exists(l)
      BY <1>1 DEF NoRow, Exists
    <2>2. /\ lobby[l].status \in {"Open", "Full"}
          /\ lobby'[l].playerCount = lobby[l].playerCount
      BY <2>1 DEF Standing
    <2>3. \A n : Suits(match[l], n) => Suits(match'[l], n)
      BY <2>1 DEF MatchStands
    <2> QED BY <2>2, <2>3, ForwardFacts DEF ReadyInv, OpenOK
  <1>3. ASSUME NEW q \in Request, request[q].action = "create" PROVE ProvisionOK(q)'
    <2> DEFINE l == request[q].lobbyId
    <2>1. CASE request'[q].call = "done"
      BY <2>1 DEF ProvisionOK
    <2>2. CASE request'[q] = request[q] /\ request[q].call = "none"
      BY <2>2 DEF ProvisionOK
    <2>3. CASE request'[q] = request[q] /\ request[q].call \notin {"none", "done"}
      <3>1. l \in LobbyId
        BY <2>3 DEF RequestsInv, Bound, Ended
      <3>2. ProvisionOK(q)
        BY <1>3 DEF ReadyInv
      <3>3. CASE request[q].call \in Past
        BY <2>3, <3>3 DEF ProvisionOK, Past
      <3>4. CASE request[q].call \notin Past
        <4>1. ~ Provided(l)
          BY <1>3, <3>1, <3>4 DEF Provided, ReadyInv, Creates
        <4>2. \A n : Suits(match[l], n) => Suits(match'[l], n)
          BY <3>1, <4>1 DEF MatchStands
        <4>3. CASE lobby'[l] = NoRow
          BY <2>3, <3>2, <4>2, <4>3 DEF ProvisionOK, Exists, NoRow
        <4>4. CASE lobby'[l] # NoRow
          <5>1. /\ lobby'[l].playerCount = lobby[l].playerCount
                /\ \/ lobby'[l].status = lobby[l].status
                   \/ {lobby[l].status, lobby'[l].status} \subseteq {"Open", "Full"}
            BY <3>1, <4>4 DEF Standing
          <5>2. lobby[l].status \notin {"Open", "Full"}
            BY <3>1, <4>1 DEF ReadyInv, OpenOK
          <5>3. lobby'[l].status = lobby[l].status
            BY <5>1, <5>2
          <5> QED BY <2>3, <3>2, <4>2, <5>1, <5>3 DEF ProvisionOK, Exists
        <4> QED BY <4>3, <4>4
      <3> QED BY <3>3, <3>4
    <2> QED BY <1>3, <2>1, <2>2, <2>3
  <1>4. ASSUME NEW q \in Request PROVE CleanupOK(q)'
    BY ForwardFacts DEF ReadyInv, CleanupOK, Forward
  <1>5. \A l \in LobbyId : Exists(l)' => Started(l)'
    BY <1>1, ForwardFacts DEF ReadyInv
  <1>6. \A q \in Request : request'[q].action = request[q].action
    BY DEF Forward
  <1> QED BY <1>2, <1>3, <1>4, <1>5, <1>6, ForwardFacts DEF ReadyInv

\* A step of the create of lobby l.
LEMMA CreatorReady ==
  ASSUME RequestsInv, ReadyInv, Forward, NEW r \in Request, NEW l \in LobbyId, Creates(r, l),
         \A q \in Request \ {r} : request'[q] = request[q],
         request'[r].captured = request[r].captured,
         request'[r].call # "create_lobby",
         \A k \in LobbyId \ {l} : lobby'[k] = lobby[k] /\ match'[k] = match[k],
         request[r].call \in Past /\ ~ Exists(l) => ~ Exists(l)',
         ProvisionOK(r)', OpenOK(l)'
  PROVE  ReadyInv'
  <1>1. \A k \in LobbyId : Exists(k)' => Started(k)'
    <2>1. Started(l)'
      BY DEF Started, Creates, Forward
    <2>2. \A k \in LobbyId \ {l} : Exists(k)' => Exists(k)
      BY DEF Exists
    <2> QED BY <2>1, <2>2, ForwardFacts DEF ReadyInv
  <1>2. \A k \in LobbyId : OpenOK(k)'
    <2> SUFFICES ASSUME NEW k \in LobbyId \ {l} PROVE OpenOK(k)'
      OBVIOUS
    <2>1. OpenOK(k)
      BY DEF ReadyInv
    <2> QED BY <2>1, ForwardFacts DEF OpenOK
  <1>3. ASSUME NEW q \in Request, request[q].action = "create" PROVE ProvisionOK(q)'
    <2>1. CASE q = r
      BY <2>1
    <2>2. CASE q # r /\ request[q].lobbyId \in LobbyId
      <3>1. request[q].lobbyId # l
        BY <1>3, <2>2 DEF ReadyInv, Creates
      <3>2. ProvisionOK(q) /\ request'[q] = request[q]
        BY <1>3, <2>2 DEF ReadyInv
      <3> QED BY <2>2, <3>1, <3>2 DEF ProvisionOK, Exists
    <2>3. CASE q # r /\ request[q].lobbyId \notin LobbyId
      <3>1. request[q].call \in Ended /\ request'[q] = request[q]
        BY <2>3 DEF RequestsInv, Bound
      <3> QED BY <3>1 DEF ProvisionOK, Ended
    <2> QED BY <2>1, <2>2, <2>3
  <1>4. ASSUME NEW q \in Request PROVE CleanupOK(q)'
    <2> PICK k : k = request[q].lobbyId
      OBVIOUS
    <2>1. request'[q].captured = request[q].captured /\ request'[q].lobbyId = k
      BY DEF Forward
    <2>2. request[q].captured # NoDb => Provided(k)'
      BY ForwardFacts DEF ReadyInv, CleanupOK
    <2>3. ASSUME request'[q].call = "delete"
          PROVE  request[q].captured # NoDb /\ ~ Exists(k)'
      <3>1. q # r
        BY <2>3 DEF Forward, Creates, CallOK
      <3>2. /\ request[q].call = "delete" /\ request[q].captured # NoDb
            /\ ~ Exists(k) /\ Provided(k)
        BY <2>3, <3>1 DEF ReadyInv, CleanupOK
      <3>3. k \in LobbyId
        BY <3>2 DEF RequestsInv, Bound, Ended
      <3>4. CASE k = l
        <4>1. request[r].call \in Past
          BY <3>2, <3>4 DEF Provided, ReadyInv
        <4> QED BY <3>2, <3>4, <4>1
      <3>5. CASE k # l
        BY <3>2, <3>3, <3>5 DEF Exists
      <3> QED BY <3>2, <3>4, <3>5
    <2> QED BY <2>1, <2>2, <2>3 DEF CleanupOK
  <1>5. \A q \in Request : request'[q].action = request[q].action
    BY DEF Forward
  <1> QED BY <1>1, <1>2, <1>3, <1>4, <1>5, ForwardFacts DEF ReadyInv

\* One request goes on.
LEMMA RowForward ==
  ASSUME RequestsInv, ReadyInv, NEW r \in Request, NEW row,
         request' = [request EXCEPT ![r] = row],
         row.action = request[r].action, row.lobbyId = request[r].lobbyId,
         CallOK(request[r].action, row.call),
         request[r].action = "create" =>
           row.call # "create_lobby" /\ (request[r].call \in Past => row.call \in Past)
  PROVE  Forward /\ request'[r] = row /\ \A q \in Request \ {r} : request'[q] = request[q]
  <1>1. request'[r] = row /\ \A q \in Request \ {r} : request'[q] = request[q]
    BY DEF RequestsInv
  <1>2. \A q \in Request : CallOK(request[q].action, request[q].call)
    BY DEF ReadyInv
  <1> QED BY <1>1, <1>2 DEF Forward

LEMMA GotoForward ==
  ASSUME RequestsInv, ReadyInv, NEW r \in Request, NEW call, Goto(r, call),
         CallOK(request[r].action, call),
         request[r].action = "create" =>
           call # "create_lobby" /\ (request[r].call \in Past => call \in Past)
  PROVE  /\ Forward /\ \A q \in Request \ {r} : request'[q] = request[q]
         /\ request'[r].call = call
         /\ request'[r].action = request[r].action
         /\ request'[r].lobbyId = request[r].lobbyId
         /\ request'[r].playerCount = request[r].playerCount
         /\ request'[r].captured = request[r].captured
  <1> DEFINE row == [request[r] EXCEPT !.call = call]
  <1>1. request' = [request EXCEPT ![r] = row]
    BY DEF Goto
  <1>2. /\ row.action = request[r].action /\ row.lobbyId = request[r].lobbyId
        /\ row.playerCount = request[r].playerCount /\ row.captured = request[r].captured
        /\ row.call = call
    BY DEF RequestsInv, RequestRow
  <1> HIDE DEF row
  <1> QED BY <1>1, <1>2, RowForward

\* The calls of a create.
LEMMA CreateReady ==
  ASSUME RequestsInv, DirectoryInv, MatchesInv, ReadyInv, NEW r \in Request,
         request[r].action = "create", Work(r)
  PROVE  ReadyInv'
  <1>1. request[r].call \notin Ended
    BY DEF Work, CallCreate, ListCreated, CallBegin, CallPublish, CallConfigure,
       CallComplete, CallFail, CallJoin, ListAssigned, ListBeforeLeave, CallLeave,
       ListAfterLeave, CallDelete, At, Ended
  <1> PICK l \in LobbyId : l = request[r].lobbyId
    BY <1>1 DEF RequestsInv, Bound
  <1> PICK c : c = request[r].call
    OBVIOUS
  <1>2. /\ L(r) = l /\ Creates(r, l)
        /\ CallOK("create", c) /\ ProvisionOK(r) /\ OpenOK(l) /\ RowOK(lobby[l]) /\ Door(lobby[l])
    BY Row DEF L, Creates, ReadyInv
  <1>3. /\ lobby \in [LobbyId -> LobbyRow \cup {NoRow}]
        /\ match \in [LobbyId -> MatchRow]
    BY DEF DirectoryInv, DirectoryTypeOK, MatchesInv
  <1>4. Provided(l) => c \in Past
    BY <1>2 DEF Provided, ReadyInv
  \* The request goes on to the call n and leaves l as the create needs it.
  <1>5. ASSUME NEW n, Goto(r, n), CallOK("create", n), n # "create_lobby",
               c \in Past => n \in Past,
               \A k \in LobbyId \ {l} : lobby'[k] = lobby[k] /\ match'[k] = match[k],
               c \in Past /\ ~ Exists(l) => ~ Exists(l)',
               ProvisionOK(r)', OpenOK(l)'
        PROVE  ReadyInv'
    BY <1>2, <1>5, GotoForward, CreatorReady
  <1>6. CASE CallCreate(r)
    <2>1. c = "create_lobby" /\ ~ Exists(l)
      BY <1>2, <1>6 DEF CallCreate, At, ProvisionOK
    <2>2. PICK n \in {"list_created", "done"} :
            /\ Goto(r, n) /\ match' = match
            /\ \/ UNCHANGED lobby
               \/ CreateLobby(I(r), l, request[r].playerCount)
      BY <1>2, <1>6 DEF CallCreate, Upstream, Directory, directory
    <2>3. /\ \A k \in LobbyId \ {l} : lobby'[k] = lobby[k] /\ match'[k] = match[k]
          /\ lobby'[l].status \in {"None", "Pending"}
      BY <1>2, <1>3, <2>1, <2>2 DEF CreateLobby, Created, Live, LiveStatus, Exists, directory
    <2>4. request'[r].call = n /\ request'[r].lobbyId = l
      BY <2>1, <2>2, GotoForward DEF CallOK, Past
    <2>5. ProvisionOK(r)'
      BY <2>2, <2>3, <2>4 DEF ProvisionOK
    <2>6. OpenOK(l)'
      BY <2>3 DEF OpenOK
    <2> QED BY <1>5, <2>1, <2>2, <2>3, <2>5, <2>6 DEF CallOK, Past
  <1>7. CASE ListCreated(r)
    <2> DEFINE n == IF ~ Exists(l) THEN "done"
                    ELSE IF lobby[l].matchDatabase = NoDb
                    THEN "begin_provision" ELSE "list_assigned"
               row == [request[r] EXCEPT !.playerCount = lobby[l].playerCount, !.call = n]
    <2>1. /\ c = "list_created" /\ lobby' = lobby /\ match' = match
          /\ request' = [request EXCEPT ![r] = row]
      BY <1>2, <1>7 DEF ListCreated, At, directory
    <2>2. /\ row.action = "create" /\ row.lobbyId = l /\ row.captured = request[r].captured
          /\ row.call = n /\ row.playerCount = lobby[l].playerCount
      BY DEF RequestsInv, RequestRow
    <2>3. n \in {"done", "begin_provision", "list_assigned"}
      OBVIOUS
    <2> HIDE DEF row, n
    <2>4. Forward /\ request'[r] = row /\ \A q \in Request \ {r} : request'[q] = request[q]
      BY <2>1, <2>2, <2>3, RowForward DEF CallOK, Past
    <2>5. ProvisionOK(r)'
      <3>1. lobby[l].status \in {"None", "Pending"}
        BY <1>2, <2>1 DEF ProvisionOK
      <3> QED BY <2>1, <2>2, <2>3, <2>4, <3>1 DEF ProvisionOK
    <2>6. OpenOK(l)'
      <3>1. Provided(l) => Provided(l)'
        BY <2>4, ForwardFacts
      <3> QED BY <1>2, <2>1, <3>1 DEF OpenOK
    <2>7. n # "create_lobby"
      BY <2>3
    <2> QED BY <1>2, <2>1, <2>2, <2>4, <2>5, <2>6, <2>7, CreatorReady DEF Exists
  \* A call after which the request cares for no status any more.
  <1>8. CASE CallFail(r) \/ ListAssigned(r)
    <2>1. /\ c \in {"fail_provision", "list_assigned"} /\ Goto(r, "done") /\ match' = match
          /\ lobby' = lobby \/ (MayFail(l) /\ FailProvision(l))
      BY <1>2, <1>8 DEF CallFail, ListAssigned, Upstream, Directory, directory, At
    <2>2. /\ \A k \in LobbyId \ {l} : lobby'[k] = lobby[k] /\ match'[k] = match[k]
          /\ lobby'[l] = lobby[l] \/ (Exists(l) /\ lobby'[l].status = "Failed")
      BY <1>2, <1>3, <2>1 DEF FailProvision, MayFail, SetRow, Updated, Exists
    <2>3. Forward /\ request'[r].call = "done"
      BY <2>1, GotoForward DEF CallOK, Past
    <2>4. OpenOK(l)'
      BY <1>2, <2>1, <2>2, <2>3, ForwardFacts DEF OpenOK
    <2>5. ProvisionOK(r)'
      BY <2>3 DEF ProvisionOK
    <2> QED BY <1>5, <2>1, <2>2, <2>4, <2>5 DEF CallOK, Past, Exists
  <1>9. CASE CallBegin(r)
    <2>1. PICK n \in {"publish", "done"} :
            /\ c = "begin_provision" /\ Goto(r, n) /\ match' = match
            /\ \/ lobby' = lobby /\ n = "done"
               \/ BeginProvision(l)
      BY <1>2, <1>9 DEF CallBegin, Upstream, Directory, At, directory
    <2>2. /\ \A k \in LobbyId \ {l} : lobby'[k] = lobby[k] /\ match'[k] = match[k]
          /\ \/ lobby'[l] = lobby[l] /\ n = "done"
             \/ /\ lobby'[l].status = "Provisioning"
                /\ lobby'[l].playerCount = lobby[l].playerCount
      BY <1>2, <1>3, <2>1 DEF BeginProvision, SetRow, Updated
    <2>3. /\ Forward /\ request'[r].call = n /\ request'[r].lobbyId = l
          /\ request'[r].playerCount = request[r].playerCount
      BY <2>1, GotoForward DEF CallOK, Past
    <2>4. lobby[l].status \in {"None", "Pending"}
          /\ (~ Exists(l) \/ request[r].playerCount = lobby[l].playerCount)
      BY <1>2, <2>1 DEF ProvisionOK
    <2>5. OpenOK(l)'
      BY <2>2, <2>4 DEF OpenOK
    <2>6. ProvisionOK(r)'
      <3>1. n = "publish" => Exists(l)
        BY <1>2, <2>1, <2>4 DEF BeginProvision, MayBegin, Exists
      <3> QED BY <2>1, <2>2, <2>3, <2>4, <3>1 DEF ProvisionOK, Exists
    <2> QED BY <1>5, <2>1, <2>2, <2>5, <2>6 DEF CallOK, Past
  <1>10. CASE CallPublish(r) \/ CallConfigure(r)
    <2>1. PICK n \in {"configure_match", "complete_provision", "fail_provision"} :
            /\ c \in {"publish", "configure_match"} /\ Goto(r, n) /\ lobby' = lobby
            /\ \/ match' = match
               \/ Publish(l)
               \/ MayConfigure(Service, l) /\ Configure(Service, l, request[r].playerCount)
            /\ n = "complete_provision" =>
                 \/ MayConfigure(Service, l) /\ Configure(Service, l, request[r].playerCount)
                 \/ Vacant(l) /\ ~ MayConfigure(Service, l) /\ match' = match
            /\ UNCHANGED assigned
      BY <1>2, <1>10 DEF CallPublish, CallConfigure, Upstream, Server, At, directory
    <2>2. \A k \in LobbyId \ {l} : lobby'[k] = lobby[k] /\ match'[k] = match[k]
      BY <1>2, <1>3, <2>1, AskedCount, ConfigureKeeps DEF Publish
    <2>3. /\ Forward /\ request'[r].call = n /\ request'[r].lobbyId = l
          /\ request'[r].playerCount = request[r].playerCount
      BY <2>1, GotoForward DEF CallOK, Past
    <2>4. lobby[l].status \in {"None", "Provisioning"}
          /\ (~ Exists(l) \/ request[r].playerCount = lobby[l].playerCount)
      BY <1>2, <2>1 DEF ProvisionOK
    <2>5. OpenOK(l)'
      BY <2>1, <2>4 DEF OpenOK
    <2>6. n = "complete_provision" => Suits(match'[l], request[r].playerCount)
      <3>1. CASE MayConfigure(Service, l) /\ Configure(Service, l, request[r].playerCount)
        <4>1. /\ match'[l].published /\ match'[l].configurator = Service
              /\ match'[l].playerCount = request[r].playerCount
          BY <2>1, <3>1, AskedCount, ConfigureKeeps
        <4> QED BY <4>1, OrchestratorAssumption DEF Suits
      <3>2. CASE Vacant(l) /\ ~ MayConfigure(Service, l) /\ match' = match
        BY <3>2 DEF Vacant, MayConfigure, Suits
      <3> QED BY <2>1, <3>1, <3>2
    <2>7. ProvisionOK(r)'
      BY <2>1, <2>3, <2>4, <2>6 DEF ProvisionOK, Exists
    <2> QED BY <1>5, <2>1, <2>2, <2>5, <2>7 DEF CallOK, Past
  <1>11. CASE CallComplete(r)
    <2>1. PICK n \in {"list_assigned", "fail_provision"} :
            /\ c = "complete_provision" /\ Goto(r, n) /\ match' = match
            /\ lobby' = lobby \/ CompleteProvision(l, l)
      BY <1>2, <1>11 DEF CallComplete, Upstream, Directory, At, directory
    <2>2. /\ lobby[l].status \in {"None", "Provisioning"}
          /\ ~ Exists(l) \/ request[r].playerCount = lobby[l].playerCount
          /\ Suits(match[l], request[r].playerCount)
      BY <1>2, <2>1 DEF ProvisionOK
    <2>3. /\ \A k \in LobbyId \ {l} : lobby'[k] = lobby[k] /\ match'[k] = match[k]
          /\ lobby'[l] = lobby[l] \/ (Exists(l) /\ lobby'[l].playerCount = lobby[l].playerCount)
      BY <1>2, <1>3, <2>1 DEF CompleteProvision, MayComplete, Completed, SetRow, Updated, Exists,
         directory
    <2>4. /\ Forward /\ request'[r].call = n /\ request'[r].lobbyId = l
          /\ request'[r].action = "create"
      BY <2>1, GotoForward DEF CallOK, Past
    <2>5. Provided(l)'
      BY <2>1, <2>4 DEF Provided, Creates, Past
    <2>6. OpenOK(l)'
      BY <2>1, <2>2, <2>3, <2>5 DEF OpenOK, Exists
    <2>7. ProvisionOK(r)'
      BY <2>1, <2>4 DEF ProvisionOK
    <2> QED BY <1>5, <2>1, <2>3, <2>6, <2>7 DEF CallOK, Past
  <1> QED BY <1>2, <1>6, <1>7, <1>8, <1>9, <1>10, <1>11
          DEF Work, CallJoin, ListBeforeLeave, CallLeave, ListAfterLeave, CallDelete, At,
              CallOK

\* Members who come and go, and the owner who clears a failed lobby away, do
\* not provision anything.
LEMMA OthersStand ==
  ASSUME DirectoryInv, NEW l \in LobbyId,
         \/ UNCHANGED lobby
         \/ RemoveInactiveLobby(l)
         \/ \E i \in Identity : JoinLobby(i, l) \/ LeaveLobby(i, l)
  PROVE  \A k \in LobbyId : Standing(k) /\ (~ Exists(k) => ~ Exists(k)')
  <1>1. lobby \in [LobbyId -> LobbyRow \cup {NoRow}]
    BY DEF DirectoryInv, DirectoryTypeOK
  <1>2. UNCHANGED lobby => \A k \in LobbyId : Standing(k) /\ (~ Exists(k) => ~ Exists(k)')
    BY DEF Standing, Exists
  <1>3. ASSUME DeleteLobby(l)
        PROVE  \A k \in LobbyId : Standing(k) /\ (~ Exists(k) => ~ Exists(k)')
    BY <1>1, <1>3 DEF DeleteLobby, Standing, Exists, NoRow
  <1>4. ASSUME NEW status, NEW n, SetRow(l, status, n, lobby[l].matchDatabase), Exists(l),
               \/ status = lobby[l].status
               \/ {lobby[l].status, status} \subseteq {"Open", "Full"}
        PROVE  \A k \in LobbyId : Standing(k) /\ (~ Exists(k) => ~ Exists(k)')
    <2>1. /\ \A k \in LobbyId \ {l} : lobby'[k] = lobby[k]
          /\ lobby'[l].status = status /\ lobby'[l].playerCount = lobby[l].playerCount
      BY <1>1, <1>4 DEF SetRow, Updated
    <2> QED BY <1>4, <2>1 DEF Standing, Exists
  <1>5. ASSUME NEW i \in Identity, JoinLobby(i, l)
        PROVE  \A k \in LobbyId : Standing(k) /\ (~ Exists(k) => ~ Exists(k)')
    <2>1. CASE l \in ActiveLobbies(i)
      BY <1>2, <1>5, <2>1 DEF JoinLobby, directory
    <2>2. CASE l \notin ActiveLobbies(i)
      <3>1. lobby[l].status = "Open"
        BY <1>5, <2>2 DEF JoinLobby, MayJoin
      <3>2. \E status \in {"Open", "Full"} : \E n :
              SetRow(l, status, n, lobby[l].matchDatabase)
        BY <1>5, <2>2, <3>1 DEF JoinLobby
      <3>3. Exists(l)
        BY <3>1 DEF Exists
      <3> QED BY <1>4, <3>1, <3>2, <3>3
    <2> QED BY <2>1, <2>2
  <1>6. ASSUME NEW i \in Identity, LeaveLobby(i, l)
        PROVE  \A k \in LobbyId : Standing(k) /\ (~ Exists(k) => ~ Exists(k)')
    <2>1. \/ UNCHANGED lobby
          \/ DeleteLobby(l)
          \/ SetRow(l, StatusAfterLeave(l), lobby[l].memberCount - 1, lobby[l].matchDatabase)
      BY <1>6 DEF LeaveLobby, directory
    <2>2. /\ Exists(l)
          /\ \/ StatusAfterLeave(l) = lobby[l].status
             \/ {lobby[l].status, StatusAfterLeave(l)} \subseteq {"Open", "Full"}
      BY <1>6 DEF LeaveLobby, MayLeave, StatusAfterLeave
    <2> QED BY <1>2, <1>3, <1>4, <2>1, <2>2
  <1> QED BY <1>2, <1>3, <1>5, <1>6 DEF RemoveInactiveLobby

\* A step of a join or a leave.
LEMMA VisitorReady ==
  ASSUME RequestsInv, ReadyInv, NEW r \in Request, request[r].action # "create",
         request[r].call \notin Ended,
         NEW row, request' = [request EXCEPT ![r] = row],
         row.action = request[r].action, row.lobbyId = request[r].lobbyId,
         CallOK(request[r].action, row.call),
         row.captured = request[r].captured \/ row.captured = NoDb
           \/ Provided(request[r].lobbyId),
         row.call = "delete" => row.captured # NoDb /\ ~ Exists(request[r].lobbyId),
         \A l \in LobbyId : Standing(l) /\ MatchStands(l) /\ (~ Exists(l) => ~ Exists(l)')
  PROVE  ReadyInv'
  <1>1. Forward /\ request'[r] = row /\ \A q \in Request \ {r} : request'[q] = request[q]
    BY RowForward
  <1>2. ASSUME NEW q \in Request, request'[q].call = "delete"
        PROVE  request'[q].captured # NoDb /\ ~ Exists(request[q].lobbyId)'
    <2> PICK k : k = request[q].lobbyId
      OBVIOUS
    <2>1. request'[q].lobbyId = k
      BY <1>1 DEF Forward
    <2>2. k \in LobbyId
      <3>1. q # r => request[q].call = "delete"
        BY <1>1, <1>2
      <3> QED BY <3>1 DEF RequestsInv, Bound, Ended
    <2>3. request'[q].captured # NoDb /\ ~ Exists(k)
      <3>1. CASE q = r
        BY <1>1, <1>2, <3>1
      <3>2. CASE q # r
        BY <1>1, <1>2, <3>2 DEF ReadyInv, CleanupOK
      <3> QED BY <3>1, <3>2
    <2>4. ~ Exists(k)'
      BY <2>2, <2>3
    <2> QED BY <2>1, <2>3, <2>4
  <1>3. \A q \in Request :
          /\ request[q].action = "create" => request'[q] = request[q]
          /\ request'[q].captured # request[q].captured =>
               (request'[q].captured # NoDb => Provided(request[q].lobbyId))
    BY <1>1
  <1> QED BY <1>1, <1>2, <1>3, OutsiderReady

LEMMA VisitReady ==
  ASSUME RequestsInv, DirectoryInv, MatchesInv, ReadyInv, NEW r \in Request,
         request[r].action # "create", Work(r)
  PROVE  ReadyInv'
  <1>1. request[r].call \notin Ended
    BY DEF Work, CallCreate, ListCreated, CallBegin, CallPublish, CallConfigure,
       CallComplete, CallFail, CallJoin, ListAssigned, ListBeforeLeave, CallLeave,
       ListAfterLeave, CallDelete, At, Ended
  <1> PICK l \in LobbyId, i \in Identity : l = request[r].lobbyId /\ i = request[r].who
    BY <1>1 DEF RequestsInv, Bound
  <1>2. L(r) = l /\ I(r) = i /\ OpenOK(l) /\ CleanupOK(r) /\ Door(lobby[l])
        /\ CallOK(request[r].action, request[r].call)
        /\ request[r].action \in {"none", "join", "leave"}
    BY Row DEF L, I, ReadyInv, RequestsInv, RequestRow
  <1>3. ASSUME match' = match PROVE \A k \in LobbyId : MatchStands(k)
    BY <1>3 DEF MatchStands
  \* The request goes on to the call n.
  <1>4. ASSUME NEW n, Goto(r, n), CallOK(request[r].action, n),
               n = "delete" => request[r].captured # NoDb /\ ~ Exists(l),
               \/ UNCHANGED lobby \/ RemoveInactiveLobby(l) \/ JoinLobby(i, l) \/ LeaveLobby(i, l),
               \A k \in LobbyId : MatchStands(k)
        PROVE  ReadyInv'
    <2> DEFINE row == [request[r] EXCEPT !.call = n]
    <2>1. request' = [request EXCEPT ![r] = row]
      BY <1>4 DEF Goto
    <2>2. /\ row.action = request[r].action /\ row.lobbyId = request[r].lobbyId
          /\ row.captured = request[r].captured /\ row.call = n
      BY DEF RequestsInv, RequestRow
    <2> HIDE DEF row
    <2>3. \A k \in LobbyId : Standing(k) /\ (~ Exists(k) => ~ Exists(k)')
      BY <1>4, OthersStand
    <2> QED BY <1>1, <1>2, <1>4, <2>1, <2>2, <2>3, VisitorReady
  <1>5. CASE CallJoin(r) \/ CallLeave(r)
    <2>1. PICK n \in {"list_assigned", "list_after_leave", "done"} :
            /\ Goto(r, n) /\ match' = match
            /\ UNCHANGED lobby \/ JoinLobby(i, l) \/ LeaveLobby(i, l)
            /\ n = "list_assigned" => At(r, "join_lobby")
            /\ n = "list_after_leave" => At(r, "leave_lobby")
      BY <1>2, <1>5 DEF CallJoin, CallLeave, Upstream, Directory, directory
    <2>2. CallOK(request[r].action, n)
      BY <1>2, <2>1, <1>5 DEF CallOK, At, CallJoin, CallLeave
    <2> QED BY <1>3, <1>4, <2>1, <2>2
  <1>6. CASE ListAssigned(r)
    <2>1. Goto(r, "done") /\ match' = match /\ UNCHANGED lobby
      BY <1>6 DEF ListAssigned, directory
    <2>2. CallOK(request[r].action, "done")
      BY <1>2, <1>1 DEF CallOK, Ended
    <2> QED BY <1>3, <1>4, <2>1, <2>2
  <1>7. CASE ListBeforeLeave(r)
    <2> DEFINE row == [request[r] EXCEPT !.captured = lobby[l].matchDatabase,
                                         !.call = "leave_lobby"]
    <2>1. /\ request' = [request EXCEPT ![r] = row] /\ match' = match /\ UNCHANGED lobby
          /\ request[r].call = "list_before_leave"
      BY <1>2, <1>7 DEF ListBeforeLeave, At, directory
    <2>2. /\ row.action = request[r].action /\ row.lobbyId = request[r].lobbyId
          /\ row.captured = lobby[l].matchDatabase /\ row.call = "leave_lobby"
      BY DEF RequestsInv, RequestRow
    <2>3. lobby[l].matchDatabase = NoDb \/ Provided(l)
      BY <1>2 DEF Door, OpenOK
    <2>4. CallOK(request[r].action, "leave_lobby")
      BY <1>2, <2>1 DEF CallOK
    <2> HIDE DEF row
    <2>5. \A k \in LobbyId : Standing(k) /\ (~ Exists(k) => ~ Exists(k)')
      BY <2>1, OthersStand
    <2> QED BY <1>1, <1>2, <1>3, <2>1, <2>2, <2>3, <2>4, <2>5, VisitorReady
  <1>8. CASE ListAfterLeave(r)
    <2>1. PICK n \in {"delete", "done"} :
            /\ Goto(r, n) /\ match' = match /\ UNCHANGED lobby
            /\ request[r].call = "list_after_leave"
            /\ n = "delete" => request[r].captured # NoDb /\ ~ Exists(l)
      BY <1>2, <1>8 DEF ListAfterLeave, Cleanup, At, directory
    <2>2. CallOK(request[r].action, n)
      BY <1>2, <2>1 DEF CallOK
    <2> QED BY <1>3, <1>4, <2>1, <2>2
  <1>9. CASE CallDelete(r)
    <2>1. /\ request[r].call = "delete" /\ Goto(r, "done") /\ UNCHANGED lobby
          /\ match' = match \/ match' = [match EXCEPT ![l] = NoMatch]
      BY <1>2, <1>9 DEF CallDelete, Upstream, Server, At, directory
    <2>2. Provided(l) /\ ~ Exists(l)
      BY <1>2, <2>1 DEF CleanupOK
    <2>3. \A k \in LobbyId : MatchStands(k)
      BY <2>1, <2>2 DEF MatchStands, MatchesInv
    <2>4. CallOK(request[r].action, "done")
      BY <1>1, <1>2 DEF CallOK, Ended
    <2> QED BY <1>4, <2>1, <2>3, <2>4
  <1> QED BY <1>2, <1>5, <1>6, <1>7, <1>8, <1>9
          DEF Work, CallCreate, ListCreated, CallBegin, CallPublish, CallConfigure,
              CallComplete, CallFail, At, CallOK

\* The platform cuts any request off.
LEMMA CutOffReady ==
  ASSUME RequestsInv, DirectoryInv, ReadyInv, NEW r \in Request, CutOff(r)
  PROVE  ReadyInv'
  <1>1. /\ Goto(r, "done") /\ UNCHANGED <<lobby, match>>
        /\ request[r].call \notin Ended
    BY DEF CutOff, Ended, directory
  <1>2. CallOK(request[r].action, "done")
    BY <1>1 DEF ReadyInv, CallOK, Ended
  <1>3. /\ Forward /\ \A q \in Request \ {r} : request'[q] = request[q]
        /\ request'[r].call = "done" /\ request'[r].captured = request[r].captured
    BY <1>1, <1>2, GotoForward DEF Past
  <1>4. \A l \in LobbyId : Standing(l) /\ MatchStands(l) /\ (~ Exists(l) => ~ Exists(l)')
    BY <1>1 DEF Standing, MatchStands, Exists
  <1>5. ASSUME NEW q \in Request, request'[q].call = "delete"
        PROVE  request'[q].captured # NoDb /\ ~ Exists(request[q].lobbyId)'
    <2>1. request'[q] = request[q]
      BY <1>3, <1>5
    <2> QED BY <1>1, <1>5, <2>1 DEF ReadyInv, CleanupOK, Exists
  <1> QED BY <1>3, <1>4, <1>5, OutsiderReady

\* Players take their seats and start, and the owner clears away.
LEMMA AroundReady ==
  ASSUME RequestsInv, DirectoryInv, MatchesInv, ReadyInv,
         \/ \E l \in LobbyId, i \in Identity :
              TakeSeat(i, l) \/ \E n \in PlayerCounts : ConfigureFirst(i, l, n)
         \/ \E l \in LobbyId : Start(l) \/ Remove(l)
         \/ AllDone \/ UNCHANGED vars
  PROVE  ReadyInv'
  <1>1. request' = request
    BY DEF Start, TakeSeat, ConfigureFirst, Remove, AllDone, vars
  <1>2. \A l \in LobbyId : Standing(l) /\ (~ Exists(l) => ~ Exists(l)')
    <2>1. UNCHANGED lobby \/ \E l \in LobbyId : RemoveInactiveLobby(l)
      BY DEF Start, TakeSeat, ConfigureFirst, Remove, AllDone, vars, directory
    <2>2. UNCHANGED lobby => \A l \in LobbyId : Standing(l) /\ (~ Exists(l) => ~ Exists(l)')
      BY DEF Standing, Exists
    <2> QED BY <2>1, <2>2, OthersStand
  <1>3. \A l \in LobbyId : MatchStands(l)
    <2>1. ASSUME NEW l \in LobbyId, Start(l) PROVE \A k \in LobbyId : MatchStands(k)
      <3>1. \A k \in LobbyId : /\ match'[k].published = match[k].published
                               /\ match'[k].playerCount = match[k].playerCount
                               /\ match'[k].configurator = match[k].configurator
        BY <2>1 DEF Start, MatchesInv, MatchRow
      <3> QED BY <3>1 DEF MatchStands, Suits
    <2>2. ASSUME NEW l \in LobbyId, NEW i \in Identity, TakeSeat(i, l)
          PROVE  \A k \in LobbyId : MatchStands(k)
      <3>1. \A k \in LobbyId : /\ match'[k].published = match[k].published
                               /\ match'[k].playerCount = match[k].playerCount
                               /\ match'[k].configurator = match[k].configurator
        BY <2>2 DEF TakeSeat, MatchesInv, MatchRow
      <3> QED BY <3>1 DEF MatchStands, Suits
    <2>4. ASSUME NEW l \in LobbyId, NEW i \in Identity, NEW n \in PlayerCounts,
                 ConfigureFirst(i, l, n)
          PROVE  \A k \in LobbyId : MatchStands(k)
      <3>1. /\ match'[l].published /\ match'[l].configurator = i
            /\ \A k \in LobbyId \ {l} : match'[k] = match[k]
        BY <2>4, ConfigureKeeps, DirectoryAssumption DEF ConfigureFirst
      <3>2. i # NoOne /\ i # Service
        BY DirectoryAssumption, OrchestratorAssumption
      <3> QED BY <3>1, <3>2 DEF MatchStands, Suits
    <2>3. match' = match => \A k \in LobbyId : MatchStands(k)
      BY DEF MatchStands
    <2> QED BY <2>1, <2>2, <2>3, <2>4 DEF Remove, AllDone, vars
  <1>4. Forward
    BY <1>1 DEF Forward, ReadyInv
  <1>5. ASSUME NEW q \in Request, request'[q].call = "delete"
        PROVE  request'[q].captured # NoDb /\ ~ Exists(request[q].lobbyId)'
    <2> PICK k : k = request[q].lobbyId
      OBVIOUS
    <2>1. k \in LobbyId
      BY <1>1, <1>5 DEF RequestsInv, Bound, Ended
    <2>2. request[q].captured # NoDb /\ ~ Exists(k)
      BY <1>1, <1>5 DEF ReadyInv, CleanupOK
    <2>3. ~ Exists(k)'
      BY <1>2, <2>1, <2>2
    <2> QED BY <1>1, <2>2, <2>3
  <1> QED BY <1>1, <1>2, <1>3, <1>4, <1>5, OutsiderReady

\* A new request does not change what the others can rely on.  This is where it
\* matters that the id of a lobby is not used for two creates.
LEMMA SendReady ==
  ASSUME ~ Retries, RequestsInv, ReadyInv,
         NEW r \in Request, NEW i \in Identity, NEW l \in LobbyId,
         \/ \E n \in PlayerCounts : SendCreate(r, i, l, n)
         \/ SendJoin(r, i, l) \/ SendLeave(r, i, l)
  PROVE  ReadyInv'
  <1>1. PICK action, n, call :
          /\ action \in {"create", "join", "leave"}
          /\ Send(r, action, i, l, n, call)
          /\ CallOK(action, call) /\ call # "delete"
          /\ action = "create" => call = "create_lobby" /\ l \notin Sent
    BY DEF SendCreate, SendJoin, SendLeave, CallOK
  <1> DEFINE row == [action |-> action, who |-> i, lobbyId |-> l, playerCount |-> n,
                     call |-> call, captured |-> NoDb]
  <1>2. /\ request[r].action = "none" /\ request' = [request EXCEPT ![r] = row]
        /\ UNCHANGED <<lobby, match>>
    BY <1>1 DEF Send, directory
  <1>3. /\ row.action = action /\ row.lobbyId = l /\ row.call = call /\ row.captured = NoDb
    OBVIOUS
  <1> HIDE DEF row
  <1>4. request'[r] = row /\ \A q \in Request \ {r} : request'[q] = request[q]
    BY <1>2 DEF RequestsInv
  <1>5. \A k : /\ \A q \in Request : Creates(q, k) => q # r /\ Creates(q, k)'
               /\ Provided(k) => Provided(k)'
               /\ Started(k) => Started(k)'
    BY <1>2, <1>4 DEF Creates, Provided, Started
  <1>6. action = "create" => ~ \E q \in Request : Creates(q, l)
    BY <1>1 DEF Sent, Creates
  <1>7. \A p, q \in Request, k \in LobbyId : Creates(p, k)' /\ Creates(q, k)' => p = q
    <2>1. \A q \in Request \ {r} : \A k : Creates(q, k)' => Creates(q, k)
      BY <1>4 DEF Creates
    <2>2. \A k : Creates(r, k)' => k = l /\ action = "create"
      BY <1>3, <1>4 DEF Creates
    <2> QED BY <1>6, <2>1, <2>2 DEF ReadyInv
  <1>8. action = "create" => ~ Exists(l)
    BY <1>6 DEF ReadyInv, Started
  <1>9. ASSUME NEW q \in Request
        PROVE  /\ CallOK(request[q].action, request[q].call)'
               /\ request'[q].action = "create" => ProvisionOK(q)'
               /\ CleanupOK(q)'
    <2>1. CASE q = r
      <3>1. action = "create" => ProvisionOK(r)'
        BY <1>1, <1>2, <1>3, <1>4, <1>8 DEF ProvisionOK, Exists
      <3>2. CleanupOK(r)'
        BY <1>1, <1>3, <1>4 DEF CleanupOK
      <3> QED BY <1>1, <1>3, <1>4, <2>1, <3>1, <3>2
    <2>2. CASE q # r
      <3>1. /\ CallOK(request[q].action, request[q].call)
            /\ request[q].action = "create" => ProvisionOK(q)
            /\ CleanupOK(q)
        BY DEF ReadyInv
      <3>2. CallOK(request[q].action, request[q].call)'
        BY <1>4, <2>2, <3>1
      <3>3. request'[q].action = "create" => ProvisionOK(q)'
        BY <1>2, <1>4, <2>2, <3>1 DEF ProvisionOK, Exists
      <3>4. CleanupOK(q)'
        <4> PICK k : k = request[q].lobbyId
          OBVIOUS
        <4>1. request'[q] = request[q]
          BY <1>4, <2>2
        <4>2. request[q].captured # NoDb => Provided(k)'
          BY <1>5, <3>1 DEF CleanupOK
        <4>3. request[q].call = "delete" => request[q].captured # NoDb /\ ~ Exists(k)'
          BY <1>2, <3>1 DEF CleanupOK, Exists
        <4> QED BY <4>1, <4>2, <4>3 DEF CleanupOK
      <3> QED BY <3>2, <3>3, <3>4
    <2> QED BY <2>1, <2>2
  <1>10. \A k \in LobbyId : OpenOK(k)' /\ (Exists(k)' => Started(k)')
    BY <1>2, <1>5 DEF ReadyInv, OpenOK, Exists
  <1> QED BY <1>7, <1>9, <1>10 DEF ReadyInv

AllReady == DirectoryUse /\ MatchesInv /\ ReadyInv

LEMMA ReadyBegins == Init => AllReady
  <1> SUFFICES ASSUME Init PROVE AllReady
    OBVIOUS
  <1>1. DirectoryUse
    BY RequestsStart
  <1>2. MatchesInv
    <2>1. match = [l \in LobbyId |-> NoMatch] /\ assigned = {}
      BY DEF Init
    <2>2. NoMatch \in MatchRow /\ NoMatch.seated = {} /\ NoMatch.playerCount = 0
      BY DEF NoMatch, MatchRow
    <2> QED BY <2>1, <2>2, FS_EmptySet DEF MatchesInv
  <1>3. ReadyInv
    <2>1. /\ \A l \in LobbyId : lobby[l].status = "None"
          /\ \A q \in Request : /\ request[q].action = "none" /\ request[q].call = "none"
                                /\ request[q].captured = NoDb
      BY DEF Init, DirectoryInit, NewRequest, NoRow
    <2> QED BY <2>1 DEF ReadyInv, Creates, CallOK, CleanupOK, Exists, OpenOK
  <1> QED BY <1>1, <1>2, <1>3 DEF AllReady

LEMMA ReadyStep ==
  ASSUME ~ Retries, AllReady, [Next]_vars
  PROVE  AllReady'
  <1>1. DirectoryUse'
    BY UseStep DEF AllReady
  <1>2. MatchesInv'
    BY MatchesStep DEF AllReady, DirectoryUse
  <1>3. ReadyInv'
    BY CreateReady, VisitReady, CutOffReady, AroundReady, SendReady
       DEF AllReady, DirectoryUse, Next
  <1> QED BY <1>1, <1>2, <1>3 DEF AllReady

\* Whoever is let into a lobby finds a match there that has been configured, and
\* for its players unless another identity configured it first, however the
\* provisioning calls fail, are cut off or race the leave of the last player and
\* its cleanup: complete_provision is called last, and a leave deletes only what
\* nobody can be told of any more.  It rests on browsers that do not send a create
\* twice.
THEOREM OpenLobbiesAreReady ==
  ASSUME ~ Retries
  PROVE  Spec => []OpenIsReady
  <1>1. AllReady => OpenIsReady
    BY DEF AllReady, DirectoryUse, DirectoryInv, RequestsInv, RequestRow, MatchesInv, MatchRow,
       ReadyInv, OpenOK, Suits, OpenIsReady, OrchestratorTypeOK
  <1>2. AllReady /\ [Next]_vars => AllReady'
    BY ReadyStep
  <1> QED BY <1>1, <1>2, ReadyBegins, PTL DEF Spec

================================================================================
