--------------------------- MODULE MembersProofs ---------------------------
(* Members: the last administrator, and that the tables stay well-formed,  *)
(* for any accounts, members and days.                                     *)
EXTENDS Members, FiniteSetTheorems, TLAPS

\* countActivePermissionAdmins counts exactly the active accounts whose effective
\* permissions contain permissions.manage.
LEMMA CountsEffectivePermissions ==
  ASSUME NEW d, NEW day
  PROVE  Admins(d, day) = {u \in Users : d.users[u].active /\ MayManage(d, day, u)}
PROOF BY DEF Admins, MayManage, HoldsPosition, ManagesByPosition

\* What the guard of withLastAdminGuard lets through leaves somebody who manages.
LEMMA GuardSuffices ==
  ASSUME NEW before, NEW after, GuardAllows(before, after), SomebodyManages(before, today)
  PROVE  SomebodyManages(after, today)
PROOF BY CountsEffectivePermissions DEF GuardAllows, SomebodyManages

\* The row of the position is there, with its two columns.
Shape(d) == "position" \in DOMAIN d /\ {"active", "manages"} \subseteq DOMAIN d.position

\* No request and no leaving drops it.
LEMMA RequestsKeepShape ==
  ASSUME NEW d, Shape(d), NEW r \in Requests(d)
  PROVE  Shape(Written(d, d, r))
  <1> USE DEF Shape, Written
  <1>1. CASE r.op = "activate"  BY <1>1 DEF SetActive
  <1>2. CASE r.op = "access"  BY <1>2 DEF SetAccess
  <1>3. CASE r.op = "role"  BY <1>3 DEF SetRole
  <1>4. CASE r.op = "positionAccess"  BY <1>4 DEF SetPositionAccess
  <1>5. CASE r.op = "positionOn"  BY <1>5 DEF SwitchOn
  <1>6. CASE r.op = "positionOff"  BY <1>6 DEF SwitchOff
  <1>7. CASE r.op = "assign"  BY <1>7 DEF Assign
  <1>8. CASE r.op \in {"link", "unlink"}  BY <1>8 DEF Relinked
  <1>9. CASE r.op = "put"  BY <1>9 DEF PutMember, Left, Assign
  <1> QED
    BY <1>1, <1>2, <1>3, <1>4, <1>5, <1>6, <1>7, <1>8, <1>9
       DEF Requests, AccessRequests, PositionRequests, LinkRequests, PutRequests

LEMMA LeavingKeepsShape ==
  ASSUME NEW d, Shape(d), NEW p, NEW row
  PROVE  Shape(Dispatched(d, p, row))
PROOF BY DEF Shape, Dispatched, Left

\* Switching a position on takes nothing from anybody.
LEMMA SwitchingOnGives ==
  ASSUME NEW d, Shape(d), SomebodyManages(d, today)
  PROVE  SomebodyManages([d EXCEPT !.position.active = TRUE], today)
  <1>1. PICK u \in Users : d.users[u].active /\ MayManage(d, today, u)
    BY DEF SomebodyManages
  <1> DEFINE e == [d EXCEPT !.position.active = TRUE]
  <1>2. /\ e.users = d.users /\ e.role = d.role /\ e.people = d.people /\ e.held = d.held
    OBVIOUS
  <1>3. d.position.active /\ d.position.manages => e.position.active /\ e.position.manages
    BY DEF Shape
  <1>4. MayManage(e, today, u)
    BY <1>1, <1>2, <1>3 DEF MayManage, HoldsPosition, ManagesByRole
  <1> QED
    BY <1>1, <1>2, <1>4 DEF SomebodyManages

LEMMA ShapeAndDay == Spec => [](Shape(db) /\ today \in Nat)
  <1> DEFINE I == Shape(db) /\ today \in Nat
  <1>1. Init => I
    BY DEF Init, Shape
  <1>2. ASSUME I, [Next]_vars
        PROVE  I'
    <2>1. ASSUME NEW r \in Requests(db), Request(r)
          PROVE  I'
      BY <2>1, <1>2, RequestsKeepShape DEF Request
    <2>2. ASSUME NEW p \in People, DispatchLeave(p)
          PROVE  I'
      BY <2>2, <1>2, LeavingKeepsShape DEF DispatchLeave
    <2>3. CASE FindDueMembers \/ FailRun \/ Restart \/ Midnight \/ UNCHANGED vars
      BY <2>3, <1>2 DEF FindDueMembers, FailRun, Restart, Midnight, vars
    <2> QED
      BY <1>2, <2>1, <2>2, <2>3 DEF Next, Dispatch
  <1> QED
    BY <1>1, <1>2, PTL DEF Spec

\* With requests one at a time, and the dispatcher in the middle of any of its runs,
\* no step but a link or the passing of a day takes the last administrator away.
THEOREM AdministratorRemains == Spec => AdminRemains
  <1> DEFINE Linked == \E u \in Users, p \in People \cup {NoUser} : db' = Relinked(db, u, p)
  <1>1. ASSUME Shape(db), today \in Nat, [Next]_vars, today' = today, SomebodyManages(db, today), ~Linked
        PROVE  SomebodyManages(db', today)
    <2>1. CASE UNCHANGED db
      BY <2>1, <1>1
    <2>2. ASSUME NEW r \in Requests(db), Request(r)
          PROVE  SomebodyManages(db', today)
      <3>1. CASE Guarded(r)
        BY <3>1, <2>2, <1>1, GuardSuffices DEF Request, Accepted
      <3>2. CASE r.op = "positionOn"
        <4>1. db' = [db EXCEPT !.position.active = TRUE]
          BY <3>2, <2>2 DEF Request, Written, SwitchOn
        <4> QED
          BY <4>1, <1>1, SwitchingOnGives
      <3>3. CASE r.op \in {"link", "unlink"}
        <4>1. r.user \in Users /\ (r.op = "link" => r.person \in People)
          BY <3>3, <2>2 DEF Requests, AccessRequests, PositionRequests, LinkRequests, PutRequests
        <4>2. r.op = "link" => db' = Relinked(db, r.user, r.person)
          BY <2>2 DEF Request, Written
        <4>3. r.op = "unlink" => db' = Relinked(db, r.user, NoUser)
          BY <2>2 DEF Request, Written
        <4> QED
          BY <4>1, <4>2, <4>3, <3>3, <1>1
      <3> QED
        BY <3>1, <3>2, <3>3 DEF Guarded
    <2>3. ASSUME NEW p \in People, DispatchLeave(p)
          PROVE  SomebodyManages(db', today)
      <3>1. CASE db' = db
        BY <3>1, <1>1
      <3>2. CASE db' # db
        <4>1. db' = Dispatched(db, p, due[p]) /\ GuardAllows(db, db')
          BY <3>2, <2>3 DEF DispatchLeave
        <4> QED
          BY <4>1, <1>1, GuardSuffices
      <3> QED
        BY <3>1, <3>2
    <2>4. CASE Midnight
      BY <2>4, <1>1 DEF Midnight
    <2> QED
      BY <1>1, <2>1, <2>2, <2>3, <2>4
         DEF Next, vars, Dispatch, FindDueMembers, FailRun, Restart
  <1>2. Shape(db) /\ today \in Nat /\ [Next]_vars
        => [today' = today /\ SomebodyManages(db, today) /\ ~SomebodyManages(db', today)
            => \E u \in Users, p \in People \cup {NoUser} : db' = Relinked(db, u, p)]_vars
    BY <1>1
  <1> QED
    BY <1>2, ShapeAndDay, PTL DEF Spec, AdminRemains
-----------------------------------------------------------------------------
(* The tables.                                                             *)

\* What TypeOK says of the tables.
DbOK(d) ==
  /\ d \in [users : [Users -> UserRow], role : BOOLEAN, position : PositionRow,
            people : [People -> PersonRow], held : [People -> SUBSET Assignment]]
  /\ UniqueAccounts(d)

\* Ending on one day an assignment that has begun by then keeps it well-formed.
LEMMA CutAssignment ==
  ASSUME NEW a \in Assignment, NEW e \in Dates, a.since <= e
  PROVE  [a EXCEPT !.until = e] \in Assignment
  <1> DEFINE b == [a EXCEPT !.until = e]
  <1>1. a \in [since : Dates, until : Ends]
    BY DEF Assignment
  <1>2. b \in [since : Dates, until : Ends] /\ b.since = a.since /\ b.until = e
    BY <1>1 DEF Ends
  <1> HIDE DEF b
  <1> QED
    BY <1>2 DEF Assignment

\* closeMemberPositionsAfterLeftDate leaves the assignments well-formed: it deletes the
\* ones that begin later and cuts the others.
LEMMA ClosingKeeps ==
  ASSUME NEW rows \in SUBSET Assignment, NEW left \in Dates
  PROVE  ClosedAfter(rows, left) \in SUBSET Assignment
  <1>1. ASSUME NEW a \in {b \in rows : b.since <= left}
        PROVE  (IF a.until = Open \/ a.until > left THEN [a EXCEPT !.until = left] ELSE a) \in Assignment
    BY CutAssignment
  <1> QED
    BY <1>1 DEF ClosedAfter

\* So does switching the position off.
LEMMA SwitchingOffKeeps ==
  ASSUME NEW rows \in SUBSET Assignment, NEW end \in Ends, NEW future \in BOOLEAN
  PROVE  ClosedPosition(rows, rows, end, future) \in SUBSET Assignment
  <1>1. ASSUME NEW a \in rows, end # Open, a.since <= end
        PROVE  [a EXCEPT !.until = end] \in Assignment
    BY <1>1, CutAssignment DEF Ends
  <1> QED
    BY <1>1 DEF ClosedPosition

\* Saving a collection the way it was sent makes it the one that was sent.
LEMMA SyncedSerially == ASSUME NEW old, NEW incoming PROVE Synced(old, old, incoming) = incoming
PROOF BY DEF Synced

\* Replacing some of the tables by well-formed ones keeps the tables well-formed.
LEMMA UsersKeep ==
  ASSUME NEW d, DbOK(d), NEW users \in [Users -> UserRow]
  PROVE  DbOK([d EXCEPT !.users = users])
PROOF BY DEF DbOK, UniqueAccounts

LEMMA PositionKeeps ==
  ASSUME NEW d, DbOK(d), NEW position \in PositionRow
  PROVE  DbOK([d EXCEPT !.position = position])
PROOF BY DEF DbOK, UniqueAccounts

LEMMA HeldKeeps ==
  ASSUME NEW d, DbOK(d), NEW held \in [People -> SUBSET Assignment]
  PROVE  DbOK([d EXCEPT !.held = held])
PROOF BY DEF DbOK, UniqueAccounts

LEMMA PeopleKeep ==
  ASSUME NEW d, DbOK(d), NEW people \in [People -> PersonRow],
         \A p, q \in People : p # q /\ people[p].account = people[q].account
                              => people[p].account = NoUser
  PROVE  DbOK([d EXCEPT !.people = people])
PROOF BY DEF DbOK, UniqueAccounts

\* The tables' columns.
LEMMA TablesType ==
  ASSUME NEW d, DbOK(d)
  PROVE  /\ d.users \in [Users -> UserRow] /\ d.role \in BOOLEAN /\ d.position \in PositionRow
         /\ d.people \in [People -> PersonRow] /\ d.held \in [People -> SUBSET Assignment]
         /\ \A p, q \in People : p # q /\ d.people[p].account = d.people[q].account
                                 => d.people[p].account = NoUser
PROOF BY DEF DbOK, UniqueAccounts

\* A save that assigns, and that names members whose own assignments it leaves alone,
\* keeps them well-formed.
LEMMA AssigningKeeps ==
  ASSUME NEW d, DbOK(d), NEW owners, NEW rows \in Lists
  PROVE  DbOK(Assign(d, d, owners, rows))
  <1> DEFINE held == [p \in People |-> IF p \in owners THEN Synced(d.held[p], d.held[p], rows[p])
                                        ELSE d.held[p] \cup rows[p]]
  <1>1. ASSUME NEW p \in People
        PROVE  rows[p] \in SUBSET Assignment /\ d.held[p] \in SUBSET Assignment
    BY TablesType DEF Lists, Assignments
  <1>2. held \in [People -> SUBSET Assignment]
    BY <1>1, SyncedSerially
  <1>3. Assign(d, d, owners, rows) = [d EXCEPT !.held = held]
    BY DEF Assign
  <1> HIDE DEF held
  <1> QED
    BY <1>2, <1>3, HeldKeeps

\* Every leaving keeps the tables well-formed, with the account switched off or not.
LEMMA LeftKeeps ==
  ASSUME NEW snap, NEW d, DbOK(d), NEW p \in People, NEW account \in Users \cup {NoUser},
         NEW left \in Dates, NEW deactivate \in BOOLEAN
  PROVE  DbOK(Left(snap, d, p, account, left, deactivate))
  <1> DEFINE switched == [u \in Users |-> IF deactivate /\ u = account /\ snap.users[u].active
                                          THEN [d.users[u] EXCEPT !.active = FALSE]
                                          ELSE d.users[u]]
             closed == [d.held EXCEPT ![p] = ClosedAfter(@, left)]
             one == [d EXCEPT !.users = switched]
  <1>1. Left(snap, d, p, account, left, deactivate) = [one EXCEPT !.held = closed]
    BY TablesType DEF Left
  <1>2. switched \in [Users -> UserRow]
    <2>1. ASSUME NEW u \in Users
          PROVE  d.users[u] \in UserRow /\ [d.users[u] EXCEPT !.active = FALSE] \in UserRow
      <3>1. d.users[u] \in UserRow
        BY TablesType
      <3> QED
        BY <3>1 DEF UserRow
    <2>2. ASSUME NEW u \in Users
          PROVE  (IF deactivate /\ u = account /\ snap.users[u].active
                  THEN [d.users[u] EXCEPT !.active = FALSE] ELSE d.users[u]) \in UserRow
      BY <2>1
    <2> QED
      BY <2>2
  <1>3. closed \in [People -> SUBSET Assignment]
    <2>1. d.held \in [People -> SUBSET Assignment]
      BY TablesType
    <2>2. ClosedAfter(d.held[p], left) \in SUBSET Assignment
      BY <2>1, ClosingKeeps
    <2> QED
      BY <2>1, <2>2
  <1> HIDE DEF switched, closed, one
  <1>5. DbOK(one)
    BY <1>2, UsersKeep DEF one
  <1> QED
    BY <1>1, <1>3, <1>5, HeldKeeps

\* An account that is given to a member is taken from everybody else.
LEMMA RelinkedKeeps ==
  ASSUME NEW d, DbOK(d), NEW u \in Users, NEW p
  PROVE  DbOK(Relinked(d, u, p))
  <1> DEFINE people == [q \in People |->
                          IF q = p THEN [d.people[q] EXCEPT !.account = u]
                          ELSE IF d.people[q].account = u THEN [d.people[q] EXCEPT !.account = NoUser]
                          ELSE d.people[q]]
  <1>1. Relinked(d, u, p) = [d EXCEPT !.people = people]
    BY DEF Relinked
  <1>2. ASSUME NEW q \in People
        PROVE  /\ people[q] \in PersonRow
               /\ people[q].account = IF q = p THEN u
                                      ELSE IF d.people[q].account = u THEN NoUser
                                      ELSE d.people[q].account
    <2>1. d.people[q] \in PersonRow
      BY TablesType
    <2>2. \A v \in Users \cup {NoUser} : /\ [d.people[q] EXCEPT !.account = v] \in PersonRow
                                        /\ [d.people[q] EXCEPT !.account = v].account = v
      BY <2>1 DEF PersonRow
    <2> QED
      BY <2>1, <2>2
  <1>3. people \in [People -> PersonRow]
    BY <1>2
  <1>4. ASSUME NEW q \in People, NEW z \in People, q # z, people[q].account = people[z].account
        PROVE  people[q].account = NoUser
    <2> HIDE DEF people
    <2> QED
      BY <1>2, <1>4, TablesType, MembersAssumption
  <1> HIDE DEF people
  <1> QED
    BY <1>1, <1>3, <1>4, PeopleKeep

\* A saved member: the account is nobody else's (uq_members_account), the assignments
\* are the ones that were sent.
LEMMA PutKeeps ==
  ASSUME NEW d, DbOK(d), NEW r \in PutRequests(d)
  PROVE  DbOK(PutMember(d, d, r))
  <1> DEFINE row == [account |-> r.account, left |-> r.left,
                     skipped |-> r.left # Open /\ ~r.mayDeactivate]
             people == [d.people EXCEPT ![r.person] = row]
             updated == [d EXCEPT !.people = people]
             saved == IF r.rows = Omitted THEN updated
                      ELSE Assign(d, updated, {r.person}, r.rows)
  <1>1. /\ r.person \in People /\ r.account \in Users \cup {NoUser} /\ r.left \in Ends
        /\ r.rows \in Lists \cup {Omitted} /\ r.mayDeactivate \in BOOLEAN
        /\ \A q \in People \ {r.person} :
             r.account # NoUser => d.people[q].account # r.account
    BY DEF PutRequests
  <1>2. people \in [People -> PersonRow]
    <2>1. row \in PersonRow
      BY <1>1 DEF PersonRow
    <2> HIDE DEF row
    <2> QED
      BY <2>1, <1>1, TablesType
  <1>3. ASSUME NEW p \in People, NEW q \in People, p # q, people[p].account = people[q].account
        PROVE  people[p].account = NoUser
    BY <1>1, <1>3, TablesType
  <1>4. PutMember(d, d, r) = IF LeavesNow(d, r)
                             THEN Left(d, saved, r.person, r.account, r.left, r.mayDeactivate)
                             ELSE saved
    BY DEF PutMember
  <1>5. updated.held = d.held
    OBVIOUS
  <1> HIDE DEF people
  <1>6. DbOK(updated)
    BY <1>2, <1>3, PeopleKeep
  <1>7. DbOK(saved)
    <2>1. Assign(d, updated, {r.person}, r.rows) = Assign(updated, updated, {r.person}, r.rows)
      BY <1>5 DEF Assign
    <2> HIDE DEF updated
    <2> QED
      BY <1>1, <1>6, <2>1, AssigningKeeps
  <1> HIDE DEF saved
  <1>8. LeavesNow(d, r) => r.left \in Dates
    BY <1>1 DEF LeavesNow, Ends
  <1> QED
    BY <1>1, <1>4, <1>7, <1>8, LeftKeeps

\* Every request that is served by itself keeps the tables well-formed.
LEMMA RequestsKeepTables ==
  ASSUME NEW d, DbOK(d), NEW r \in Requests(d)
  PROVE  DbOK(Written(d, d, r))
  <1>1. CASE r.op = "activate"
    <2> DEFINE users == [d.users EXCEPT ![r.user].active = r.active]
    <2>1. r.user \in Users /\ r.active \in BOOLEAN
      BY <1>1 DEF Requests, AccessRequests, PositionRequests, LinkRequests, PutRequests
    <2>2. users \in [Users -> UserRow]
      BY <2>1, TablesType DEF UserRow
    <2>3. Written(d, d, r) = [d EXCEPT !.users = users]
      BY <1>1 DEF Written, SetActive
    <2> HIDE DEF users
    <2> QED
      BY <2>2, <2>3, UsersKeep
  <1>2. CASE r.op = "access"
    <2> DEFINE users == [d.users EXCEPT ![r.user].grants =
                           Synced(d.users[r.user].grants, @, r.grants)]
    <2>1. r.user \in Users /\ r.grants \in SUBSET Grants
      BY <1>2 DEF Requests, AccessRequests, PositionRequests, LinkRequests, PutRequests
    <2>2. users \in [Users -> UserRow]
      BY <2>1, TablesType, SyncedSerially DEF UserRow
    <2>3. Written(d, d, r) = [d EXCEPT !.users = users]
      BY <1>2 DEF Written, SetAccess
    <2> HIDE DEF users
    <2> QED
      BY <2>2, <2>3, UsersKeep
  <1>3. CASE r.op = "role"
    <2>1. r.manages \in BOOLEAN
      BY <1>3 DEF Requests, AccessRequests, PositionRequests, LinkRequests, PutRequests
    <2> QED
      BY <2>1, <1>3 DEF Written, SetRole, DbOK, UniqueAccounts
  <1>4. CASE r.op \in {"positionAccess", "positionOn"}
    <2> DEFINE position == IF r.op = "positionOn" THEN [d.position EXCEPT !.active = TRUE]
                           ELSE [d.position EXCEPT !.manages = r.manages]
    <2>1. r.op = "positionAccess" => r.manages \in BOOLEAN
      BY DEF Requests, AccessRequests, PositionRequests, LinkRequests, PutRequests
    <2>2. position \in PositionRow
      BY <1>4, <2>1, TablesType DEF PositionRow
    <2>3. Written(d, d, r) = [d EXCEPT !.position = position]
      BY <1>4 DEF Written, SetPositionAccess, SwitchOn
    <2> HIDE DEF position
    <2> QED
      BY <2>2, <2>3, PositionKeeps
  <1>5. CASE r.op = "positionOff"
    <2> DEFINE position == [d.position EXCEPT !.active = FALSE]
               one == [d EXCEPT !.position = position]
               held == [p \in People |-> ClosedPosition(d.held[p], d.held[p],
                                                        r.end, r.deleteFuture)]
    <2>1. r.end \in Ends /\ r.deleteFuture \in BOOLEAN
      BY <1>5 DEF Requests, AccessRequests, PositionRequests, LinkRequests, PutRequests
    <2>2. position \in PositionRow
      BY TablesType DEF PositionRow
    <2>3. held \in [People -> SUBSET Assignment]
      BY <2>1, TablesType, SwitchingOffKeeps
    <2>5. Written(d, d, r) = [one EXCEPT !.held = held]
      BY <1>5, TablesType DEF Written, SwitchOff
    <2> HIDE DEF position, held
    <2>6. DbOK(one)
      BY <2>2, PositionKeeps
    <2> HIDE DEF one
    <2> QED
      BY <2>3, <2>5, <2>6, HeldKeeps
  <1>6. CASE r.op = "assign"
    <2>1. r.rows \in Lists
      BY <1>6 DEF Requests, AccessRequests, PositionRequests, LinkRequests, PutRequests
    <2> QED
      BY <2>1, <1>6, AssigningKeeps DEF Written
  <1>7. CASE r.op \in {"link", "unlink"}
    <2>1. r.user \in Users
      BY <1>7 DEF Requests, AccessRequests, PositionRequests, LinkRequests, PutRequests
    <2>2. Written(d, d, r) = Relinked(d, r.user, IF r.op = "link" THEN r.person ELSE NoUser)
      BY <1>7 DEF Written
    <2> QED
      BY <2>1, <2>2, RelinkedKeeps
  <1>8. CASE r.op = "put"
    <2>1. r \in PutRequests(d)
      BY <1>8 DEF Requests, AccessRequests, PositionRequests, LinkRequests
    <2> QED
      BY <2>1, <1>8, PutKeeps DEF Written
  <1> QED
    BY <1>1, <1>2, <1>3, <1>4, <1>5, <1>6, <1>7, <1>8
       DEF Requests, AccessRequests, PositionRequests, LinkRequests, PutRequests

\* TypeOK, and that the dispatcher's run only holds members who leave.
TypeInv == TypeOK /\ \A p \in DOMAIN due : due[p].left # Open

\* The empty tables of a start are well-formed.
LEMMA TablesAtFirst == Init => DbOK(db)
  <1> SUFFICES ASSUME Init PROVE DbOK(db)
    OBVIOUS
  <1>1. PICK admin \in Users, grant \in Grants :
          db = [users |-> [u \in Users |-> [active |-> TRUE,
                                            grants |-> IF u = admin THEN {grant} ELSE {}]],
                role |-> TRUE,
                position |-> [active |-> TRUE, manages |-> FALSE],
                people |-> [p \in People |-> [account |-> NoUser, left |-> Open,
                                              skipped |-> FALSE]],
                held |-> [p \in People |-> {}]]
    BY DEF Init
  <1>3. db.users \in [Users -> UserRow]
    BY <1>1 DEF UserRow
  <1>4. db.people \in [People -> PersonRow]
    BY <1>1 DEF PersonRow, Ends
  <1>5. db.held \in [People -> SUBSET Assignment]
    BY <1>1
  <1>6. db.position \in PositionRow /\ db.role \in BOOLEAN
    BY <1>1 DEF PositionRow
  <1>7. UniqueAccounts(db)
    BY <1>1 DEF UniqueAccounts
  <1>8. db \in [users : [Users -> UserRow], role : BOOLEAN, position : PositionRow,
                people : [People -> PersonRow], held : [People -> SUBSET Assignment]]
    BY <1>1, <1>3, <1>4, <1>5, <1>6
  <1> QED
    BY <1>5, <1>7, <1>8 DEF DbOK

LEMMA TypeInit == Init => TypeInv
  <1> SUFFICES ASSUME Init PROVE TypeInv
    OBVIOUS
  <1>1. today \in Days /\ ran \in BOOLEAN /\ restarts \in 0 .. MaxRestarts /\ DOMAIN due = {}
    <2>1. MaxDay \in Nat /\ MaxRestarts \in Nat
      BY MembersAssumption
    <2>2. today = 0 /\ ran = FALSE /\ restarts = 0 /\ due = NotDue
      BY DEF Init
    <2>3. today \in Days /\ restarts \in 0 .. MaxRestarts
      BY <2>1, <2>2 DEF Days
    <2>4. ran \in BOOLEAN /\ DOMAIN due = {}
      BY <2>2 DEF NotDue
    <2> QED
      BY <2>3, <2>4
  <1> QED
    BY <1>1, TablesAtFirst DEF TypeInv, TypeOK, DbOK

LEMMA TypeNext ==
  ASSUME TypeInv, [Next]_vars
  PROVE  TypeInv'
  <1> DEFINE Rows == /\ DOMAIN due \subseteq People
                     /\ \A p \in DOMAIN due : due[p] \in PersonRow /\ due[p].left # Open
             Counts == today \in Days /\ ran \in BOOLEAN /\ restarts \in 0 .. MaxRestarts
  <1>0. /\ DbOK(db) /\ Rows /\ Counts
        /\ (DbOK(db) /\ Rows /\ Counts)' => TypeInv'
    BY DEF TypeInv, TypeOK, DbOK
  <1>1. ASSUME NEW r \in Requests(db), Request(r)
        PROVE  TypeInv'
    <2>1. DbOK(db')
      BY <1>0, <1>1, RequestsKeepTables DEF Request
    <2> QED
      BY <2>1, <1>0, <1>1 DEF Request, DbOK, UniqueAccounts
  <1>2. CASE FindDueMembers
    <2>1. ASSUME NEW p \in People, Due(p)
          PROVE  db.people[p] \in PersonRow /\ db.people[p].left # Open
      BY <2>1, <1>0, TablesType DEF Due
    <2>2. Rows'
      BY <2>1, <1>2 DEF FindDueMembers
    <2> QED
      BY <2>2, <1>0, <1>2 DEF FindDueMembers, DbOK, UniqueAccounts
  <1>3. ASSUME NEW p \in People, DispatchLeave(p)
        PROVE  TypeInv'
    <2>1. due[p].left \in Dates /\ due[p].account \in Users \cup {NoUser}
          /\ due[p].skipped \in BOOLEAN
      BY <1>0, <1>3 DEF DispatchLeave, PersonRow, Ends
    <2>2. DbOK(Dispatched(db, p, due[p]))
      BY <2>1, <1>0, LeftKeeps DEF Dispatched, Deactivates
    <2>3. DbOK(db')
      BY <2>2, <1>0, <1>3 DEF DispatchLeave
    <2>4. Rows'
      BY <1>0, <1>3 DEF DispatchLeave, Rest
    <2> QED
      BY <2>3, <2>4, <1>0, <1>3 DEF DispatchLeave, DbOK, UniqueAccounts
  <1>4. CASE FailRun \/ Restart \/ Midnight
    <2>1. Rows'
      BY <1>0, <1>4 DEF FailRun, Restart, Midnight, NotDue
    <2>2. Counts'
      <3>1. MaxDay \in Nat /\ MaxRestarts \in Nat
        BY MembersAssumption
      <3>2. (today \in Days /\ restarts \in 0 .. MaxRestarts)'
        BY <3>1, <1>0, <1>4 DEF FailRun, Restart, Midnight, Days
      <3>3. (ran \in BOOLEAN)'
        BY <1>0, <1>4 DEF FailRun, Restart, Midnight
      <3> QED
        BY <3>2, <3>3
    <2>3. UNCHANGED db
      BY <1>4 DEF FailRun, Restart, Midnight
    <2> QED
      BY <2>1, <2>2, <2>3, <1>0 DEF DbOK, UniqueAccounts
  <1>5. CASE UNCHANGED vars
    BY <1>0, <1>5 DEF vars, DbOK, UniqueAccounts
  <1> QED
    BY <1>1, <1>2, <1>3, <1>4, <1>5 DEF Next, Dispatch

\* Accounts belong to one member each and no assignment ends before it begins, however
\* members are edited, linked, closed and dispatched one after the other, whoever's
\* assignments a save carries, for any accounts, members, days and assignments.
THEOREM MembersTypeCorrect == Spec => []TypeOK
  <1>1. TypeInv => TypeOK
    BY DEF TypeInv
  <1> QED
    BY <1>1, TypeInit, TypeNext, PTL DEF Spec
=============================================================================
