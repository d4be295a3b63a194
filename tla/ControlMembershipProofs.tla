----------------------- MODULE ControlMembershipProofs -----------------------
(* Theorems about ControlMembership, for any people, workspaces and        *)
(* invitations, and any failures.                                          *)
EXTENDS ControlMembership, TLAPS

MapsOK ==
  /\ accounts \in [Emails -> Ids \cup {NoId}] /\ hidden \in SUBSET Emails
  /\ createdBy \in [Workspaces -> Ids \cup {NoId}]
  /\ role \in [Workspaces -> [Ids -> Roles \cup {"none"}]]
  /\ masked \in SUBSET (Workspaces \X Ids)
  /\ invites \in [InviteIds -> Invites]

LEMMA CurrentCopy == MapsOK <=> Current \in Copies
  BY DEF MapsOK, Current, Copies

LEMMA EmptyCopy == Empty \in Copies
  BY DEF Empty, Copies, Invites, Unused, Roles

\* What a start-up loads is a state of the maps.
LEMMA LoadMaps == ASSUME NEW s \in Copies, Load(s) PROVE MapsOK'
  BY DEF Load, MapsOK, Copies

LEMMA SaveType ==
  ASSUME MapsOK', saved \in Copies, queued \in BOOLEAN, Save
  PROVE  saved' \in Copies /\ queued' \in BOOLEAN
<1>1. Current' \in Copies
  BY DEF MapsOK, Current, Copies
<1>. QED BY <1>1 DEF Save

\* An invitation that is used, or whose author is renamed, is an invitation.
LEMMA InviteChange ==
  ASSUME NEW v \in Invites
  PROVE  /\ Used(v) \in Invites
         /\ \A old, new \in Ids : Reissued(v, old, new) \in Invites
<1>1. Used(v) \in Invites
  BY DEF Invites, Used
<1>2. ASSUME NEW old \in Ids, NEW new \in Ids PROVE Reissued(v, old, new) \in Invites
  <2>1. Renamed(v.by, old, new) \in Ids \cup {NoId}
    BY DEF Renamed, Invites
  <2>2. ASSUME NEW u \in Ids \cup {NoId} PROVE [v EXCEPT !.by = u] \in Invites
    BY DEF Invites
  <2>. QED BY <2>1, <2>2 DEF Reissued
<1>. QED BY <1>1, <1>2

LEMMA StableId == \A e \in Emails : Stable(e) \in Ids /\ EmailOf(Stable(e)) = e
  BY DEF Stable, Ids, EmailOf

LEMMA MigrateType ==
  ASSUME MapsOK, NEW old \in Ids, NEW new \in Ids, Migrate(old, new)
  PROVE  /\ createdBy' \in [Workspaces -> Ids \cup {NoId}]
         /\ role' \in [Workspaces -> [Ids -> Roles \cup {"none"}]]
         /\ masked' \in SUBSET (Workspaces \X Ids)
         /\ invites' \in [InviteIds -> Invites]
<1>1. \A u \in Ids \cup {NoId} : Renamed(u, old, new) \in Ids \cup {NoId}
  BY DEF Renamed
<1>2. createdBy' \in [Workspaces -> Ids \cup {NoId}]
  BY <1>1 DEF Migrate, MapsOK
<1>3. \A r, s \in Roles \cup {"none"} : Higher(r, s) \in Roles \cup {"none"}
  BY DEF Higher
<1>4. role' \in [Workspaces -> [Ids -> Roles \cup {"none"}]]
  BY <1>3 DEF Migrate, MapsOK
<1>5. masked' \in SUBSET (Workspaces \X Ids)
  BY DEF Migrate, MapsOK
<1>6. invites' \in [InviteIds -> Invites]
  BY InviteChange DEF Migrate, MapsOK
<1>. QED BY <1>2, <1>4, <1>5, <1>6

LEMMA InitType == Init => TypeOK
<1>. SUFFICES ASSUME Init PROVE TypeOK
  OBVIOUS
<1>1. Empty \in Copies
  BY EmptyCopy
<1>2. MapsOK
  <2>1. Legacy \subseteq Emails
    BY ControlMembershipAssumption
  <2>2. accounts \in [Emails -> Ids \cup {NoId}]
    BY <2>1 DEF Init, Ids
  <2>. QED BY <1>1, <2>2 DEF Init, MapsOK, Copies, Empty
<1>3. sessions \in SUBSET Ids
  BY ControlMembershipAssumption DEF Init, Ids
<1>. QED BY <1>2, <1>3, CurrentCopy DEF Init, TypeOK

\* Every action leaves the maps of the type they have.
LEMMA StepMaps == ASSUME TypeOK, [Next]_vars PROVE MapsOK'
<1>1. MapsOK
  BY CurrentCopy DEF TypeOK
<1>2. ASSUME NEW e \in Emails, Register(e) PROVE MapsOK'
  <2>1. accounts' \in [Emails -> Ids \cup {NoId}] /\ hidden' \in SUBSET Emails
    BY <1>1, <1>2, StableId DEF Register, MapsOK
  <2>2. CASE UNCHANGED <<members, invites>>
    BY <1>1, <2>1, <2>2 DEF MapsOK, members
  <2>3. ASSUME NEW u \in Ids, Migrate(u, Stable(e)) PROVE MapsOK'
    BY <1>1, <2>1, <2>3, MigrateType, StableId DEF MapsOK
  <2>. QED BY <1>2, <2>2, <2>3 DEF Register
<1>3. ASSUME NEW e \in Emails, LoginLegacy(e) PROVE MapsOK'
  <2>1. accounts[e] \in Ids
    BY <1>1, <1>3 DEF LoginLegacy, HasAccount, MapsOK
  <2>2. accounts' \in [Emails -> Ids \cup {NoId}]
    BY <1>1, <1>3, StableId DEF LoginLegacy, MapsOK, Renamed
  <2>. QED BY <1>1, <1>3, <2>1, <2>2, MigrateType, StableId DEF LoginLegacy, MapsOK
<1>4. ASSUME NEW a \in Ids, NEW w \in Workspaces, CreateWorkspace(a, w) PROVE MapsOK'
  BY <1>1, <1>4 DEF CreateWorkspace, MapsOK, people, Roles
<1>5. ASSUME NEW a \in Ids, NEW w \in Workspaces, NEW e \in Emails,
             NEW r \in {"member", "viewer"}, NEW i \in InviteIds, CreateInvite(a, w, e, r, i)
      PROVE  MapsOK'
  <2>1. [to |-> w, email |-> e, role |-> r, by |-> a, state |-> "open"] \in Invites
    BY DEF Invites
  <2>. QED BY <1>1, <1>5, <2>1 DEF CreateInvite, MapsOK, people, members
<1>6. ASSUME NEW a \in Ids, NEW i \in InviteIds, RevokeInvite(a, i) PROVE MapsOK'
  BY <1>1, <1>6, InviteChange DEF RevokeInvite, MapsOK, people, members
<1>7. ASSUME NEW a \in Ids, NEW i \in InviteIds, AcceptInvite(a, i) PROVE MapsOK'
  <2>1. invites' \in [InviteIds -> Invites]
    BY <1>1, <1>7, InviteChange DEF AcceptInvite, MapsOK
  <2>2. invites[i].role \in Roles \cup {"none"}
    BY <1>1 DEF MapsOK, Invites, Roles
  <2>3. role' \in [Workspaces -> [Ids -> Roles \cup {"none"}]]
    BY <1>1, <1>7, <2>2 DEF AcceptInvite, MapsOK
  <2>4. masked' \in SUBSET (Workspaces \X Ids)
    BY <1>1, <1>7 DEF AcceptInvite, MapsOK
  <2>. QED BY <1>1, <1>7, <2>1, <2>3, <2>4 DEF AcceptInvite, MapsOK, people
<1>8. ASSUME NEW a \in Ids, NEW w \in Workspaces, NEW u \in Ids, NEW r \in Roles,
             UpdateRole(a, w, u, r)
      PROVE  MapsOK'
  BY <1>1, <1>8 DEF UpdateRole, MapsOK, people
<1>9. ASSUME NEW a \in Ids, NEW w \in Workspaces, NEW u \in Ids, RemoveMember(a, w, u)
      PROVE  MapsOK'
  BY <1>1, <1>9 DEF RemoveMember, MapsOK, people
<1>10. ASSUME Restart \/ RestartUnread PROVE MapsOK'
  BY <1>10, LoadMaps, EmptyCopy DEF Restart, RestartUnread, TypeOK
<1>11. ASSUME UNCHANGED memory PROVE MapsOK'
  BY <1>1, <1>11 DEF MapsOK, memory, people, members
<1>12. ASSUME NEW a \in sessions, Request(a) PROVE MapsOK'
  <2>1. a \in Ids
    BY DEF TypeOK
  <2>. QED BY <1>12, <2>1, <1>4, <1>5, <1>6, <1>7, <1>8, <1>9 DEF Request
<1>13. (\E e \in Emails : Login(e)) \/ WriteTables \/ WriteFails \/ Shutdown \/ UNCHANGED vars
         => UNCHANGED memory
  BY DEF Login, WriteTables, WriteFails, Shutdown, vars, memory, people, members
<1>. QED BY <1>2, <1>3, <1>10, <1>11, <1>12, <1>13 DEF Next

LEMMA StepType == TypeOK /\ [Next]_vars => TypeOK'
<1>. SUFFICES ASSUME TypeOK, [Next]_vars PROVE TypeOK'
  OBVIOUS
<1>1. MapsOK' /\ Current' \in Copies
  BY StepMaps, CurrentCopy DEF MapsOK, Current, Copies
<1>2. Save => saved' \in Copies /\ queued' \in BOOLEAN
  BY <1>1, SaveType DEF TypeOK
<1>. DEFINE Rest == saved' \in Copies /\ queued' \in BOOLEAN
<1>3. ASSUME NEW e \in Emails, Register(e) \/ Login(e) \/ LoginLegacy(e)
      PROVE  Rest /\ sessions' \in SUBSET Ids
  BY <1>2, <1>3, StableId DEF Register, Login, LoginLegacy, TypeOK
<1>4. ASSUME NEW a \in sessions, Request(a) PROVE Rest /\ sessions' \in SUBSET Ids
  <2>1. Save /\ UNCHANGED sessions
    BY <1>4 DEF Request, CreateWorkspace, CreateInvite, RevokeInvite, AcceptInvite,
                UpdateRole, RemoveMember
  <2>. QED BY <1>2, <2>1 DEF TypeOK
<1>5. ASSUME WriteTables PROVE Rest /\ sessions' \in SUBSET Ids
  <2>1. MapsOK
    BY CurrentCopy DEF TypeOK
  <2>2. ASSUME NEW us \in Addressed PROVE Rows(us) \in Copies
    BY <2>1 DEF Rows, Copies, MapsOK
  <2>. QED BY <1>5, <2>2 DEF WriteTables, TypeOK
<1>6. ASSUME WriteFails \/ Restart \/ RestartUnread \/ Shutdown \/ UNCHANGED vars
      PROVE  Rest /\ sessions' \in SUBSET Ids
  BY <1>6 DEF WriteFails, Restart, RestartUnread, Shutdown, vars, TypeOK
<1>. QED BY <1>1, <1>3, <1>4, <1>5, <1>6 DEF Next, TypeOK

\* The type invariant: whatever the store, and whatever fails.
THEOREM TypeCorrect == Spec => []TypeOK
<1>. QED BY InitType, StepType, PTL DEF Spec

-----------------------------------------------------------------------------
(* What keeps the owners of a service on SQLite.  An invitation accepted   *)
(* by a member would replace his role without looking for another owner,   *)
(* so it is essential that none is open for a member; that, in turn, rests *)
(* on every membership having the person's address and on an address being *)
(* invited once at a time.                                                  *)

Open(iv, i, w, e) == iv[i].state = "open" /\ iv[i].to = w /\ iv[i].email = e

Owned(cb, ro) == \A w \in Workspaces : cb[w] # NoId => \E u \in Ids : ro[w][u] = "owner"
Deserted(cb, ro) == \A w \in Workspaces : cb[w] = NoId => \A u \in Ids : ro[w][u] = "none"
Addressees(cb, iv) ==
  \A i \in InviteIds : iv[i].state = "open" =>
    iv[i].to \in Workspaces /\ cb[iv[i].to] # NoId
Outsiders(ro, iv) ==
  \A i \in InviteIds, w \in Workspaces, u \in Ids :
    ro[w][u] # "none" => ~Open(iv, i, w, EmailOf(u))
OneInvite(iv) ==
  \A i, j \in InviteIds, w \in Workspaces, e \in Emails :
    Open(iv, i, w, e) /\ Open(iv, j, w, e) => i = j
Once(ro) ==
  \A w \in Workspaces : \A u, v \in Ids :
    ro[w][u] # "none" /\ ro[w][v] # "none" /\ EmailOf(u) = EmailOf(v) => u = v
OwnAccounts(ac) == \A e \in Emails : ac[e] # NoId => EmailOf(ac[e]) = e

Members(cb, ro, iv) == /\ Owned(cb, ro) /\ Deserted(cb, ro) /\ Addressees(cb, iv)
                       /\ Outsiders(ro, iv) /\ OneInvite(iv) /\ Once(ro)
Sound(ac, cb, ro, ma, iv) == Members(cb, ro, iv) /\ ma = {} /\ OwnAccounts(ac)

MemorySound == Sound(accounts, createdBy, role, masked, invites)
SavedSound == Sound(saved.accounts, saved.createdBy, saved.role, saved.masked, saved.invites)

IInv == TypeOK /\ (Store = "snapshot" => MemorySound /\ SavedSound /\ queued = FALSE)

LEMMA EmptySound == Sound(Empty.accounts, Empty.createdBy, Empty.role, Empty.masked, Empty.invites)
  BY DEF Sound, Members, Empty, Unused, Owned, Deserted, Addressees, Outsiders, OneInvite,
         Once, OwnAccounts, Open

\* The role that stays after a migration is an owner's if one of the two is.
LEMMA HigherRole ==
  \A r, s \in Roles \cup {"none"} :
    /\ (r = "owner" \/ s = "owner") => Higher(r, s) = "owner"
    /\ Higher(r, s) = "none" <=> r = "none" /\ s = "none"
  BY DEF Higher, Rank, Roles

\* A migration between two ids of a person keeps what is said of the members.
LEMMA MigrateMembers ==
  ASSUME MapsOK, NEW old \in Ids, NEW new \in Ids, old # new, EmailOf(old) = EmailOf(new),
         Members(createdBy, role, invites), Migrate(old, new)
  PROVE  Members(createdBy', role', invites')
<1>1. \A w \in Workspaces : (createdBy'[w] = NoId) <=> (createdBy[w] = NoId)
  BY ControlMembershipAssumption DEF Migrate, Renamed, MapsOK, Ids
<1>2. \A w \in Workspaces, u \in Ids :
        /\ u = old => role'[w][u] = "none"
        /\ u = new => role'[w][u] = Higher(role[w][old], role[w][new])
        /\ u \notin {old, new} => role'[w][u] = role[w][u]
  BY DEF Migrate
<1>3. \A w \in Workspaces, u \in Ids : role[w][u] \in Roles \cup {"none"}
  BY DEF MapsOK
<1>4. \A i \in InviteIds :
        /\ invites'[i].state = invites[i].state
        /\ invites'[i].to = invites[i].to
        /\ invites'[i].email = invites[i].email
  <2>1. ASSUME NEW v \in Invites
        PROVE  /\ Reissued(v, old, new).state = v.state
               /\ Reissued(v, old, new).to = v.to
               /\ Reissued(v, old, new).email = v.email
    BY DEF Invites, Reissued
  <2>. QED BY <2>1 DEF Migrate, MapsOK
<1>5. Owned(createdBy', role')
  BY <1>1, <1>2, <1>3, HigherRole DEF Members, Owned
<1>6. \A w \in Workspaces, u \in Ids : role'[w][u] # "none" =>
        \/ role[w][u] # "none" /\ u # old
        \/ role[w][old] # "none" /\ u = new
  BY <1>2, <1>3, HigherRole
<1>7. Deserted(createdBy', role')
  <2>1. ASSUME NEW w \in Workspaces, createdBy'[w] = NoId, NEW u \in Ids
        PROVE  role'[w][u] = "none"
    <3>1. role[w][u] = "none" /\ role[w][old] = "none"
      BY <1>1, <2>1 DEF Members, Deserted
    <3>. QED BY <1>6, <3>1
  <2>. QED BY <2>1 DEF Deserted
<1>8. Addressees(createdBy', invites')
  BY <1>1, <1>4 DEF Members, Addressees
<1>9. Outsiders(role', invites')
  BY <1>4, <1>6 DEF Members, Outsiders, Open
<1>10. OneInvite(invites')
  BY <1>4 DEF Members, OneInvite, Open
<1>11. Once(role')
  BY <1>6 DEF Members, Once
<1>. QED BY <1>5, <1>7, <1>8, <1>9, <1>10, <1>11 DEF Members

\* Without masked addresses, a member is found by the address.
LEMMA FoundByAddress ==
  ASSUME masked = {}
  PROVE  \A w \in Workspaces, u \in Ids : HasEmail(w, u, EmailOf(u)) <=> role[w][u] # "none"
  BY DEF HasEmail, IsMember

\* Every step keeps what is said of the maps.
LEMMA StepSound ==
  ASSUME TypeOK, MemorySound, SavedSound, [Next]_vars, Store = "snapshot"
  PROVE  MemorySound'
<1>1. MapsOK
  BY CurrentCopy DEF TypeOK
<1>2. masked = {} /\ OwnAccounts(accounts) /\ Members(createdBy, role, invites)
  BY DEF MemorySound, Sound
<1>3. ASSUME NEW e \in Emails, Register(e) PROVE MemorySound'
  <2>1. OwnAccounts(accounts')
    BY <1>1, <1>2, <1>3, StableId DEF Register, OwnAccounts, MapsOK
  <2>2. CASE UNCHANGED <<members, invites>>
    BY <1>2, <2>1, <2>2 DEF members, MemorySound, Sound
  <2>3. ASSUME NEW w \in Workspaces, NEW u \in Ids \ {Stable(e)}, HasEmail(w, u, e),
               Migrate(u, Stable(e))
        PROVE  MemorySound'
    <3>1. EmailOf(u) = EmailOf(Stable(e)) /\ u # Stable(e) /\ Stable(e) \in Ids
      BY <2>3, StableId DEF HasEmail
    <3>2. Members(createdBy', role', invites')
      BY <1>1, <1>2, <2>3, <3>1, MigrateMembers
    <3>3. masked' = {}
      BY <1>2, <2>3 DEF Migrate
    <3>. QED BY <2>1, <3>2, <3>3 DEF MemorySound, Sound
  <2>. QED BY <1>3, <2>2, <2>3 DEF Register
<1>4. ASSUME NEW e \in Emails, LoginLegacy(e) PROVE MemorySound'
  <2>1. accounts[e] \in Ids /\ EmailOf(accounts[e]) = e
    BY <1>1, <1>2, <1>4 DEF LoginLegacy, HasAccount, MapsOK, OwnAccounts
  <2>2. Members(createdBy', role', invites')
    BY <1>1, <1>2, <1>4, <2>1, MigrateMembers, StableId DEF LoginLegacy
  <2>3. OwnAccounts(accounts')
    <3>1. ASSUME NEW x \in Emails, accounts'[x] # NoId PROVE EmailOf(accounts'[x]) = x
      <4>1. accounts'[x] = IF accounts[x] = accounts[e] THEN Stable(e) ELSE accounts[x]
        BY <1>4 DEF LoginLegacy, Renamed
      <4>2. CASE accounts[x] = accounts[e]
        <5>1. accounts[x] # NoId
          BY <1>4, <4>2 DEF LoginLegacy, HasAccount
        <5>2. x = e
          BY <1>2, <2>1, <4>2, <5>1 DEF OwnAccounts
        <5>. QED BY <4>1, <4>2, <5>2, StableId
      <4>3. CASE accounts[x] # accounts[e]
        BY <1>2, <3>1, <4>1, <4>3 DEF OwnAccounts
      <4>. QED BY <4>2, <4>3
    <3>. QED BY <3>1 DEF OwnAccounts
  <2>4. masked' = {}
    BY <1>2, <1>4 DEF LoginLegacy, Migrate
  <2>. QED BY <2>2, <2>3, <2>4 DEF MemorySound, Sound
<1>5. ASSUME NEW a \in sessions, Request(a) PROVE MemorySound'
  <2>. SUFFICES Members(createdBy', role', invites') /\ masked' = {} /\ accounts' = accounts
    BY <1>2 DEF MemorySound, Sound
  <2>. DEFINE Goal == Members(createdBy', role', invites') /\ masked' = {} /\ accounts' = accounts
  <2>a. a \in Ids
    BY DEF TypeOK
  <2>1. ASSUME NEW w \in Workspaces, CreateWorkspace(a, w) PROVE Goal
    <3>1. \A x \in Workspaces : x # w => role'[x] = role[x] /\ createdBy'[x] = createdBy[x]
      BY <1>1, <2>1 DEF CreateWorkspace, MapsOK
    <3>2. /\ createdBy[w] = NoId /\ createdBy'[w] = a
          /\ \A u \in Ids : role'[w][u] = IF u = a THEN "owner" ELSE "none"
      BY <1>1, <2>1 DEF CreateWorkspace, MapsOK
    <3>3. invites' = invites /\ masked' = {} /\ accounts' = accounts
      BY <1>2, <2>1 DEF CreateWorkspace, people
    <3>4. a # NoId
      BY <2>a, ControlMembershipAssumption DEF Ids
    <3>5. Owned(createdBy', role') /\ Deserted(createdBy', role')
      BY <1>2, <2>a, <3>1, <3>2, <3>4 DEF Members, Owned, Deserted
    <3>6. Addressees(createdBy', invites')
      BY <1>2, <3>1, <3>2, <3>3, <3>4 DEF Members, Addressees
    <3>7. \A i \in InviteIds, e \in Emails : ~Open(invites, i, w, e)
      BY <1>2, <3>2 DEF Members, Addressees, Open
    <3>8. \A u \in Ids : EmailOf(u) \in Emails
      BY DEF Ids, EmailOf
    <3>9. Outsiders(role', invites')
      BY <1>2, <3>1, <3>3, <3>7, <3>8 DEF Members, Outsiders
    <3>10. OneInvite(invites') /\ Once(role')
      BY <1>2, <3>1, <3>2, <3>3 DEF Members, OneInvite, Once
    <3>. QED BY <3>3, <3>5, <3>6, <3>9, <3>10 DEF Members
  <2>2. ASSUME NEW w \in Workspaces, NEW e \in Emails, NEW r \in {"member", "viewer"},
               NEW i \in InviteIds, CreateInvite(a, w, e, r, i)
        PROVE  Goal
    <3>1. /\ invites'[i].state = "open" /\ invites'[i].to = w /\ invites'[i].email = e
          /\ \A j \in InviteIds : j # i => invites'[j] = invites[j]
      BY <1>1, <2>2 DEF CreateInvite, MapsOK
    <3>2. UNCHANGED <<createdBy, role, accounts>> /\ masked' = {}
      BY <1>2, <2>2 DEF CreateInvite, people, members
    <3>3. createdBy[w] # NoId
      BY <1>2, <2>a, <2>2 DEF CreateInvite, CanManage, IsOwner, Members, Deserted
    <3>4. \A u \in Ids : EmailOf(u) = e => role[w][u] = "none"
      BY <1>2, <2>2, FoundByAddress DEF CreateInvite
    <3>5. \A j \in InviteIds : ~Open(invites, j, w, e)
      BY <2>2 DEF CreateInvite, OpenInvite, Open
    <3>6. Addressees(createdBy', invites')
      BY <1>2, <3>1, <3>2, <3>3 DEF Members, Addressees
    <3>7. Outsiders(role', invites')
      BY <1>2, <3>1, <3>2, <3>4 DEF Members, Outsiders, Open
    <3>8. OneInvite(invites')
      BY <1>2, <3>1, <3>5 DEF Members, OneInvite, Open
    <3>. QED BY <1>2, <3>2, <3>6, <3>7, <3>8 DEF Members
  <2>3. ASSUME NEW i \in InviteIds, RevokeInvite(a, i) \/ AcceptInvite(a, i)
        PROVE  /\ invites'[i].state = "used"
               /\ \A j \in InviteIds : j # i => invites'[j] = invites[j]
    <3>1. Used(invites[i]).state = "used"
      BY <1>1 DEF Used, MapsOK, Invites
    <3>. QED BY <1>1, <2>3, <3>1 DEF RevokeInvite, AcceptInvite, MapsOK
  <2>4. ASSUME NEW i \in InviteIds, RevokeInvite(a, i) PROVE Goal
    <3>1. UNCHANGED <<createdBy, role, accounts>> /\ masked' = {}
      BY <1>2, <2>4 DEF RevokeInvite, people, members
    <3>. QED BY <1>2, <2>3, <2>4, <3>1
             DEF Members, Addressees, Outsiders, OneInvite, Open
  <2>5. ASSUME NEW i \in InviteIds, AcceptInvite(a, i) PROVE Goal
    <3>. DEFINE w == invites[i].to
    <3>1. w \in Workspaces /\ createdBy[w] # NoId /\ Open(invites, i, w, EmailOf(a))
      BY <1>2, <2>5 DEF AcceptInvite, Members, Addressees, Open
    <3>2. role[w][a] = "none" /\ \A u \in Ids : EmailOf(u) = EmailOf(a) => role[w][u] = "none"
      BY <1>2, <2>a, <3>1 DEF Members, Outsiders
    <3>3. UNCHANGED <<createdBy, accounts>> /\ masked' = {}
      BY <1>2, <2>5 DEF AcceptInvite, people
    <3>4. \A x \in Workspaces, u \in Ids : ~(x = w /\ u = a) => role'[x][u] = role[x][u]
      BY <1>1, <2>5 DEF AcceptInvite, MapsOK
    <3>5. Owned(createdBy', role')
      BY <1>2, <3>2, <3>3, <3>4 DEF Members, Owned
    <3>6. Deserted(createdBy', role')
      BY <1>2, <3>1, <3>3, <3>4 DEF Members, Deserted
    <3>7. Addressees(createdBy', invites')
      BY <1>2, <2>3, <2>5, <3>3 DEF Members, Addressees
    <3>8. OneInvite(invites')
      BY <1>2, <2>3, <2>5 DEF Members, OneInvite, Open
    <3>9. EmailOf(a) \in Emails
      BY <2>a DEF Ids, EmailOf
    <3>10. \A j \in InviteIds : j # i => ~Open(invites, j, w, EmailOf(a))
      BY <1>2, <3>1, <3>9 DEF Members, OneInvite
    <3>11. Outsiders(role', invites')
      BY <1>2, <2>3, <2>5, <3>4, <3>10 DEF Members, Outsiders, Open
    <3>12. Once(role')
      BY <1>2, <3>2, <3>4 DEF Members, Once
    <3>. QED BY <3>3, <3>5, <3>6, <3>7, <3>8, <3>11, <3>12 DEF Members
  <2>6. ASSUME NEW w \in Workspaces, NEW u \in Ids, NEW r \in Roles \cup {"none"},
               role[w][u] # "none",
               role[w][u] = "owner" /\ r # "owner" => AnotherOwner(w, u),
               role' = [role EXCEPT ![w] = [role[w] EXCEPT ![u] = r]],
               UNCHANGED <<createdBy, invites, accounts>>, masked' = {}
        PROVE  Goal
    <3>1. \A x \in Workspaces, v \in Ids : ~(x = w /\ v = u) => role'[x][v] = role[x][v]
      BY <1>1, <2>6 DEF MapsOK
    <3>2. role'[w][u] = r
      BY <1>1, <2>6 DEF MapsOK
    <3>3. Owned(createdBy', role')
      BY <1>2, <2>6, <3>1, <3>2 DEF Members, Owned, AnotherOwner
    <3>4. Deserted(createdBy', role')
      BY <1>2, <2>6, <3>1 DEF Members, Deserted
    <3>5. \A x \in Workspaces, v \in Ids : role'[x][v] # "none" => role[x][v] # "none"
      BY <2>6, <3>1
    <3>6. Outsiders(role', invites') /\ Once(role')
      BY <1>2, <2>6, <3>5 DEF Members, Outsiders, Once
    <3>. QED BY <1>2, <2>6, <3>3, <3>4, <3>6 DEF Members
  <2>7. ASSUME NEW w \in Workspaces, NEW u \in Ids, NEW r \in Roles, UpdateRole(a, w, u, r)
        PROVE  Goal
    <3>1. UNCHANGED <<createdBy, invites, accounts>> /\ masked' = {}
      BY <1>2, <2>7 DEF UpdateRole, people
    <3>. QED BY <2>6, <2>7, <3>1 DEF UpdateRole, IsMember
  <2>8. ASSUME NEW w \in Workspaces, NEW u \in Ids, RemoveMember(a, w, u) PROVE Goal
    <3>1. UNCHANGED <<createdBy, invites, accounts>> /\ masked' = {}
      BY <1>2, <2>8 DEF RemoveMember, people
    <3>. QED BY <2>6, <2>8, <3>1 DEF RemoveMember, IsMember
  <2>. HIDE DEF Goal
  <2>9. Goal
    BY <1>5, <2>1, <2>2, <2>4, <2>5, <2>7, <2>8 DEF Request
  <2>. QED BY <2>9 DEF Goal
<1>6. ASSUME Restart PROVE MemorySound'
  BY <1>6 DEF Restart, Load, MemorySound, SavedSound
<1>7. ASSUME RestartUnread PROVE MemorySound'
  BY <1>7, EmptySound DEF RestartUnread, Load, MemorySound
<1>8. (\E e \in Emails : Login(e)) \/ WriteTables \/ WriteFails \/ Shutdown \/ UNCHANGED vars
         => UNCHANGED memory
  BY DEF Login, WriteTables, WriteFails, Shutdown, vars, memory, people, members
<1>9. UNCHANGED memory => MemorySound'
  BY DEF memory, people, members, MemorySound
<1>. QED BY <1>3, <1>4, <1>5, <1>6, <1>7, <1>8, <1>9 DEF Next

\* The copy is the maps after this step or the copy before it.
LEMMA StepSaved ==
  ASSUME MemorySound, SavedSound, MemorySound', [Next]_vars, Store = "snapshot", queued = FALSE
  PROVE  SavedSound' /\ queued' = FALSE
<1>1. saved' = Current' => SavedSound'
  BY DEF Current, SavedSound, MemorySound
<1>2. UNCHANGED saved => SavedSound'
  BY DEF SavedSound
<1>3. Save => SavedSound' /\ queued' = FALSE
  BY <1>1, <1>2 DEF Save
<1>4. ASSUME NEW e \in Emails, Register(e) \/ Login(e) \/ LoginLegacy(e)
      PROVE  SavedSound' /\ queued' = FALSE
  BY <1>2, <1>3, <1>4 DEF Register, Login, LoginLegacy
<1>5. ASSUME NEW a \in sessions, Request(a) PROVE SavedSound' /\ queued' = FALSE
  <2>1. Save
    BY <1>5 DEF Request, CreateWorkspace, CreateInvite, RevokeInvite, AcceptInvite,
                UpdateRole, RemoveMember
  <2>. QED BY <1>3, <2>1
<1>6. ASSUME Shutdown PROVE SavedSound' /\ queued' = FALSE
  BY <1>6 DEF Shutdown, Current, SavedSound, MemorySound
<1>7. ASSUME WriteTables \/ WriteFails PROVE FALSE
  BY <1>7 DEF WriteTables, WriteFails
<1>8. ASSUME Restart \/ RestartUnread \/ UNCHANGED vars PROVE SavedSound' /\ queued' = FALSE
  BY <1>2, <1>8 DEF Restart, RestartUnread, vars
<1>. QED BY <1>4, <1>5, <1>6, <1>7, <1>8 DEF Next

LEMMA InitInv == Init => IInv
<1>. SUFFICES ASSUME Init PROVE IInv
  OBVIOUS
<1>1. OwnAccounts(accounts)
  BY DEF Init, OwnAccounts, EmailOf
<1>2. Members(createdBy, role, invites)
  BY EmptySound DEF Init, Sound
<1>3. MemorySound
  BY <1>1, <1>2 DEF Init, MemorySound, Sound
<1>4. SavedSound
  BY <1>3 DEF Init, Current, SavedSound, MemorySound
<1>. QED BY <1>3, <1>4, InitType DEF IInv, Init

LEMMA StepInv == IInv /\ [Next]_vars => IInv'
<1>. SUFFICES ASSUME IInv, [Next]_vars PROVE IInv'
  OBVIOUS
<1>1. TypeOK'
  BY StepType DEF IInv
<1>2. ASSUME Store = "snapshot" PROVE MemorySound' /\ SavedSound' /\ queued' = FALSE
  BY <1>2, StepSound, StepSaved DEF IInv
<1>. QED BY <1>1, <1>2 DEF IInv

LEMMA SoundMeans ==
  IInv /\ Store = "snapshot" => EveryWorkspaceHasAnOwner /\ PersonJoinsOnce /\ InvitesAreForOutsiders
<1>. SUFFICES ASSUME IInv, Store = "snapshot"
              PROVE  EveryWorkspaceHasAnOwner /\ PersonJoinsOnce /\ InvitesAreForOutsiders
  OBVIOUS
<1>1. Members(createdBy, role, invites)
  BY DEF IInv, MemorySound, Sound
<1>. QED BY <1>1 DEF Members, Owned, Once, Outsiders, Open, OpenInvite, IsMember,
                     EveryWorkspaceHasAnOwner, PersonJoinsOnce, InvitesAreForOutsiders

\* On SQLite a workspace always has an owner, whichever writes fail and
\* whenever the process ends or starts without its copy.
THEOREM OwnersStay == Store = "snapshot" => (Spec => []EveryWorkspaceHasAnOwner)
<1>. SUFFICES ASSUME Store = "snapshot" PROVE Spec => []EveryWorkspaceHasAnOwner
  OBVIOUS
<1>1. IInv => EveryWorkspaceHasAnOwner
  BY SoundMeans
<1>. QED BY <1>1, InitInv, StepInv, PTL DEF Spec

\* There, a person is a member of a workspace under one user id at most.
THEOREM PeopleJoinOnce == Store = "snapshot" => (Spec => []PersonJoinsOnce)
<1>. SUFFICES ASSUME Store = "snapshot" PROVE Spec => []PersonJoinsOnce
  OBVIOUS
<1>1. IInv => PersonJoinsOnce
  BY SoundMeans
<1>. QED BY <1>1, InitInv, StepInv, PTL DEF Spec

\* There, no invitation is open for somebody who is a member.
THEOREM MembersAreNotInvited == Store = "snapshot" => (Spec => []InvitesAreForOutsiders)
<1>. SUFFICES ASSUME Store = "snapshot" PROVE Spec => []InvitesAreForOutsiders
  OBVIOUS
<1>1. IInv => InvitesAreForOutsiders
  BY SoundMeans
<1>. QED BY <1>1, InitInv, StepInv, PTL DEF Spec

-----------------------------------------------------------------------------
(* What is never lost.  A workspace that has been written is one the maps  *)
(* know, as long as a start-up can read the copy: so no later write, of    *)
(* either store, leaves it out.  An account of the maps is, on SQLite and  *)
(* when writing does not fail, one of the copy: so a restart finds it.     *)

Known(cb, w) == cb[w] # NoId
WorkspacesKnown == \A w \in Workspaces : Known(saved.createdBy, w) => Known(createdBy, w)

Found(ac, hi, e) == ac[e] # NoId /\ e \notin hi
AccountsSaved ==
  \A e \in Emails : Found(accounts, hidden, e) => Found(saved.accounts, saved.hidden, e)

NoWorkspaceForgotten ==
  \A w \in Workspaces : Known(createdBy, w) => Known(createdBy', w)

AnyRequest == \/ \E e \in Emails : Register(e) \/ Login(e) \/ LoginLegacy(e)
              \/ \E a \in sessions : Request(a)

\* No request forgets a workspace or an account.
LEMMA RequestsForgetNothing ==
  ASSUME TypeOK, AnyRequest
  PROVE  /\ NoWorkspaceForgotten
         /\ \A e \in Emails : Found(accounts, hidden, e) => Found(accounts', hidden', e)
<1>. DEFINE Goal == /\ NoWorkspaceForgotten
                    /\ \A e \in Emails : Found(accounts, hidden, e) => Found(accounts', hidden', e)
<1>1. MapsOK
  BY CurrentCopy DEF TypeOK
<1>2. \A e \in Emails : Stable(e) # NoId
  BY StableId, ControlMembershipAssumption DEF Ids
<1>3. ASSUME NEW old, NEW e \in Emails, Migrate(old, Stable(e)) PROVE NoWorkspaceForgotten
  BY <1>1, <1>2, <1>3 DEF NoWorkspaceForgotten, Known, Migrate, Renamed
<1>4. ASSUME NEW e \in Emails, Register(e) PROVE Goal
  <2>1. NoWorkspaceForgotten
    BY <1>3, <1>4 DEF Register, NoWorkspaceForgotten, Known, members
  <2>. QED BY <1>1, <1>2, <1>4, <2>1 DEF Register, Found, MapsOK
<1>5. ASSUME NEW e \in Emails, Login(e) PROVE Goal
  BY <1>5 DEF Login, memory, people, members, NoWorkspaceForgotten, Known, Found
<1>6. ASSUME NEW e \in Emails, LoginLegacy(e) PROVE Goal
  BY <1>2, <1>3, <1>6 DEF LoginLegacy, Renamed, Found
<1>7. ASSUME NEW a \in sessions, Request(a) PROVE Goal
  <2>1. UNCHANGED people
    BY <1>7 DEF Request, CreateWorkspace, CreateInvite, RevokeInvite, AcceptInvite,
                UpdateRole, RemoveMember, people
  <2>2. ASSUME NEW w \in Workspaces, CreateWorkspace(a, w) PROVE NoWorkspaceForgotten
    <3>1. a # NoId
      BY ControlMembershipAssumption DEF TypeOK, Ids
    <3>. QED BY <1>1, <2>2, <3>1 DEF CreateWorkspace, NoWorkspaceForgotten, Known, MapsOK
  <2>3. UNCHANGED createdBy => NoWorkspaceForgotten
    BY DEF NoWorkspaceForgotten, Known
  <2>4. NoWorkspaceForgotten
    BY <1>7, <2>2, <2>3 DEF Request, CreateInvite, RevokeInvite, AcceptInvite,
                            UpdateRole, RemoveMember, members
  <2>. QED BY <2>1, <2>4 DEF people, Found
<1>. HIDE DEF Goal
<1>8. Goal
  BY <1>4, <1>5, <1>6, <1>7 DEF AnyRequest
<1>. QED BY <1>8 DEF Goal

\* Every request but a login saves.
LEMMA RequestsSave == ASSUME AnyRequest PROVE Save \/ UNCHANGED <<memory, saved, queued>>
<1>1. ASSUME NEW e \in Emails, Register(e) \/ Login(e) \/ LoginLegacy(e)
      PROVE  Save \/ UNCHANGED <<memory, saved, queued>>
  BY <1>1 DEF Register, Login, LoginLegacy
<1>2. ASSUME NEW a \in sessions, Request(a) PROVE Save
  BY <1>2 DEF Request, CreateWorkspace, CreateInvite, RevokeInvite, AcceptInvite,
              UpdateRole, RemoveMember
<1>. QED BY <1>1, <1>2 DEF AnyRequest

KeepsWorkspaces ==
  \A w \in Workspaces : saved.createdBy[w] # NoId => saved'.createdBy[w] # NoId
WorkspacesKnownAfter == WorkspacesKnown'

LEMMA StepWorkspaces ==
  ASSUME TypeOK, WorkspacesKnown, [Next]_vars, ~LoadFailing
  PROVE  KeepsWorkspaces /\ WorkspacesKnownAfter
<1>. DEFINE Goal == KeepsWorkspaces /\ WorkspacesKnownAfter
<1>1. ASSUME AnyRequest PROVE Goal
  <2>1. NoWorkspaceForgotten
    BY <1>1, RequestsForgetNothing
  <2>2. UNCHANGED saved \/ saved'.createdBy = createdBy'
    <3>1. Save => UNCHANGED saved \/ saved'.createdBy = createdBy'
      BY DEF Save, Current
    <3>. QED BY <1>1, <3>1, RequestsSave
  <2>. QED BY <2>1, <2>2 DEF KeepsWorkspaces, WorkspacesKnownAfter, WorkspacesKnown,
                             NoWorkspaceForgotten, Known
<1>2. ASSUME WriteTables PROVE Goal
  <2>1. UNCHANGED createdBy
    BY <1>2 DEF WriteTables, memory, members
  <2>2. UNCHANGED saved \/ saved'.createdBy = createdBy
    BY <1>2 DEF WriteTables, Rows
  <2>. QED BY <2>1, <2>2 DEF KeepsWorkspaces, WorkspacesKnownAfter, WorkspacesKnown, Known
<1>3. ASSUME Restart PROVE Goal
  BY <1>3 DEF Restart, Load, KeepsWorkspaces, WorkspacesKnownAfter, WorkspacesKnown, Known
<1>4. ASSUME Shutdown PROVE Goal
  BY <1>4 DEF Shutdown, Current, memory, members, KeepsWorkspaces, WorkspacesKnownAfter,
              WorkspacesKnown, Known
<1>5. ASSUME WriteFails \/ UNCHANGED vars PROVE Goal
  BY <1>5 DEF WriteFails, vars, memory, members, KeepsWorkspaces, WorkspacesKnownAfter,
              WorkspacesKnown, Known
<1>6. ~RestartUnread
  BY DEF RestartUnread
<1>. HIDE DEF Goal
<1>7. Goal
  BY <1>1, <1>2, <1>3, <1>4, <1>5, <1>6 DEF Next, AnyRequest
<1>. QED BY <1>7 DEF Goal

\* A workspace that has been saved stays saved, on either store and whichever
\* writes fail or are lost with the process, if every start-up can read the
\* copy (what one that cannot does is shown by MCControlMembershipLoad.cfg).
THEOREM WorkspacesStay == ~LoadFailing => (Spec => WorkspacesKept)
<1>. SUFFICES ASSUME ~LoadFailing PROVE Spec => WorkspacesKept
  OBVIOUS
<1>. DEFINE Inv == TypeOK /\ WorkspacesKnown
<1>1. Init => Inv
  <2>1. Init => WorkspacesKnown
    BY DEF Init, Current, WorkspacesKnown, Known
  <2>. QED BY <2>1, InitType
<1>2. Inv /\ [Next]_vars => Inv'
  BY StepType, StepWorkspaces DEF WorkspacesKnownAfter
<1>3. Inv /\ [Next]_vars =>
        [\A w \in Workspaces : saved.createdBy[w] # NoId => saved'.createdBy[w] # NoId]_vars
  BY StepWorkspaces DEF KeepsWorkspaces
<1>. HIDE DEF Inv
<1>. QED BY <1>1, <1>2, <1>3, PTL DEF Spec, WorkspacesKept

KeepsAccounts ==
  RestartUnread \/ \A e \in Emails : Found(accounts, hidden, e) => Found(accounts', hidden', e)
AccountsSavedAfter == AccountsSaved'

LEMMA StepAccounts ==
  ASSUME TypeOK, AccountsSaved, [Next]_vars, Store = "snapshot", ~Failing, queued = FALSE
  PROVE  KeepsAccounts /\ AccountsSavedAfter /\ queued' = FALSE
<1>. DEFINE Goal == KeepsAccounts /\ AccountsSavedAfter /\ queued' = FALSE
<1>1. ASSUME AnyRequest PROVE Goal
  <2>1. KeepsAccounts
    BY <1>1, RequestsForgetNothing DEF KeepsAccounts
  <2>2. CASE Save
    <3>1. saved'.accounts = accounts' /\ saved'.hidden = hidden' /\ queued' = FALSE
      BY <2>2 DEF Save, Current
    <3>. QED BY <2>1, <3>1 DEF AccountsSavedAfter, AccountsSaved, Found
  <2>3. CASE UNCHANGED <<memory, saved, queued>>
    BY <2>1, <2>3 DEF memory, people, AccountsSavedAfter, AccountsSaved, Found
  <2>. QED BY <1>1, <2>2, <2>3, RequestsSave
<1>2. ASSUME Restart PROVE Goal
  BY <1>2 DEF Restart, Load, KeepsAccounts, AccountsSavedAfter, AccountsSaved, Found
<1>3. ASSUME RestartUnread PROVE Goal
  BY <1>3 DEF RestartUnread, Load, Empty, KeepsAccounts, AccountsSavedAfter, AccountsSaved, Found
<1>4. ASSUME Shutdown PROVE Goal
  BY <1>4 DEF Shutdown, Current, memory, people, KeepsAccounts, AccountsSavedAfter,
              AccountsSaved, Found
<1>5. ASSUME UNCHANGED vars PROVE Goal
  BY <1>5 DEF vars, KeepsAccounts, AccountsSavedAfter, AccountsSaved, Found
<1>6. ~WriteTables /\ ~WriteFails
  BY DEF WriteTables, WriteFails
<1>. HIDE DEF Goal
<1>7. Goal
  BY <1>1, <1>2, <1>3, <1>4, <1>5, <1>6 DEF Next, AnyRequest
<1>. QED BY <1>7 DEF Goal

\* On SQLite, when writing does not fail, an account survives every restart
\* that can read the copy, also one that follows a start-up which could not.
THEOREM AccountsStay == Store = "snapshot" /\ ~Failing => (Spec => AccountsKept)
<1>. SUFFICES ASSUME Store = "snapshot", ~Failing PROVE Spec => AccountsKept
  OBVIOUS
<1>. DEFINE Inv == TypeOK /\ AccountsSaved /\ queued = FALSE
<1>1. Init => Inv
  <2>1. Init => AccountsSaved /\ queued = FALSE
    BY DEF Init, Current, AccountsSaved, Found
  <2>. QED BY <2>1, InitType
<1>2. Inv /\ [Next]_vars => Inv'
  BY StepType, StepAccounts DEF AccountsSavedAfter
<1>3. Inv /\ [Next]_vars =>
        [\/ RestartUnread
         \/ \A e \in Emails : HasAccount(e) /\ ~queued => HasAccount(e)']_vars
  BY StepAccounts DEF KeepsAccounts, Found, HasAccount
<1>. HIDE DEF Inv
<1>. QED BY <1>1, <1>2, <1>3, PTL DEF Spec, AccountsKept
=============================================================================
