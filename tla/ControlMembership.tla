-------------------------- MODULE ControlMembership --------------------------
(***************************************************************************)
(* control.service.ts of buglogin-sync: accounts, workspaces, their        *)
(* members and the invitations to them, kept in maps of one process, and   *)
(* the copy of them that survives it.  A handler runs to its end before    *)
(* the next request, so an action is a request.                            *)
(*                                                                         *)
(* A person is an e-mail address.  A person may act under two user ids:    *)
(* the one the server derives from the address ("stable") and one made by  *)
(* the app, or by an earlier server ("local"), which migrateAuthUserId     *)
(* replaces by the first.  Every e-mail in a membership is the person's    *)
(* own or, once it has been lost, the placeholder <id>@local.              *)
(***************************************************************************)
EXTENDS Naturals, FiniteSets

CONSTANTS
  Emails, Workspaces, InviteIds,  \* bounds: people, workspaces and invitations
  NoId, NoOne, Nowhere,           \* no user id, no address, no workspace
  Admins,       \* people whose sessions carry the role platform_admin
  LocalIds,     \* people who also have a session under a local id
  Legacy,       \* people whose account was made under a local id
  Store,        \* "snapshot" (SQLite, one JSON value) or "tables" (PostgreSQL)
  Failing,      \* whether writing the copy may fail
  LoadFailing   \* whether reading it at start-up may fail

ASSUME ControlMembershipAssumption ==
  /\ Admins \subseteq Emails /\ LocalIds \subseteq Emails /\ Legacy \subseteq Emails
  /\ Store \in {"snapshot", "tables"}
  /\ Failing \in BOOLEAN /\ LoadFailing \in BOOLEAN
  /\ NoId \notin {"local", "stable"} \X Emails
  /\ NoOne \notin Emails /\ Nowhere \notin Workspaces

Ids == {"local", "stable"} \X Emails
EmailOf(u) == u[2]
Stable(e) == <<"stable", e>>

Roles == {"owner", "admin", "member", "viewer"}
Rank(r) == IF r = "owner" THEN 4 ELSE IF r = "admin" THEN 3
           ELSE IF r = "member" THEN 2 ELSE IF r = "viewer" THEN 1 ELSE 0

Invites == [to : Workspaces \cup {Nowhere}, email : Emails \cup {NoOne},
            role : {"member", "viewer"}, by : Ids \cup {NoId},
            state : {"free", "open", "used"}]
Unused == [to |-> Nowhere, email |-> NoOne, role |-> "viewer", by |-> NoId,
           state |-> "free"]
Used(v) == [v EXCEPT !.state = "used"]

VARIABLES
  accounts,   \* authUsers: the user id of each person's account
  hidden,     \* people whose account is filed under the placeholder
  createdBy,  \* workspaces: who created each
  role,       \* memberships: each user id's role in each workspace
  masked,     \* memberships whose e-mail is the placeholder
  invites,
  saved,      \* what a start-up would load
  queued,     \* persistPostgresQueue has a write that has not read the maps yet
  sessions    \* user ids that some client sends

people == <<accounts, hidden>>
members == <<createdBy, role, masked>>
memory == <<people, members, invites>>
vars == <<accounts, hidden, createdBy, role, masked, invites, saved, queued, sessions>>

Copies == [accounts : [Emails -> Ids \cup {NoId}], hidden : SUBSET Emails,
           createdBy : [Workspaces -> Ids \cup {NoId}],
           role : [Workspaces -> [Ids -> Roles \cup {"none"}]],
           masked : SUBSET (Workspaces \X Ids),
           invites : [InviteIds -> Invites]]

Current == [accounts |-> accounts, hidden |-> hidden, createdBy |-> createdBy,
            role |-> role, masked |-> masked, invites |-> invites]

HasAccount(e) == accounts[e] # NoId /\ e \notin hidden

IsMember(w, u) == role[w][u] # "none"
HasEmail(w, u, e) == IsMember(w, u) /\ EmailOf(u) = e /\ <<w, u>> \notin masked
OpenInvite(i, w, e) == invites[i].state = "open" /\ invites[i].to = w /\ invites[i].email = e

TypeOK ==
  /\ Current \in Copies
  /\ saved \in Copies
  /\ queued \in BOOLEAN
  /\ sessions \in SUBSET Ids

-----------------------------------------------------------------------------
(* Starting, and persistState.                                              *)

Empty == [accounts |-> [e \in Emails |-> NoId],
          hidden |-> {},
          createdBy |-> [w \in Workspaces |-> NoId],
          role |-> [w \in Workspaces |-> [u \in Ids |-> "none"]],
          masked |-> {},
          invites |-> [i \in InviteIds |-> Unused]]

Init ==
  /\ accounts = [e \in Emails |-> IF e \in Legacy THEN <<"local", e>> ELSE NoId]
  /\ hidden = {}
  /\ createdBy = Empty.createdBy
  /\ role = Empty.role
  /\ masked = {}
  /\ invites = Empty.invites
  /\ saved = Current
  /\ queued = FALSE
  /\ sessions = {"local"} \X (LocalIds \cup Legacy)

\* SQLite is written before the handler returns, and a failure is only logged;
\* for PostgreSQL a write is queued.
Save ==
  \/ Store = "tables" /\ queued' = TRUE /\ UNCHANGED saved
  \/ Store = "snapshot" /\ saved' = Current' /\ UNCHANGED queued
  \/ Store = "snapshot" /\ Failing /\ UNCHANGED <<saved, queued>>

\* usersById: the address written for each user id is the one registered last,
\* and workspaces and invitations register their authors without one.
Invited(u) == \E i \in InviteIds : invites[i].by = u
MayKeep(u) ==
  /\ ~Invited(u)
  /\ \/ \E w \in Workspaces : IsMember(w, u) /\ <<w, u>> \notin masked
     \/ /\ \A w \in Workspaces : ~IsMember(w, u) /\ createdBy[w] # u
        /\ HasAccount(EmailOf(u)) /\ accounts[EmailOf(u)] = u
MayLose(u) == \/ ~MayKeep(u)
              \/ \E w \in Workspaces : IsMember(w, u) /\ <<w, u>> \in masked

\* The user ids written with the person's own address.  A person's memberships
\* may disagree; their order, hence the last one, is the database's choice.
Addressed == {us \in SUBSET Ids : /\ \A u \in us : MayKeep(u)
                                  /\ \A u \in Ids \ us : MayLose(u)}

\* users.email is unique: two ids of one person cannot both be written with it.
Unique(us) == \A u, v \in us : EmailOf(u) = EmailOf(v) => u = v

\* Mutant: rows are written over and none is removed.
RowsAdded(us) ==
  [accounts |-> accounts,
   hidden |-> {e \in Emails : accounts[e] # NoId /\ accounts[e] \notin us},
   createdBy |-> createdBy,
   role |-> [w \in Workspaces |-> [u \in Ids |->
               IF IsMember(w, u) THEN role[w][u] ELSE saved.role[w][u]]],
   masked |-> {m \in Workspaces \X Ids : IsMember(m[1], m[2]) /\ m[2] \notin us},
   invites |-> invites]

Rows(us) ==
  [accounts |-> accounts,
   hidden |-> {e \in Emails : accounts[e] # NoId /\ accounts[e] \notin us},
   createdBy |-> createdBy, role |-> role,
   masked |-> {m \in Workspaces \X Ids : IsMember(m[1], m[2]) /\ m[2] \notin us},
   invites |-> invites]

\* persistStateToPostgres: every table is written anew in one transaction.
WriteTables ==
  /\ queued
  /\ queued' = FALSE
  /\ \E us \in Addressed :
       IF Unique(us)
       THEN saved' = Rows(us)
       ELSE UNCHANGED saved
  /\ UNCHANGED <<memory, sessions>>

WriteFails ==
  /\ queued /\ Failing
  /\ queued' = FALSE
  /\ UNCHANGED <<memory, saved, sessions>>

Load(s) ==
  /\ accounts' = s.accounts
  /\ hidden' = s.hidden
  /\ createdBy' = s.createdBy
  /\ role' = s.role
  /\ masked' = s.masked
  /\ invites' = s.invites

\* Mutant: the process starts without loading the copy.
RestartEmpty ==
  /\ Load(Empty)
  /\ queued' = FALSE
  /\ UNCHANGED <<saved, sessions>>

\* The process ends, at any time, and another loads the copy.
Restart ==
  /\ Load(saved)
  /\ queued' = FALSE
  /\ UNCHANGED <<saved, sessions>>

\* A copy that cannot be read leaves the maps empty, and the process runs on.
RestartUnread ==
  /\ LoadFailing
  /\ Load(Empty)
  /\ queued' = FALSE
  /\ UNCHANGED <<saved, sessions>>

\* A clean shutdown of the SQLite service writes once more.
Shutdown ==
  /\ Store = "snapshot"
  /\ saved' = Current
  /\ UNCHANGED <<memory, queued, sessions>>

-----------------------------------------------------------------------------
(* Accounts.                                                                *)

Higher(r, s) == IF Rank(r) > Rank(s) THEN r ELSE s
Renamed(u, old, new) == IF u = old THEN new ELSE u
Reissued(v, old, new) == [v EXCEPT !.by = Renamed(@, old, new)]

\* Mutant: the membership under the old id stays.
MigrateCopies(old, new) ==
  /\ createdBy' = [w \in Workspaces |-> Renamed(createdBy[w], old, new)]
  /\ role' = [w \in Workspaces |-> [role[w] EXCEPT ![new] = Higher(role[w][old], @)]]
  /\ masked' = masked \ (Workspaces \X {old, new})
  /\ invites' = [i \in InviteIds |-> Reissued(invites[i], old, new)]

\* migrateAuthUserId: of two memberships of a workspace the higher role stays.
Migrate(old, new) ==
  /\ createdBy' = [w \in Workspaces |-> Renamed(createdBy[w], old, new)]
  /\ role' = [w \in Workspaces |-> [u \in Ids |->
                IF u = old THEN "none"
                ELSE IF u = new THEN Higher(role[w][old], role[w][new])
                ELSE role[w][u]]]
  /\ masked' = masked \ (Workspaces \X {old, new})
  /\ invites' = [i \in InviteIds |-> Reissued(invites[i], old, new)]

\* Mutant: the account is not written when it has no membership to migrate.
RegisterUnsaved(e) ==
  /\ ~HasAccount(e)
  /\ accounts' = [accounts EXCEPT ![e] = Stable(e)]
  /\ hidden' = hidden \ {e}
  /\ sessions' = sessions \cup {Stable(e)}
  /\ UNCHANGED <<members, invites, saved, queued>>

\* registerAuthUser: a membership found by the address moves to the account.
\* The first one found counts; it may be the account's own.
Register(e) ==
  /\ ~HasAccount(e)
  /\ \/ \E w \in Workspaces, u \in Ids \ {Stable(e)} : HasEmail(w, u, e) /\ Migrate(u, Stable(e))
     \/ /\ \/ \E w \in Workspaces : HasEmail(w, Stable(e), e)
           \/ \A w \in Workspaces, u \in Ids : ~HasEmail(w, u, e)
        /\ UNCHANGED <<members, invites>>
  /\ accounts' = [accounts EXCEPT ![e] = Stable(e)]
  /\ hidden' = hidden \ {e}
  /\ sessions' = sessions \cup {Stable(e)}
  /\ Save

\* loginAuthUser of an account that has the stable id.
Login(e) ==
  /\ HasAccount(e)
  /\ accounts[e] = Stable(e)
  /\ sessions' = sessions \cup {Stable(e)}
  /\ UNCHANGED <<memory, saved, queued>>

\* loginAuthUser of an account that has another.
LoginLegacy(e) ==
  /\ HasAccount(e)
  /\ accounts[e] # Stable(e)
  /\ Migrate(accounts[e], Stable(e))
  /\ accounts' = [x \in Emails |-> Renamed(accounts[x], accounts[e], Stable(e))]
  /\ sessions' = sessions \cup {Stable(e)}
  /\ UNCHANGED hidden
  /\ Save

-----------------------------------------------------------------------------
(* Workspaces and their members.                                            *)

\* getWorkspaceMembership: a platform admin is an owner of every workspace.
IsOwner(a, w) == \/ EmailOf(a) \in Admins /\ createdBy[w] # NoId
                 \/ role[w][a] = "owner"
CanManage(a, w) == IsOwner(a, w) \/ role[w][a] = "admin"
AnotherOwner(w, u) == \E v \in Ids \ {u} : role[w][v] = "owner"

CreateWorkspace(a, w) ==
  /\ createdBy[w] = NoId
  /\ createdBy' = [createdBy EXCEPT ![w] = a]
  /\ role' = [role EXCEPT ![w] = [u \in Ids |-> IF u = a THEN "owner" ELSE "none"]]
  /\ UNCHANGED <<people, masked, invites, sessions>>
  /\ Save

\* Mutant: members may be invited.
CreateInviteToAnyone(a, w, e, r, i) ==
  /\ CanManage(a, w)
  /\ \A j \in InviteIds : ~OpenInvite(j, w, e)
  /\ invites[i].state = "free"
  /\ invites' = [invites EXCEPT ![i] = [to |-> w, email |-> e, role |-> r, by |-> a,
                                        state |-> "open"]]
  /\ UNCHANGED <<people, members, sessions>>
  /\ Save

CreateInvite(a, w, e, r, i) ==
  /\ CanManage(a, w)
  /\ \A u \in Ids : ~HasEmail(w, u, e)
  /\ \A j \in InviteIds : ~OpenInvite(j, w, e)
  /\ invites[i].state = "free"
  /\ invites' = [invites EXCEPT ![i] = [to |-> w, email |-> e, role |-> r, by |-> a,
                                        state |-> "open"]]
  /\ UNCHANGED <<people, members, sessions>>
  /\ Save

RevokeInvite(a, i) ==
  /\ invites[i].state = "open"
  /\ CanManage(a, invites[i].to)
  /\ invites' = [invites EXCEPT ![i] = Used(invites[i])]
  /\ UNCHANGED <<people, members, sessions>>
  /\ Save

\* An invitation is accepted after its 72 hours as before them.  The role of
\* somebody who is a member already is replaced.
AcceptInvite(a, i) ==
  /\ invites[i].state = "open"
  /\ invites[i].email = EmailOf(a)
  /\ LET w == invites[i].to
     IN  /\ role' = [role EXCEPT ![w] = [role[w] EXCEPT ![a] = invites[i].role]]
         /\ masked' = IF IsMember(w, a) THEN masked ELSE masked \ {<<w, a>>}
  /\ invites' = [invites EXCEPT ![i] = Used(invites[i])]
  /\ UNCHANGED <<people, createdBy, sessions>>
  /\ Save

UpdateRole(a, w, u, r) ==
  /\ CanManage(a, w)
  /\ IsMember(w, u)
  /\ (role[w][u] = "owner" \/ r = "owner") => IsOwner(a, w)
  /\ role[w][u] = "owner" /\ r # "owner" => AnotherOwner(w, u)
  /\ role' = [role EXCEPT ![w] = [role[w] EXCEPT ![u] = r]]
  /\ UNCHANGED <<people, createdBy, masked, invites, sessions>>
  /\ Save

\* Mutant: an owner may remove the last owner.
RemoveAnyOwner(a, w, u) ==
  /\ CanManage(a, w)
  /\ IsMember(w, u)
  /\ role[w][u] = "owner" => IsOwner(a, w)
  /\ role' = [role EXCEPT ![w] = [role[w] EXCEPT ![u] = "none"]]
  /\ masked' = masked \ {<<w, u>>}
  /\ UNCHANGED <<people, createdBy, invites, sessions>>
  /\ Save

\* Mutant: a removed member keeps an entry without a role.
RemoveRole(a, w, u) ==
  /\ CanManage(a, w)
  /\ IsMember(w, u)
  /\ role[w][u] = "owner" => IsOwner(a, w) /\ AnotherOwner(w, u)
  /\ role' = [role EXCEPT ![w] = [role[w] EXCEPT ![u] = NoId]]
  /\ UNCHANGED <<people, createdBy, masked, invites, sessions>>
  /\ Save

RemoveMember(a, w, u) ==
  /\ CanManage(a, w)
  /\ IsMember(w, u)
  /\ role[w][u] = "owner" => IsOwner(a, w) /\ AnotherOwner(w, u)
  /\ role' = [role EXCEPT ![w] = [role[w] EXCEPT ![u] = "none"]]
  /\ masked' = masked \ {<<w, u>>}
  /\ UNCHANGED <<people, createdBy, invites, sessions>>
  /\ Save

-----------------------------------------------------------------------------
Request(a) ==
  \/ \E w \in Workspaces :
       \/ CreateWorkspace(a, w)
       \/ \E e \in Emails, r \in {"member", "viewer"}, i \in InviteIds : CreateInvite(a, w, e, r, i)
       \/ \E u \in Ids :
            \/ \E r \in Roles : UpdateRole(a, w, u, r)
            \/ RemoveMember(a, w, u)
  \/ \E i \in InviteIds : RevokeInvite(a, i) \/ AcceptInvite(a, i)

Next ==
  \/ \E e \in Emails : Register(e) \/ Login(e) \/ LoginLegacy(e)
  \/ \E a \in sessions : Request(a)
  \/ WriteTables \/ WriteFails
  \/ Restart \/ RestartUnread \/ Shutdown

Spec == Init /\ [][Next]_vars

\* The promise chain runs every queued write.
FairSpec == Spec /\ WF_vars(WriteTables)

-----------------------------------------------------------------------------
\* A workspace always has an owner, whatever sequence of invitations, role
\* changes, removals, id migrations and restarts: production-architecture.md
\* calls it last-owner safety, and only two of the handlers check it.
EveryWorkspaceHasAnOwner ==
  \A w \in Workspaces : createdBy[w] # NoId => \E u \in Ids : role[w][u] = "owner"

\* A person is a member of a workspace under one user id at most, although the
\* invitation is accepted under whichever id the session carries.
PersonJoinsOnce ==
  \A w \in Workspaces : \A u, v \in Ids :
    IsMember(w, u) /\ IsMember(w, v) /\ EmailOf(u) = EmailOf(v) => u = v

\* Nobody has an open invitation to a workspace he is a member of: accepting
\* it would replace his role.
InvitesAreForOutsiders ==
  \A i \in InviteIds, w \in Workspaces, u \in Ids :
    IsMember(w, u) => ~OpenInvite(i, w, EmailOf(u))

\* A workspace that has been saved is not lost: nothing deletes workspaces.
WorkspacesKept ==
  [][\A w \in Workspaces : saved.createdBy[w] # NoId => saved'.createdBy[w] # NoId]_vars

\* An account whose writing is not pending survives a restart that can read
\* the copy.
AccountsKept ==
  [][\/ RestartUnread
     \/ \A e \in Emails : HasAccount(e) /\ ~queued => HasAccount(e)']_vars

\* Failed writes are healed: when they stop failing and requests keep queueing
\* new ones, the copy agrees with the maps again and again.
SavedCatchesUp ==
  []<>queued /\ <>[][~WriteFails]_vars
    => []<>(saved.role = role /\ saved.createdBy = createdBy)
=============================================================================
