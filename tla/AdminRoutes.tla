----------------------------- MODULE AdminRoutes -----------------------------
(***************************************************************************)
(* Roles and their assignment through the admin routes (admin.ts and       *)
(* authorization.service.ts), with the list of users read page by page.    *)
(* Calls of several administrators overlap; a step of a call ends at an    *)
(* `await`.  tokenVersion, which these calls bump too, is in AccountTokens.*)
(***************************************************************************)
EXTENDS Naturals, Sequences, Functions

CONSTANTS
  Admin,       \* concurrent calls
  User,
  Name,        \* role names, with "ADMIN", which the server's start created
  Calls,       \* the routes used in this model
  MaxRoles,    \* bound on the roles ever created
  PageSize     \* limit of GET /users

VARIABLES
  roleOf,      \* roles: the _id a name has, 0 without
  nextId,
  assigned,    \* userroleassignments
  listed,      \* users in the order of their createdAt, newest first
  pc, op,      \* a call: where it is, which it is
  user, name,  \* ... and its parameters
  id,          \* ... the role it has read
  add, drop,   \* ... the names it still has to assign and to remove
  seen,        \* ... users the pages have returned
  offset, first,  \* ... the next page, and the users at the first one
  wanted,      \* history: the names a call shall leave the user with
  crossed,     \* history: calls during which somebody else wrote
  gone         \* history: roles whose deletion was answered

frame == <<pc, op, user, name, id, add, drop, seen, offset, first>>
vars == <<roleOf, nextId, assigned, listed, frame, wanted, crossed, gone>>

Id == 1..MaxRoles
Exists(i) == \E n \in Name : roleOf[n] = i
NameOf(i) == CHOOSE n \in Name : roleOf[n] = i

TypeOK ==
  /\ roleOf \in [Name -> 0..MaxRoles] /\ nextId \in 1..(MaxRoles + 1)
  /\ assigned \subseteq User \X Id /\ Range(listed) \subseteq User
  /\ pc \in [Admin -> {"idle", "next", "write", "unassign", "remove", "page"}]
  /\ op \in [Admin -> {"none", "assign", "patch", "create", "delete", "list"}]
  /\ user \in [Admin -> User] /\ name \in [Admin -> Name] /\ id \in [Admin -> 0..MaxRoles]
  /\ add \in [Admin -> SUBSET Name] /\ drop \in [Admin -> SUBSET Name]
  /\ seen \in [Admin -> SUBSET User] /\ offset \in [Admin -> Nat]
  /\ first \in [Admin -> SUBSET User] /\ wanted \in [Admin -> SUBSET Name]
  /\ crossed \subseteq Admin /\ gone \subseteq Id

Some(S) == CHOOSE x \in S : TRUE

Init ==
  /\ roleOf = [n \in Name |-> IF n = "ADMIN" THEN 1 ELSE 0] /\ nextId = 2
  /\ assigned = {} /\ listed = <<Some(User)>>
  /\ pc = [a \in Admin |-> "idle"] /\ op = [a \in Admin |-> "none"]
  /\ user = [a \in Admin |-> Some(User)] /\ name = [a \in Admin |-> Some(Name)]
  /\ id = [a \in Admin |-> 0]
  /\ add = [a \in Admin |-> {}] /\ drop = [a \in Admin |-> {}]
  /\ seen = [a \in Admin |-> {}] /\ offset = [a \in Admin |-> 0] /\ first = [a \in Admin |-> {}]
  /\ wanted = [a \in Admin |-> {}] /\ crossed = {} /\ gone = {}

-----------------------------------------------------------------------------
\* getUserRoles: the assignments joined with the roles that exist; the mutant takes
\* the assignments alone.
AssignmentsOnly(u) == {i \in Id : <<u, i>> \in assigned}
UserRoles(u) == {i \in Id : <<u, i>> \in assigned /\ Exists(i)}
Names(u) == {NameOf(i) : i \in {j \in UserRoles(u) : Exists(j)}}

\* A write crosses every other call that is under way.
Crossed(a) == crossed \cup {b \in Admin \ {a} : pc[b] # "idle"}

Begin(a, o, u, l) ==
  /\ pc[a] = "idle" /\ o \in Calls
  /\ op' = [op EXCEPT ![a] = o] /\ user' = [user EXCEPT ![a] = u]
  /\ pc' = [pc EXCEPT ![a] = l]
  /\ UNCHANGED crossed

Return(a) ==
  /\ pc' = [pc EXCEPT ![a] = "idle"] /\ op' = [op EXCEPT ![a] = "none"]
  /\ user' = [user EXCEPT ![a] = Some(User)] /\ name' = [name EXCEPT ![a] = Some(Name)]
  /\ id' = [id EXCEPT ![a] = 0]
  /\ add' = [add EXCEPT ![a] = {}] /\ drop' = [drop EXCEPT ![a] = {}]
  /\ seen' = [seen EXCEPT ![a] = {}] /\ offset' = [offset EXCEPT ![a] = 0]
  /\ first' = [first EXCEPT ![a] = {}] /\ wanted' = [wanted EXCEPT ![a] = {}]

Answer(a) == Return(a) /\ crossed' = crossed \ {a}

\* POST /roles; a name that is taken is a duplicate key, 409.
CreateRole(a, n) ==
  /\ pc[a] = "idle" /\ "create" \in Calls /\ roleOf[n] = 0 /\ nextId <= MaxRoles
  /\ roleOf' = [roleOf EXCEPT ![n] = nextId] /\ nextId' = nextId + 1
  /\ crossed' = Crossed(a)
  /\ UNCHANGED <<assigned, listed, frame, wanted, gone>>

\* POST /roles/assign and /roles/remove: one name to assign, or one to remove.
AssignRole(a, u, n) ==
  /\ Begin(a, "assign", u, "next")
  /\ \/ add' = [add EXCEPT ![a] = {n}] /\ wanted' = [wanted EXCEPT ![a] = Names(u) \cup {n}]
        /\ UNCHANGED drop
     \/ drop' = [drop EXCEPT ![a] = {n}] /\ wanted' = [wanted EXCEPT ![a] = Names(u) \ {n}]
        /\ UNCHANGED add
  /\ UNCHANGED <<roleOf, nextId, assigned, listed, name, id, seen, offset, first, gone>>

\* POST /users: the new user, and the roles asked for.
CreateUser(a, u, ns) ==
  /\ u \notin Range(listed)
  /\ Begin(a, "create", u, "next")
  /\ \E i \in 0..Len(listed) :
       listed' = SubSeq(listed, 1, i) \o <<u>> \o SubSeq(listed, i + 1, Len(listed))
  /\ add' = [add EXCEPT ![a] = ns]
  /\ wanted' = [wanted EXCEPT ![a] = {n \in ns : roleOf[n] # 0}]
  /\ UNCHANGED <<roleOf, nextId, assigned, name, id, drop, seen, offset, first, gone>>

\* PATCH /users/:id with roles: the difference of the names asked for and those held.
PatchUser(a, u, ns) ==
  /\ Begin(a, "patch", u, "next")
  /\ wanted' = [wanted EXCEPT ![a] = ns]
  /\ add' = [add EXCEPT ![a] = ns \ Names(u)] /\ drop' = [drop EXCEPT ![a] = Names(u) \ ns]
  /\ UNCHANGED <<roleOf, nextId, assigned, listed, name, id, seen, offset, first, gone>>

\* Assignments come first.
Turn(a) == IF add[a] # {} THEN add[a] ELSE drop[a]

Done(a, n) ==
  /\ add' = [add EXCEPT ![a] = @ \ {n}] /\ drop' = [drop EXCEPT ![a] = @ \ {n}]
  /\ pc' = [pc EXCEPT ![a] = "next"]
  /\ name' = [name EXCEPT ![a] = Some(Name)] /\ id' = [id EXCEPT ![a] = 0]
  /\ UNCHANGED <<op, user, seen, offset, first>>

\* RoleModel.findOne by the next name.  Without a role there is nothing to remove, and
\* an assignment throws: POST /users goes on, the others end.
FindRole(a) ==
  /\ pc[a] = "next"
  /\ \E n \in Turn(a) :
       \/ /\ roleOf[n] # 0
          /\ id' = [id EXCEPT ![a] = roleOf[n]] /\ name' = [name EXCEPT ![a] = n]
          /\ pc' = [pc EXCEPT ![a] = "write"]
          /\ UNCHANGED <<op, user, add, drop, seen, offset, first, wanted, crossed>>
       \/ /\ roleOf[n] = 0 /\ (n \in drop[a] \/ op[a] = "create")
          /\ Done(a, n) /\ UNCHANGED <<wanted, crossed>>
       \/ roleOf[n] = 0 /\ n \in add[a] /\ op[a] # "create" /\ Answer(a)
  /\ UNCHANGED <<roleOf, nextId, assigned, listed, gone>>

\* Every name has been handled.
RolesDone(a) ==
  /\ pc[a] = "next" /\ Turn(a) = {}
  /\ Answer(a)
  /\ UNCHANGED <<roleOf, nextId, assigned, listed, gone>>

\* The upsert or the removal of the assignment, by the _id that was read.
WriteRole(a) ==
  /\ pc[a] = "write"
  /\ assigned' = IF name[a] \in add[a] THEN assigned \cup {<<user[a], id[a]>>}
                                       ELSE assigned \ {<<user[a], id[a]>>}
  /\ crossed' = Crossed(a)
  /\ Done(a, name[a])
  /\ UNCHANGED <<roleOf, nextId, listed, wanted, gone>>

\* DELETE /roles/:id: not a system role; the mutant forgets to look.
AnyRole(n) == roleOf[n] # 0
Deletable(n) == roleOf[n] # 0 /\ n # "ADMIN"

DeleteRole(a, n) ==
  /\ Begin(a, "delete", Some(User), "unassign")
  /\ Deletable(n)
  /\ id' = [id EXCEPT ![a] = roleOf[n]]
  /\ UNCHANGED <<roleOf, nextId, assigned, listed, name, add, drop, seen, offset, first,
                 wanted, gone>>

\* Its assignments go first ...
Unassign(a) ==
  /\ pc[a] = "unassign"
  /\ assigned' = {p \in assigned : p[2] # id[a]}
  /\ pc' = [pc EXCEPT ![a] = "remove"]
  /\ crossed' = Crossed(a)
  /\ UNCHANGED <<roleOf, nextId, listed, op, user, name, id, add, drop, seen, offset, first,
                 wanted, gone>>

\* ... then the role.
RemoveRole(a) ==
  /\ pc[a] = "remove"
  /\ roleOf' = [n \in Name |-> IF roleOf[n] = id[a] THEN 0 ELSE roleOf[n]]
  /\ gone' = gone \cup {id[a]}
  /\ Return(a) /\ crossed' = Crossed(a) \ {a}
  /\ UNCHANGED <<nextId, assigned, listed>>

\* GET /users, page after page.
ListUsers(a) ==
  /\ Begin(a, "list", Some(User), "page")
  /\ first' = [first EXCEPT ![a] = Range(listed)]
  /\ UNCHANGED <<roleOf, nextId, assigned, listed, name, id, add, drop, seen, offset, wanted, gone>>

\* skip: the mutant counts pages from 1.
SkipOne(a) == offset[a] + 1
Skip(a) == offset[a]

Page(a) ==
  /\ pc[a] = "page" /\ Skip(a) < Len(listed)
  /\ seen' = [seen EXCEPT ![a] = @ \cup Range(SubSeq(listed, Skip(a) + 1, Skip(a) + PageSize))]
  /\ offset' = [offset EXCEPT ![a] = @ + PageSize]
  /\ UNCHANGED <<roleOf, nextId, assigned, listed, pc, op, user, name, id, add, drop, first,
                 wanted, crossed, gone>>

LastPage(a) ==
  /\ pc[a] = "page" /\ Skip(a) >= Len(listed)
  /\ Answer(a)
  /\ UNCHANGED <<roleOf, nextId, assigned, listed, gone>>

\* The database fails: 500, and what was written stays.
Fails(a) ==
  /\ pc[a] # "idle"
  /\ Answer(a)
  /\ UNCHANGED <<roleOf, nextId, assigned, listed, gone>>

Next ==
  \E a \in Admin :
    \/ \E n \in Name : CreateRole(a, n) \/ DeleteRole(a, n)
    \/ \E u \in Range(listed), n \in Name : AssignRole(a, u, n)
    \/ \E u \in User, ns \in SUBSET Name : CreateUser(a, u, ns)
    \/ \E u \in Range(listed), ns \in SUBSET Name : PatchUser(a, u, ns)
    \/ FindRole(a) \/ RolesDone(a) \/ WriteRole(a) \/ Unassign(a) \/ RemoveRole(a)
    \/ ListUsers(a) \/ Page(a) \/ LastPage(a) \/ Fails(a)

Spec == Init /\ [][Next]_vars

-----------------------------------------------------------------------------
(* Properties *)

\* A role whose deletion was answered grants nothing again, neither through an
\* assignment that was under way nor through a new role of the same name.
DeletedRoleIsDead == \A u \in User : UserRoles(u) \cap gone = {}

\* The system role survives every sequence of calls.
AdminStays == roleOf["ADMIN"] = 1

\* A call that was answered and that nobody crossed has left the user with the roles
\* it asked for.
RolesAsAsked ==
  [][\A a \in Admin :
       (RolesDone(a) /\ a \notin crossed) => Names(user[a]) = wanted[a]]_vars

\* The pages together miss no user who was there when the first one was asked for,
\* although users are added between the pages.
ListingComplete ==
  [][\A a \in Admin : LastPage(a) => first[a] \subseteq seen[a]]_vars
=============================================================================
