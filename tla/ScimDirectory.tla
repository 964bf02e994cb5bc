--------------------------- MODULE ScimDirectory ---------------------------
(***************************************************************************)
(* The SCIM resources, kept in memory in the order of their creation, and  *)
(* an identity provider that walks through their pages while others        *)
(* create, replace, patch and delete.  A request is one step: the stores   *)
(* do not wait.                                                            *)
(***************************************************************************)
EXTENDS Naturals, Sequences

CONSTANTS
  MaxIds,   \* bound: resources created
  MaxOps,   \* bound: other changes
  Cap,      \* the most resources on a page (200 in the routes)
  Value     \* user names and group names

VARIABLES
  kind,     \* "Users" or "Groups"
  store,    \* the resources in order
  nextId, ops,
  walk,     \* where the walk stands: startIndex (0: none), the pages so far, and what was there
  ended     \* the last walk that came to its end

vars == <<kind, store, nextId, ops, walk, ended>>

Nowhere == [startIndex |-> 0, count |-> 1, seen |-> <<>>, first |-> {}, removed |-> FALSE]

Init ==
  /\ kind \in {"Users", "Groups"}
  /\ store = <<>> /\ nextId = 1 /\ ops = 0
  /\ walk = Nowhere /\ ended = Nowhere

Ids == {store[n].id : n \in DOMAIN store}

-----------------------------------------------------------------------------
(* Changes *)

\* POST: the id is the server's, whatever the body says; names need not differ.
create(name) ==
  /\ nextId <= MaxIds
  /\ store' = Append(store, [id |-> nextId, name |-> name, active |-> TRUE])
  /\ nextId' = nextId + 1
  /\ UNCHANGED <<kind, ops, walk, ended>>

At(id) == CHOOSE n \in DOMAIN store : store[n].id = id

Op == ops < MaxOps /\ ops' = ops + 1

\* PUT: everything but the id is replaced, in its place.
replace(id, name) ==
  /\ Op /\ id \in Ids
  /\ store' = [store EXCEPT ![At(id)] = [id |-> id, name |-> name, active |-> TRUE]]
  /\ UNCHANGED <<kind, nextId, walk, ended>>

\* PATCH: the operations are applied one after the other; a group knows only its name, and
\* everything that is not known is passed over.
Applied(r, patch) ==
  [r EXCEPT !.name = IF patch.path = "name" THEN patch.value ELSE @,
            !.active = IF patch.path = "active" /\ kind = "Users" THEN FALSE ELSE @]

patchResource(id, patch) ==
  /\ Op /\ id \in Ids
  /\ store' = [store EXCEPT ![At(id)] = Applied(@, patch)]
  /\ UNCHANGED <<kind, nextId, walk, ended>>

delete(id) ==
  /\ Op /\ id \in Ids
  /\ store' = SubSeq(store, 1, At(id) - 1) \o SubSeq(store, At(id) + 1, Len(store))
  /\ walk' = [walk EXCEPT !.removed = TRUE]
  /\ UNCHANGED <<kind, nextId, ended>>

-----------------------------------------------------------------------------
(* Lists *)

\* Mutant: the first index is 0.
FromZero(all, startIndex, count) ==
  [n \in {m \in 1..count : startIndex + m <= Len(all)} |-> all[startIndex + n]]

\* The page that starts at startIndex, counted from 1.
Page(all, startIndex, count) ==
  [n \in {m \in 1..count : startIndex - 1 + m <= Len(all)} |-> all[startIndex - 1 + n]]

parseCount(n) == IF n > Cap THEN Cap ELSE n

\* A walk begins; the provider asks for pages of some size.
BeginWalk(count) ==
  /\ walk.startIndex = 0
  /\ walk' = [startIndex |-> 1, count |-> count, seen |-> <<>>, first |-> Ids, removed |-> FALSE]
  /\ UNCHANGED <<kind, store, nextId, ops, ended>>

\* The next page; the provider goes on behind the itemsPerPage it was given, and stops
\* at an empty page or past totalResults.
List ==
  LET page == Page(store, walk.startIndex, parseCount(walk.count))
      next == walk.startIndex + Len(page)
      w == [walk EXCEPT !.startIndex = next, !.seen = @ \o [n \in DOMAIN page |-> page[n].id]] IN
  /\ walk.startIndex # 0
  /\ IF Len(page) = 0 \/ next > Len(store)
     THEN walk' = Nowhere /\ ended' = w
     ELSE walk' = w /\ UNCHANGED ended
  /\ UNCHANGED <<kind, store, nextId, ops>>

Next ==
  \/ \E v \in Value : create(v)
  \/ \E id \in Ids :
       \/ \E v \in Value :
            \/ replace(id, v)
            \/ \E p \in {"name", "active", "members"} :
                 patchResource(id, [path |-> p, value |-> v])
       \/ delete(id)
  \/ \E count \in 1 .. Cap + 1 : BeginWalk(count)
  \/ List

Spec == Init /\ [][Next]_vars

-----------------------------------------------------------------------------
(* Properties *)

TypeOK ==
  /\ \A n \in DOMAIN store : store[n].name \in Value /\ store[n].active \in BOOLEAN
  /\ \A m, n \in DOMAIN store : store[m].id = store[n].id => m = n
  /\ Ids \subseteq 1 .. nextId - 1

\* The pages are complete: a walk shows every resource that was there when it began and
\* shows none twice, whatever was created, replaced or patched in between, unless
\* something was deleted, which moves the others forward (scimListUsers, scimListGroups).
WalkComplete ==
  /\ \A m, n \in DOMAIN ended.seen : ended.seen[m] = ended.seen[n] => m = n
  /\ ~ended.removed => ended.first \subseteq {ended.seen[n] : n \in DOMAIN ended.seen}
=============================================================================
