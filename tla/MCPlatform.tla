----------------------------- MODULE MCPlatform -----------------------------
(***************************************************************************)
(* The platform around the services: the roles and user lists of the admin *)
(* routes, signing keys and the tokens they sign, migrations, the          *)
(* WebSocket server, the Terraform provider, the backup scripts, the HTTP  *)
(* surface, sign-in with external identities, OAuth clients and SCIM.  The *)
(* parts share no state: a behaviour moves the one that part names, and    *)
(* the others stay as they started.                                        *)
(***************************************************************************)
EXTENDS Naturals, Sequences, FiniteSets

CONSTANTS
  Operator, Docs, BATCH_SIZE, Imported,
  User, Tool, Secrets,
  Inst, Single, MaxKeys, FewKeys,
  Admin, Member, Name, MaxRoles, PageSize,
  Algorithms, ttl, keyLife, MaxClock, MaxTokens,
  maxPayload, MaxFrames, MaxWrites,
  FieldValue, MaxObjects, MaxEdits,
  Run, OneRun, Coll, OneColl, Key, NoKey,
  Req, OneReq, Limit,
  Call, OneCall, People, Idp, TwoIdps, MaxBegun, MaxUnlinks,
  Request, OneRequest, Code, Scope, Uri, MaxChanges,
  MaxIds, Cap

ASSUME MfaAssumption == User # {} /\ Secrets \in Nat \ {0}
ASSUME KeysAssumption == MaxKeys \in Nat /\ FewKeys \in Nat
ASSUME OperationsAssumption ==
  FieldValue # {} /\ MaxObjects \in Nat /\ NoKey \in Key /\ MaxWrites \in Nat
ASSUME GrantsAssumption == Uri # {} /\ 0 \notin Code /\ MaxChanges \in Nat
ASSUME LoginsAssumption == People \in Nat /\ MaxBegun \in Nat /\ MaxUnlinks \in Nat
ASSUME ScimAssumption == Cap \in Nat \ {0}
ASSUME RequestsAssumption == Limit \in Nat

VARIABLES
  part,
  db, lacking, script, at, opPc, found, runner, flag, task, recorded,
  stored, truth, backup, tool, toolPc, cur, read, todo, stale,
  disk, tmp, next, expired, bootPc, listing, litter, mem, own, saving, writing, plan,
  signedBy, signed, unsaved,
  doc, nextKid, keysExpired, keyCall, handed, withdrawn, revoked, twoFirst,
  roleOf, nextId, assigned, listed, callPc, op, user, name, id, add, drop, seen, offset,
  first, wanted, crossed, gone,
  now, algorithm, keys, issued,
  frames, got, pos, state, member, events, pongs, closes, writes, late,
  kind, config, recordedState, remote, made, applyStep, moved, edits, lost, unsure, clean,
  store, env, runStep, dumped, dir, archive, latest, began, ended, reader, stage, source,
  unpacked, target, indexes, report,
  route, brings, steps, identity, status, did, logged, good, verdicts, used, passed, open,
  users, call, jwks, newest, begun, unlinks, known, mixed,
  client, code, req, changes, requests, grantOf,
  scimKind, resources, scimId, ops, walk, walked

schemaVars == <<db, lacking, script, at, opPc, found, runner, flag, task, recorded>>
mfaVars == <<stored, truth, backup, tool, toolPc, cur, read, todo, stale>>
keyVars == <<disk, tmp, next, expired, bootPc, listing, litter, mem, own, saving, writing,
             plan, signedBy, signed, unsaved>>
storeVars == <<doc, nextKid, keysExpired, keyCall, handed, withdrawn, revoked, twoFirst>>
adminVars == <<roleOf, nextId, assigned, listed, callPc, op, user, name, id, add, drop, seen,
               offset, first, wanted, crossed, gone>>
tokenVars == <<now, algorithm, keys, issued>>
socketVars == <<frames, got, pos, state, member, events, pongs, closes, writes, late>>
terraformVars == <<kind, config, recordedState, remote, made, applyStep, moved, edits, lost,
                   unsure, clean>>
backupVars == <<store, env, runStep, dumped, dir, archive, latest, began, ended, reader, stage,
                source, unpacked, target, indexes, report>>
httpVars == <<route, brings, steps, identity, status, did, logged, good, verdicts, used,
              passed, open>>
loginVars == <<users, call, jwks, newest, begun, unlinks, known, mixed>>
grantVars == <<client, code, req, changes, requests, grantOf>>
scimVars == <<scimKind, resources, scimId, ops, walk, walked>>
opsVars == <<terraformVars, backupVars, httpVars>>
outerVars == <<loginVars, grantVars, scimVars, storeVars>>
innerVars == <<schemaVars, mfaVars, keyVars, adminVars, tokenVars, socketVars>>
vars == <<part, innerVars, opsVars, outerVars>>

Schema == INSTANCE Migrations WITH pc <- opPc
Mfa == INSTANCE MfaMigration WITH pc <- toolPc
\* Instances that share a few keys, and one that goes through more of them.
KeysOf(inst, n) == INSTANCE SigningKeys WITH pc <- bootPc, Inst <- inst, MaxKeys <- n
\* Calls that overlap on the keys of a tenant, and keys that expire under one of them.
StoreOf(callers, n, short) ==
  INSTANCE KeyStore WITH expired <- keysExpired, call <- keyCall, Caller <- callers,
                         MaxKeys <- n, Short <- short
\* Calls that change the roles of one member, and the lists of more users.
Roles == INSTANCE AdminRoutes WITH pc <- callPc, User <- Member,
                                   Calls <- {"assign", "patch", "create", "delete"}
Lists == INSTANCE AdminRoutes WITH pc <- callPc, Calls <- {"list", "create"}
Tokens == INSTANCE JwtTokens WITH MaxKeys <- FewKeys
Sockets == INSTANCE WebSocketServer
Terraform == INSTANCE TerraformProvider WITH recorded <- recordedState, step <- applyStep
\* One backup of two collections in use, and two backups at the same time.
BackupsOf(runs, colls, choices, n) ==
  INSTANCE BackupRestore WITH db <- store, step <- runStep, task <- reader, Run <- runs,
                              Coll <- colls, Key <- choices, MaxWrites <- n
\* One request of every kind, and a few at the same time.
RequestsOf(reqs, every) ==
  INSTANCE HttpPipeline WITH todo <- steps, seen <- verdicts, Every <- every, Req <- reqs
\* One sign-in with any provider, one after the other, and two at the same time.
LoginsOf(calls, people, idps, n, undone, rotated) ==
  INSTANCE ExternalLogin WITH Call <- calls, People <- people, Idp <- idps, MaxBegun <- n,
                              MaxUnlinks <- undone, MaxRotations <- rotated
ClientUses == {"service", "engine service", "refresh"}

\* A client that changes while it is served, and requests for the same code.
GrantsOf(reqs, codes, scopes, n, m, uses) ==
  INSTANCE OAuthGrants WITH begun <- requests, Request <- reqs, Code <- codes, Scope <- scopes,
                            MaxChanges <- n, MaxBegun <- m, Uses <- uses
Scim == INSTANCE ScimDirectory WITH kind <- scimKind, store <- resources, nextId <- scimId,
                                    ended <- walked, Value <- {NoKey}, MaxOps <- 1

\* What a part leaves open at the start is settled in the others.
Init ==
  /\ part \in {"schema", "runner", "mfa", "keys", "rotations", "key calls", "key expiry",
               "roles", "lists", "tokens", "sockets", "terraform", "backups", "two backups",
               "requests", "together", "providers", "returning", "overlapping",
               "clients", "codes", "scim"}
  /\ Schema!Init /\ (part # "schema" => db = {}) /\ (part # "runner" => flag)
  /\ Mfa!Init
  /\ part # "mfa" => tool = "script" /\ \A u \in User : stored[u].format = "v3"
  /\ IF part = "rotations" THEN KeysOf(Single, MaxKeys)!Init ELSE KeysOf(Inst, FewKeys)!Init
  /\ IF part = "key expiry"
     THEN StoreOf(Single, FewKeys, 1..FewKeys)!Init
     ELSE StoreOf(Admin, FewKeys, {})!Init
  /\ IF part = "lists" THEN Lists!Init ELSE Roles!Init
  /\ Tokens!Init /\ (part # "tokens" => algorithm = "EdDSA")
  /\ Sockets!Init /\ (part # "sockets" => frames = <<>>)
  /\ Terraform!Init /\ (part # "terraform" => kind = Terraform!resourceRole)
  /\ IF part = "two backups"
     THEN BackupsOf(Run, OneColl, {NoKey}, 0)!Init
     ELSE BackupsOf(OneRun, Coll, Key, MaxWrites)!Init
  /\ part # "backups" => env = NoKey
  /\ IF part = "together" THEN RequestsOf(Req, FALSE)!Init ELSE RequestsOf(OneReq, TRUE)!Init
  /\ IF part = "overlapping"
     THEN LoginsOf(Call, 1, TwoIdps, MaxBegun, 0, 0)!Init
     ELSE LoginsOf(OneCall, People, Idp, 1, MaxUnlinks, 1)!Init
  /\ IF part = "codes"
     THEN GrantsOf(Request, Code, {}, 1, 2, {"code"})!Init
     ELSE GrantsOf(OneRequest, {}, Scope, MaxChanges, 1, ClientUses)!Init
  /\ Scim!Init /\ (part # "scim" => scimKind = "Users")

Next ==
  \/ /\ (part = "schema" /\ Schema!OperatorNext) \/ (part = "runner" /\ Schema!RunnerNext)
     /\ UNCHANGED <<part, mfaVars, keyVars, adminVars, tokenVars, socketVars, opsVars, outerVars>>
  \/ /\ part = "mfa" /\ Mfa!Next
     /\ UNCHANGED <<part, schemaVars, keyVars, adminVars, tokenVars, socketVars, opsVars, outerVars>>
  \/ /\ \/ part = "keys" /\ KeysOf(Inst, FewKeys)!Next
        \/ part = "rotations" /\ KeysOf(Single, MaxKeys)!Next
     /\ UNCHANGED <<part, schemaVars, mfaVars, adminVars, tokenVars, socketVars, opsVars, outerVars>>
  \/ /\ (part = "roles" /\ Roles!Next) \/ (part = "lists" /\ Lists!Next)
     /\ UNCHANGED <<part, schemaVars, mfaVars, keyVars, tokenVars, socketVars, opsVars, outerVars>>
  \/ /\ part = "tokens" /\ Tokens!Next
     /\ UNCHANGED <<part, schemaVars, mfaVars, keyVars, adminVars, socketVars, opsVars, outerVars>>
  \/ /\ part = "sockets" /\ Sockets!Next
     /\ UNCHANGED <<part, schemaVars, mfaVars, keyVars, adminVars, tokenVars, opsVars, outerVars>>
  \/ /\ \/ part = "terraform" /\ Terraform!Next /\ UNCHANGED <<backupVars, httpVars>>
        \/ /\ part = "backups" /\ BackupsOf(OneRun, Coll, Key, MaxWrites)!Next
           /\ UNCHANGED <<terraformVars, httpVars>>
        \/ /\ part = "two backups" /\ BackupsOf(Run, OneColl, {NoKey}, 0)!Next
           /\ UNCHANGED <<terraformVars, httpVars>>
        \/ /\ part = "requests" /\ RequestsOf(OneReq, TRUE)!Next
           /\ UNCHANGED <<terraformVars, backupVars>>
        \/ /\ part = "together" /\ RequestsOf(Req, FALSE)!Next
           /\ UNCHANGED <<terraformVars, backupVars>>
     /\ UNCHANGED <<part, innerVars, outerVars>>
  \/ /\ \/ /\ part = "providers" /\ LoginsOf(OneCall, People, Idp, 1, MaxUnlinks, 1)!Next
           /\ UNCHANGED <<grantVars, scimVars, storeVars>>
        \/ /\ part = "returning" /\ LoginsOf(OneCall, People, TwoIdps, MaxBegun, MaxUnlinks, 0)!Next
           /\ UNCHANGED <<grantVars, scimVars, storeVars>>
        \/ /\ part = "overlapping" /\ LoginsOf(Call, 1, TwoIdps, MaxBegun, 0, 0)!Next
           /\ UNCHANGED <<grantVars, scimVars, storeVars>>
        \/ /\ part = "clients" /\ GrantsOf(OneRequest, {}, Scope, MaxChanges, 1, ClientUses)!Next
           /\ UNCHANGED <<loginVars, scimVars, storeVars>>
        \/ /\ part = "codes" /\ GrantsOf(Request, Code, {}, 1, 2, {"code"})!Next
           /\ UNCHANGED <<loginVars, scimVars, storeVars>>
        \/ part = "scim" /\ Scim!Next /\ UNCHANGED <<loginVars, grantVars, storeVars>>
        \/ /\ \/ part = "key calls" /\ StoreOf(Admin, FewKeys, {})!Next
              \/ part = "key expiry" /\ StoreOf(Single, FewKeys, 1..FewKeys)!Next
           /\ UNCHANGED <<loginVars, grantVars, scimVars>>
     /\ UNCHANGED <<part, innerVars, opsVars>>

Spec == Init /\ [][Next]_vars

-----------------------------------------------------------------------------
(* Properties *)

\* A migration that went through has ensured everything it declares; migrations only
\* add and never fail because of one another; and the runner starts none that it has
\* recorded.
MigrationsHold ==
  /\ [](part \in {"schema", "runner"} => Schema!TypeOK /\ Schema!WentThrough)
  /\ Schema!Additive /\ Schema!RecordedOnce

\* Re-encrypting MFA secrets changes no secret and never replaces a newer one.
SecretsHold == [](part = "mfa" => Mfa!TypeOK /\ Mfa!SecretKept) /\ Mfa!NotOverwritten

\* Rotations and restarts break no token, a revoked key stays dead and one key signs.
KeysHold ==
  /\ part = "keys" =>
       /\ KeysOf(Inst, FewKeys)!TypeOK
       /\ KeysOf(Inst, FewKeys)!TokensVerify
       /\ KeysOf(Inst, FewKeys)!KeysDurable
       /\ KeysOf(Inst, FewKeys)!RestartRestores
  /\ part = "rotations" =>
       /\ KeysOf(Single, MaxKeys)!TypeOK
       /\ KeysOf(Single, MaxKeys)!TokensVerify
       /\ KeysOf(Single, MaxKeys)!KeysDurable
  /\ part = "key calls" =>
       /\ StoreOf(Admin, FewKeys, {})!TypeOK
       /\ StoreOf(Admin, FewKeys, {})!RevokedIsDead
       /\ StoreOf(Admin, FewKeys, {})!HandedVerifies
       /\ StoreOf(Admin, FewKeys, {})!OneSigner
  /\ part = "key expiry" =>
       /\ StoreOf(Single, FewKeys, 1..FewKeys)!TypeOK
       /\ StoreOf(Single, FewKeys, 1..FewKeys)!RevokedIsDead
       /\ StoreOf(Single, FewKeys, 1..FewKeys)!HandedVerifies

\* Roles are what the administrators asked for, a deleted one grants nothing again, and
\* the system role stays; the pages of the user list miss nobody.
RolesHold ==
  /\ [](part = "roles" => Roles!TypeOK /\ Roles!DeletedRoleIsDead /\ Roles!AdminStays)
  /\ Roles!RolesAsAsked /\ Lists!ListingComplete

\* Every access token that was issued is accepted as long as it is good, and nothing
\* else is.
ExactlyTheGood == part = "tokens" => Tokens!TypeOK /\ Tokens!ExactlyTheGood

\* However the bytes are cut, messages come out whole, in order and once, and a
\* connection ends once.
Framing == part = "sockets" => Sockets!TypeOK /\ Sockets!Framing /\ Sockets!EndsOnce

\* After a Terraform apply the server has what was asked for and no object is
\* forgotten; a restore that reports success has restored, the latest archive is a
\* whole one, and no dump in plain text is left behind.
OperationsHold ==
  /\ part = "terraform" =>
       Terraform!TypeOK /\ Terraform!AppliedIsReal /\ Terraform!NoneForgotten
  /\ part = "backups" =>
       /\ BackupsOf(OneRun, Coll, Key, MaxWrites)!TypeOK
       /\ BackupsOf(OneRun, Coll, Key, MaxWrites)!RestoreIsTrue
       /\ BackupsOf(OneRun, Coll, Key, MaxWrites)!LatestIsWhole
       /\ BackupsOf(OneRun, Coll, Key, MaxWrites)!NoDumpLeft
  /\ part = "two backups" =>
       /\ BackupsOf(Run, OneColl, {NoKey}, 0)!TypeOK
       /\ BackupsOf(Run, OneColl, {NoKey}, 0)!RestoreIsTrue
       /\ BackupsOf(Run, OneColl, {NoKey}, 0)!LatestIsWhole
       /\ BackupsOf(Run, OneColl, {NoKey}, 0)!NoDumpLeft

\* Handlers act for those they may act for, a refusal changes nothing and an outage is not
\* taken for one, requests share their budgets, and every request is answered.
RequestsHold ==
  /\ part = "requests" =>
       /\ RequestsOf(OneReq, TRUE)!TypeOK
       /\ RequestsOf(OneReq, TRUE)!ActsWithReason
       /\ RequestsOf(OneReq, TRUE)!OutageIsNoRefusal
       /\ RequestsOf(OneReq, TRUE)!RefusalIsClean /\ RequestsOf(OneReq, TRUE)!NoneStranded
  /\ part = "together" =>
       /\ RequestsOf(Req, FALSE)!TypeOK
       /\ RequestsOf(Req, FALSE)!ActsWithReason
       /\ RequestsOf(Req, FALSE)!OutageIsNoRefusal
       /\ RequestsOf(Req, FALSE)!SharedBudget
       /\ RequestsOf(Req, FALSE)!RefusalIsClean
       /\ RequestsOf(Req, FALSE)!NoneStranded

\* An external identity leads to one account of one owner and only after verification,
\* clients are served as they are registered and codes redeemed once, and the pages of
\* the SCIM lists are complete.
SignInsHold ==
  /\ part = "providers" =>
       /\ LoginsOf(OneCall, People, Idp, 1, MaxUnlinks, 1)!TypeOK
       /\ LoginsOf(OneCall, People, Idp, 1, MaxUnlinks, 1)!OnlyVerified
       /\ LoginsOf(OneCall, People, Idp, 1, MaxUnlinks, 1)!ToldVerified
  /\ part = "returning" =>
       /\ LoginsOf(OneCall, People, TwoIdps, MaxBegun, MaxUnlinks, 0)!TypeOK
       /\ LoginsOf(OneCall, People, TwoIdps, MaxBegun, MaxUnlinks, 0)!NoSecondAccount
       /\ LoginsOf(OneCall, People, TwoIdps, MaxBegun, MaxUnlinks, 0)!OneOwner
       /\ LoginsOf(OneCall, People, TwoIdps, MaxBegun, MaxUnlinks, 0)!NoneOutside
  /\ part = "overlapping" =>
       /\ LoginsOf(Call, 1, TwoIdps, MaxBegun, 0, 0)!TypeOK
       /\ LoginsOf(Call, 1, TwoIdps, MaxBegun, 0, 0)!NoSecondAccount
       /\ LoginsOf(Call, 1, TwoIdps, MaxBegun, 0, 0)!NoneOutside
  /\ part = "clients" =>
       /\ GrantsOf(OneRequest, {}, Scope, MaxChanges, 1, ClientUses)!TypeOK
       /\ GrantsOf(OneRequest, {}, Scope, MaxChanges, 1, ClientUses)!ShutOut
       /\ GrantsOf(OneRequest, {}, Scope, MaxChanges, 1, ClientUses)!ScopesWithin
  /\ part = "codes" =>
       /\ GrantsOf(Request, Code, {}, 1, 2, {"code"})!TypeOK
       /\ GrantsOf(Request, Code, {}, 1, 2, {"code"})!ShutOut
       /\ GrantsOf(Request, Code, {}, 1, 2, {"code"})!OncePerCode
       /\ GrantsOf(Request, Code, {}, 1, 2, {"code"})!ProvenOnly
  /\ part = "scim" => Scim!TypeOK /\ Scim!WalkComplete
=============================================================================
