-------------------------------- MODULE Accounts --------------------------------
(***************************************************************************)
(* Accounts and where they come from: administrators create, edit, switch  *)
(* off and remove them (identity_writes.py), users edit their own profile, *)
(* and a directory hands accounts in when its users sign in                *)
(* (ldap_auth.py), under a configuration that is edited too                *)
(* (ldap_configuration.py).                                                *)
(*                                                                         *)
(* Operations that hold the row of the account from their first read to    *)
(* their commit are one step.  Passwords are right or wrong; names do not  *)
(* differ in case; an account has one role, as assign_role leaves it.      *)
(* Definitions marked "Mutant" are wrong on purpose and nothing uses them. *)
(***************************************************************************)
EXTENDS Integers, Sequences, FiniteSets

CONSTANTS
    Workers,                    \* server processes
    Ids,                        \* primary keys of accounts, used once
    Names, Texts,               \* login names; names and addresses of people
    Entries,                    \* users of the directory
    FirstAttr,                  \* attribute that identifies them at first
    People,                     \* Person rows without an account at first
    FirstAccounts, FirstDirectory,
    AccountRequests,            \* what users ask for
    MaxRequests,                \* bound: requests that start
    MaxChanges,                 \* bound: changes in the directory
    None

Columns == {"name", "super", "role", "active", "text", "locale", "password", "revision", "for"}

\* What a form shows and an edit replaces.
Editable == {"role", "active", "text", "locale"}

\* Requests as the serializers let them through.
WellFormed(q) ==
    /\ q.kind \in {"edit", "batch", "profile", "reset", "password", "delete", "create", "login", "directory"}
    /\ {"form", "base"} \cap DOMAIN q = {} /\ "kind" \in DOMAIN q
    /\ q.kind \in {"edit", "profile"} => "set" \in DOMAIN q /\ DOMAIN q.set \subseteq Editable
    /\ q.kind = "create" =>
        {"name", "person"} \subseteq DOMAIN q /\ q.name \in Names /\ q.person \in People \cup {None}
    /\ q.kind = "login" => DOMAIN q = {"kind", "name"} /\ q.name \in Names

AccountKeys ==
    /\ None \notin Names \cup People /\ None \notin Ids /\ None # "gone" /\ "gone" \notin Names
    /\ \A u \in DOMAIN FirstAccounts :
        /\ FirstAccounts[u] = [f \in Columns |-> FirstAccounts[u][f]]
        /\ FirstAccounts[u].name \in Names /\ FirstAccounts[u].revision \in Nat
        /\ FirstAccounts[u].for = None
        /\ \A v \in DOMAIN FirstAccounts : FirstAccounts[u].name = FirstAccounts[v].name => u = v
    /\ \A q \in AccountRequests : WellFormed(q)

VARIABLES
    account,        \* User with its role and UserSecurityProfile
    identity,       \* DirectoryIdentity rows
    person,         \* Person.account
    directory,      \* outside: login, text and state of each entry
    config,         \* DirectoryServiceConfiguration
    job, pc, held,  \* request of each worker, how far it is, person rows it locked
    blind, unreal,  \* an edit overwrote what it had not seen; a collision was none
    requests, changes

server == <<job, pc, held>>
seen == <<blind, unreal>>
vars == <<account, identity, person, directory, config, server, seen, requests, changes>>

AccountIdle == [kind |-> "none"]

\* A request with what its process has found out besides.
With(q, more) == [f \in DOMAIN q \cup DOMAIN more |-> IF f \in DOMAIN q THEN q[f] ELSE more[f]]

-----------------------------------------------------------------------------
There == {u \in Ids : account[u].name \in Names}
Fresh == {u \in Ids : account[u].name = None}
Absent == [name |-> None]
Gone == [name |-> "gone"]

\* The key of the next row.
NextId == CHOOSE u \in Ids : account[u].name = None

Named(n) == {u \in There : account[u].name = n}

\* is_directory_managed
Managed(u) == \E i \in identity : i.user = u

\* can(actor, "organization.manage")
MayManage(u) == u \in There /\ account[u].active /\ account[u].role = "admin"

Content(u) == [f \in Editable |-> account[u][f]]

Form == [u \in There |-> [revision |-> account[u].revision, content |-> Content(u)]]

\* The accounts that go by a name, in this system or in the directory.
Claimants(n) == Named(n) \cup {i.user : i \in {j \in identity : j.login = n}}

Done(w) ==
    /\ pc' = [pc EXCEPT ![w] = "idle"] /\ job' = [job EXCEPT ![w] = AccountIdle]
    /\ held' = [held EXCEPT ![w] = {}]

Go(w, to) == pc' = [pc EXCEPT ![w] = to]

At(w, kinds) == pc[w] = "begun" /\ job[w].kind \in kinds

\* The request comes in; the revisions that it carries are those of the form
\* that its user has opened.
Begin(w) ==
    \E q \in AccountRequests :
        /\ pc[w] = "idle" /\ requests < MaxRequests
        /\ requests' = requests + 1
        /\ job' = [job EXCEPT ![w] = With(q, [form |-> Form, base |-> config.revision])]
        /\ Go(w, "begun")
        /\ UNCHANGED <<account, identity, person, directory, config, held, seen, changes>>

\* A refusal or a lost connection: the transaction is rolled back.
Abort(w) ==
    /\ pc[w] # "idle"
    /\ Done(w)
    /\ UNCHANGED <<account, identity, person, directory, config, seen, requests, changes>>

-----------------------------------------------------------------------------
(* Writes of an account                                                      *)

\* Mutant: the groups of a user are not a part of the account.
FieldsOnly(old, new) ==
    [new EXCEPT !.revision = IF old.text # new.text \/ old.active # new.active
                                \/ old.password # new.password \/ old.locale # new.locale
                             THEN old.revision + 1 ELSE old.revision]

\* administration_revision follows every change: ensure_user_security_profile
\* for the fields of the row, advance_user_role_revision for its groups,
\* update_own_profile for the language.
Revised(old, new) == [new EXCEPT !.revision = IF old # new THEN old.revision + 1 ELSE old.revision]

Put(u, new) == account' = [account EXCEPT ![u] = Revised(account[u], new)]

\* update_account_fields, validate_protected_update
MayEdit(by, u, set) ==
    /\ MayManage(by) /\ u \in There
    /\ "role" \in DOMAIN set /\ set.role # account[u].role => ~account[u].super /\ u # by
    /\ "active" \in DOMAIN set /\ ~set.active => ~account[u].super /\ u # by

Edited(u, set) == [f \in DOMAIN account[u] |-> IF f \in DOMAIN set THEN set[f] ELSE account[u][f]]

Current(w, u) == u \in DOMAIN job[w].form /\ job[w].form[u].revision = account[u].revision

Overwrite(w, u) == blind' = (blind \/ job[w].form[u].content # Content(u))

\* edit_account
EditAccount(w) ==
    LET q == job[w] IN
    /\ At(w, {"edit"})
    /\ MayEdit(q.by, q.user, q.set) /\ Current(w, q.user)
    /\ Put(q.user, Edited(q.user, q.set))
    /\ Overwrite(w, q.user) /\ Done(w)
    /\ UNCHANGED <<identity, person, directory, config, unreal, requests, changes>>

\* batch_account_status: a transaction for each account, and one that fails
\* does not stop the others.
BatchAccount(w) ==
    LET q == job[w]  u == Head(q.users)  set == [active |-> q.active] IN
    /\ At(w, {"batch"})
    /\ IF MayEdit(q.by, u, set) /\ Current(w, u)
       THEN Put(u, Edited(u, set)) /\ Overwrite(w, u)
       ELSE UNCHANGED <<account, blind>>
    /\ IF Len(q.users) > 1
       THEN job' = [job EXCEPT ![w].users = Tail(@)] /\ UNCHANGED <<pc, held>>
       ELSE Done(w)
    /\ UNCHANGED <<identity, person, directory, config, unreal, requests, changes>>

\* update_own_profile
EditProfile(w) ==
    LET q == job[w] IN
    /\ At(w, {"profile"})
    /\ q.user \in There /\ account[q.user].active /\ Current(w, q.user)
    /\ Put(q.user, Edited(q.user, q.set))
    /\ Overwrite(w, q.user) /\ Done(w)
    /\ UNCHANGED <<identity, person, directory, config, unreal, requests, changes>>

\* Mutant: an administrator may set the password of whom he likes.
AnyPassword(u) == TRUE

LocalPassword(u) == ~Managed(u)

\* reset_account_password; change_own_password
SetPassword(w) ==
    LET q == job[w] IN
    /\ At(w, {"reset", "password"})
    /\ q.user \in There /\ LocalPassword(q.user)
    /\ IF q.kind = "reset" THEN MayManage(q.by)
       ELSE account[q.user].active /\ account[q.user].password # "none"
    /\ Put(q.user, [account[q.user] EXCEPT !.password = IF q.kind = "reset" THEN "given" ELSE "own"])
    /\ Done(w)
    /\ UNCHANGED <<identity, person, directory, config, seen, requests, changes>>

\* delete_account: the person stays, without an account.
DeleteAccount(w) ==
    LET q == job[w] IN
    /\ At(w, {"delete"})
    /\ MayManage(q.by) /\ q.user \in There /\ q.user # q.by
    /\ ~account[q.user].super /\ ~Managed(q.user)
    /\ account' = [account EXCEPT ![q.user] = Gone]
    /\ person' = [p \in People |-> IF person[p] = q.user THEN None ELSE person[p]]
    /\ Done(w)
    /\ UNCHANGED <<identity, directory, config, seen, requests, changes>>

-----------------------------------------------------------------------------
(* Creation                                                                  *)

\* Mutant: the person is read without a lock.
NoPersonRow(q) == {}

\* create_account_fields: the row of the person, until the commit.
PersonRow(q) == IF q.person = None THEN {} ELSE {q.person}

CheckCreation(w) ==
    LET q == job[w] IN
    /\ At(w, {"create"})
    /\ MayManage(q.by) /\ Named(q.name) = {}
    /\ \A v \in Workers \ {w} : held[v] \cap PersonRow(q) = {}
    /\ q.person # None => person[q.person] = None
    /\ held' = [held EXCEPT ![w] = PersonRow(q)]
    /\ Go(w, "checked")
    /\ UNCHANGED <<account, identity, person, directory, config, job, seen, requests, changes>>

NewAccount(name, role, text, password, for) ==
    [name |-> name, super |-> FALSE, role |-> role, active |-> TRUE, text |-> text, locale |-> "zh",
     password |-> password, revision |-> 1, for |-> for]

\* The name is unique.  An account without a person gets one of its own.
CreateAccount(w) ==
    LET q == job[w]  u == NextId IN
    /\ pc[w] = "checked" /\ Fresh # {}
    /\ Named(q.name) = {}
    /\ account' = [account EXCEPT ![u] = NewAccount(q.name, q.role, q.text, "given", q.person)]
    /\ person' = [p \in People |-> IF p = q.person THEN u ELSE person[p]]
    /\ Done(w)
    /\ UNCHANGED <<identity, directory, config, seen, requests, changes>>

-----------------------------------------------------------------------------
(* Sign-in by the directory                                                  *)

Quietly == UNCHANGED <<account, identity, person, directory, config, blind, requests, changes>>

\* Is a collision that ends a login one?  Somebody else goes by that name, or
\* did when the login began; or the name changed hands twice in the meantime.
Real(w, n, e, attr, met) ==
    \/ job[w].tries = 2
    \/ \E u \in Claimants(n) \cup met :
        ~\E i \in identity : i.user = u /\ i.entry = e /\ i.attr = attr

EntryOf(n) == {e \in Entries : directory[e].login = n}

Collide(w, n, e, attr, met) ==
    /\ unreal' = (unreal \/ ~Real(w, n, e, attr, met))
    /\ Done(w)
    /\ Quietly

\* resolve_authentication_route: identities that go by the name, and the one
\* of the account that has it.
Linked(n) == {i \in identity : i.login = n \/ i.user \in Named(n)}

Ambiguous(n) == Cardinality(Linked(n)) > 1 \/ \E i \in Linked(n) : Named(n) \ {i.user} # {}

\* _directory_identity_for_login, and the configuration that the client reads
RouteToDirectory(w) ==
    LET n == job[w].name IN
    /\ At(w, {"login"})
    /\ config.enabled /\ ~Ambiguous(n)
    /\ Linked(n) # {} \/ Named(n) = {}
    /\ job' = [job EXCEPT ![w] = With(@, [expected |-> Linked(n), attr |-> config.attr,
                                          met |-> Claimants(n), endpoint |-> 1, tries |-> 1])]
    /\ Go(w, "asking")
    /\ UNCHANGED <<held, unreal>> /\ Quietly

\* A local account, or no account and no directory.
RouteElsewhere(w) ==
    LET n == job[w].name IN
    /\ At(w, {"login"})
    /\ Ambiguous(n) \/ ~config.enabled \/ (Linked(n) = {} /\ Named(n) # {})
    /\ Done(w)
    /\ UNCHANGED unreal /\ Quietly

\* LDAPDirectoryClient.authenticate: the secondary endpoint is asked when the
\* primary does not answer.
NoAnswer(w) ==
    /\ pc[w] = "asking" /\ job[w].endpoint = 1
    /\ job' = [job EXCEPT ![w].endpoint = 2]
    /\ UNCHANGED <<pc, held, unreal>> /\ Quietly

\* _authenticate_endpoint: one entry, enabled, and the password is right.
Answer(w) ==
    LET n == job[w].name IN
    /\ pc[w] = "asking"
    /\ \E e \in EntryOf(n) :
        /\ directory[e].on
        /\ IF \E i \in job[w].expected : i.entry # e \/ i.attr # job[w].attr
           THEN Collide(w, n, e, job[w].attr, job[w].met)
           ELSE /\ job' = [job EXCEPT ![w] = With(@, [entry |-> e, text |-> directory[e].text])]
                /\ Go(w, "provisioning")
                /\ UNCHANGED <<held, unreal>> /\ Quietly

Known(w) == {i \in identity : i.entry = job[w].entry /\ i.attr = job[w].attr}

\* provision_directory_user, _prepare_directory_user, _sync_directory_attributes
Refresh(w) ==
    /\ pc[w] = "provisioning"
    /\ \E i \in Known(w) :
        /\ account[i.user].active
        /\ IF Named(job[w].name) \subseteq {i.user}
           THEN /\ Put(i.user, [account[i.user] EXCEPT !.text = job[w].text, !.password = "none"])
                /\ identity' = (identity \ {i}) \cup {[i EXCEPT !.login = job[w].name]}
                /\ Done(w)
                /\ UNCHANGED <<person, directory, config, seen, requests, changes>>
           ELSE Collide(w, job[w].name, job[w].entry, job[w].attr, job[w].met)

\* Nobody is known: the name must be free ...
CheckFirstLogin(w) ==
    /\ pc[w] = "provisioning" /\ Known(w) = {}
    /\ IF Named(job[w].name) # {}
       THEN Collide(w, job[w].name, job[w].entry, job[w].attr, job[w].met)
       ELSE Go(w, "inserting") /\ UNCHANGED <<job, held, unreal>> /\ Quietly

\* ... and when the account and its identity are inserted, both are unique.
FirstLogin(w) ==
    LET q == job[w]  u == NextId IN
    /\ pc[w] = "inserting" /\ Fresh # {}
    /\ Named(q.name) = {} /\ Known(w) = {}
    /\ account' = [account EXCEPT ![u] = NewAccount(q.name, "none", q.text, "none", None)]
    /\ identity' = identity \cup {[entry |-> q.entry, attr |-> q.attr, user |-> u, login |-> q.name]}
    /\ Done(w)
    /\ UNCHANGED <<person, directory, config, seen, requests, changes>>

\* Mutant: the loser does not look again.
OneTry == 1

MaxTries == 2

\* IntegrityError: once more, from the start of the transaction.
LoseFirstLogin(w) ==
    /\ pc[w] = "inserting"
    /\ Named(job[w].name) # {} \/ Known(w) # {}
    /\ IF job[w].tries < MaxTries
       THEN /\ job' = [job EXCEPT ![w].tries = @ + 1]
            /\ Go(w, "provisioning")
            /\ UNCHANGED <<held, unreal>> /\ Quietly
       ELSE Collide(w, job[w].name, job[w].entry, job[w].attr, job[w].met)

-----------------------------------------------------------------------------
(* The configuration of the directory                                        *)

\* identity_anchor_errors: what identifies an entry stays, once it is used.
KeepsAnchor(attr) == identity = {} \/ attr = config.attr

\* auth_ldap_config, under the locks of the settings and of the row
CheckConfiguration(w) ==
    LET q == job[w] IN
    /\ At(w, {"directory"})
    /\ MayManage(q.by) /\ q.base = config.revision
    /\ \A v \in Workers : pc[v] # "saving"
    /\ KeepsAnchor(q.attr)
    /\ Go(w, "saving")
    /\ UNCHANGED <<account, identity, person, directory, config, job, held, seen, requests, changes>>

\* save_configuration
SaveConfiguration(w) ==
    /\ pc[w] = "saving"
    /\ config' = [attr |-> job[w].attr, enabled |-> job[w].enabled, revision |-> config.revision + 1]
    /\ Done(w)
    /\ UNCHANGED <<account, identity, person, directory, seen, requests, changes>>

\* Somebody edits the directory.
DirectoryChanges ==
    /\ changes < MaxChanges
    /\ changes' = changes + 1
    /\ \E e \in Entries :
        \/ \E n \in Names :
            /\ EntryOf(n) = {}
            /\ directory' = [directory EXCEPT ![e].login = n]
        \/ \E t \in Texts \ {directory[e].text} : directory' = [directory EXCEPT ![e].text = t]
        \/ directory' = [directory EXCEPT ![e].on = ~@]
    /\ UNCHANGED <<account, identity, person, config, server, seen, requests>>

-----------------------------------------------------------------------------
Init ==
    /\ account = [u \in Ids |-> IF u \in DOMAIN FirstAccounts THEN FirstAccounts[u] ELSE Absent]
    /\ identity = {} /\ person = [p \in People |-> None]
    /\ directory = FirstDirectory
    /\ config = [attr |-> FirstAttr, enabled |-> TRUE, revision |-> 0]
    /\ job = [w \in Workers |-> AccountIdle] /\ pc = [w \in Workers |-> "idle"]
    /\ held = [w \in Workers |-> {}]
    /\ blind = FALSE /\ unreal = FALSE /\ requests = 0 /\ changes = 0

Next ==
    \/ DirectoryChanges
    \/ \E w \in Workers :
        \/ Begin(w) \/ Abort(w)
        \/ EditAccount(w) \/ BatchAccount(w) \/ EditProfile(w) \/ SetPassword(w) \/ DeleteAccount(w)
        \/ CheckCreation(w) \/ CreateAccount(w)
        \/ RouteToDirectory(w) \/ RouteElsewhere(w) \/ NoAnswer(w) \/ Answer(w)
        \/ Refresh(w) \/ CheckFirstLogin(w) \/ FirstLogin(w) \/ LoseFirstLogin(w)
        \/ CheckConfiguration(w) \/ SaveConfiguration(w)

Spec == Init /\ [][Next]_vars

-----------------------------------------------------------------------------
(* Properties *)

\* An edit of an account by an administrator, one by one or in a batch, and of
\* the own profile never replaces a state that its form did not show, whether it
\* came from another edit, a role, the language, or a login of the directory.
AccountEditsSeeEveryChange == ~blind

\* A login of the directory is turned away for a collision only when another
\* account goes by the name: two first logins of one user, with the same or
\* with a new login name, end on one account.
CollisionsAreReal == ~unreal

\* Every identity has an account of its own that stays, with no local password;
\* names are unique; and a person that an account was created for belongs to it
\* until the account is deleted.
AccountsAreSound ==
    /\ \A i \in identity : i.user \in There /\ account[i.user].password = "none"
    /\ \A i, j \in identity : i # j =>
        i.user # j.user /\ <<i.entry, i.attr>> # <<j.entry, j.attr>>
    /\ \A u \in There : Named(account[u].name) = {u}
    /\ \A u \in There : account[u].for # None => person[account[u].for] = u
    /\ \A p \in People : person[p] \in There \cup {None}

\* No change of an account is lost, no login refused for nothing, and accounts,
\* identities and persons fit together.
AccountsHold == AccountEditsSeeEveryChange /\ CollisionsAreReal /\ AccountsAreSound

\* "Prevent config changes that would make existing identity links unreachable"
\* (ldap_configuration.py:346).  The identities are counted without a lock: a
\* first login that has read the old configuration may insert one after that.
AnchorsHold == \A i \in identity : i.attr = config.attr
=============================================================================
