----------------------------- MODULE Administration -----------------------------
(***************************************************************************)
(* What administrators keep: accounts and the directory, the doors through *)
(* which users come in, the settings, and the catalog of fields, sets,     *)
(* models and departments.  They share no state that any of them depends   *)
(* on, so they are checked side by side: a behaviour is about one of them  *)
(* from its beginning, and the variables of the others are unused in it.   *)
(***************************************************************************)
EXTENDS Integers

CONSTANTS
    Studies, Workers, None, People,
    Ids, Names, Texts, Entries, FirstAttr, FirstAccounts, FirstDirectory,   \* Accounts
    AccountRequests, MaxRequests, MaxChanges,
    Users, Sessions, Window, LockTime, MaxAttempts, Expiry,                 \* SignIn
    LastTick, MaxSecrets, MaxCalls,
    Clients, MaxSaves,                                                      \* Settings
    Fields, Sets, Types, Models, Assets, Values, Standard, Standalone,      \* Catalog
    Departments, FirstFields, FirstOptions, FirstItems, FirstSets, FirstOwn, FirstValues,
    FirstParents, CatalogRequests, MaxEdits

VARIABLES
    study,
    account, identity, person, directory, config, job, pc, held, blind, unreal, requests, changes,
    tick, throttle, profile, session, call, at, rows, counted, accepted, replayed, calls, secrets,
    row, revision, form, stale, raced, unseen, saves,
    fields, options, items, typeSet, own, values, archived, parent, member,
    task, stage, locked, plan, aside, outdated, edits

accountVars ==
    <<account, identity, person, directory, config, job, pc, held, blind, unreal, requests, changes>>
doorVars ==
    <<tick, throttle, profile, session, call, at, rows, counted, accepted, replayed, calls, secrets>>
settingVars == <<row, revision, form, stale, raced, unseen, saves>>
catalogVars ==
    <<fields, options, items, typeSet, own, values, archived, parent, member,
      task, stage, locked, plan, aside, outdated, edits>>
vars == <<study, accountVars, doorVars, settingVars, catalogVars>>

-----------------------------------------------------------------------------
Staff == INSTANCE Accounts
Doors == INSTANCE SignIn
Saved == INSTANCE Settings WITH blind <- unseen
Shelf == INSTANCE Catalog WITH
    Requests <- CatalogRequests, MaxRequests <- MaxEdits,
    job <- task, pc <- stage, held <- locked, raced <- outdated, requests <- edits

ASSUME AdministrationConstants ==
    /\ Studies \subseteq {"accounts", "doors", "settings", "catalog"}
    /\ Staff!AccountKeys
    /\ Doors!PolicyRanges
    /\ Shelf!CatalogKeys

-----------------------------------------------------------------------------
Unused == "unused"

NoAccounts ==
    /\ account = Unused /\ identity = Unused /\ person = Unused /\ directory = Unused
    /\ config = Unused /\ job = Unused /\ pc = Unused /\ held = Unused /\ blind = Unused
    /\ unreal = Unused /\ requests = Unused /\ changes = Unused
NoDoors ==
    /\ tick = Unused /\ throttle = Unused /\ profile = Unused /\ session = Unused /\ call = Unused
    /\ at = Unused /\ rows = Unused /\ counted = Unused /\ accepted = Unused /\ replayed = Unused
    /\ calls = Unused /\ secrets = Unused
NoSettings ==
    /\ row = Unused /\ revision = Unused /\ form = Unused /\ stale = Unused /\ raced = Unused
    /\ unseen = Unused /\ saves = Unused
NoCatalog ==
    /\ fields = Unused /\ options = Unused /\ items = Unused /\ typeSet = Unused /\ own = Unused
    /\ values = Unused /\ archived = Unused /\ parent = Unused /\ member = Unused /\ task = Unused
    /\ stage = Unused /\ locked = Unused /\ plan = Unused /\ aside = Unused /\ outdated = Unused
    /\ edits = Unused

Init ==
    /\ study \in Studies
    /\ IF study = "accounts" THEN Staff!Init ELSE NoAccounts
    /\ IF study = "doors" THEN Doors!Init ELSE NoDoors
    /\ IF study = "settings" THEN Saved!Init ELSE NoSettings
    /\ IF study = "catalog" THEN Shelf!Init ELSE NoCatalog

AccountStep ==
    study = "accounts" /\ Staff!Next /\ UNCHANGED <<study, doorVars, settingVars, catalogVars>>
DoorStep ==
    study = "doors" /\ Doors!Next /\ UNCHANGED <<study, accountVars, settingVars, catalogVars>>
SettingStep ==
    study = "settings" /\ Saved!Next /\ UNCHANGED <<study, accountVars, doorVars, catalogVars>>
CatalogStep ==
    study = "catalog" /\ Shelf!Next /\ UNCHANGED <<study, accountVars, doorVars, settingVars>>

Next == AccountStep \/ DoorStep \/ SettingStep \/ CatalogStep

Spec == Init /\ [][Next]_vars

-----------------------------------------------------------------------------
(* Properties; each is explained where the component states it. *)

\* Accounts: no change of an account is lost, no login refused for nothing, and
\* accounts, identities and persons fit together.
AccountsHold == study = "accounts" => Staff!AccountsHold

\* Accounts: "Prevent config changes that would make existing identity links
\* unreachable" (ldap_configuration.py:346).
AnchorsHold == study = "accounts" => Staff!AnchorsHold

\* SignIn: every failed try counts, through whichever door and however many at once.
FailuresAreCounted == study = "doors" => Doors!FailuresAreCounted

\* SignIn: a code completes one login.
CodesOpenOnce == study = "doors" => Doors!CodesOpenOnce

\* Settings: no save over what was not seen, and what is switched on is complete
\* unless a save came between the two steps of a reset.
SettingsAreSound == study = "settings" => Saved!SettingsAreSound

\* Catalog: definitions agree, values fit them but for races, departments are a tree.
CatalogIsSound == study = "catalog" => Shelf!CatalogIsSound
=============================================================================
