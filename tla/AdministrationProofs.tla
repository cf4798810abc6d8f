------------------------- MODULE AdministrationProofs -------------------------
(***************************************************************************)
(* Proofs about what administrators keep, for every number of users,       *)
(* processes and requests: the settings, the doors, the catalog, and the   *)
(* accounts.                                                               *)
(***************************************************************************)
EXTENDS Administration, Sequences, TLAPS

-----------------------------------------------------------------------------
(* Settings                                                                  *)

\* The row has a value for every column and revisions count from one.
SettingsTypes ==
    /\ row \in [Saved!Columns -> BOOLEAN]
    /\ revision \in Nat \ {0}
    /\ unseen \in BOOLEAN /\ raced \in BOOLEAN

\* The strengthening: a form with the present revision shows the present row, no
\* form is ahead of the row, and the columns that a running reset is going to
\* clear are, unless a patch came in between, all that are set.
SettingsInv ==
    /\ SettingsTypes
    /\ \A c \in Clients :
        /\ form[c].revision \in Nat /\ form[c].revision <= revision
        /\ form[c].revision = revision => form[c].row = row
    /\ stale # Saved!NotResetting /\ ~raced => \A k \in Saved!ResetKeys : row[k] => k \in stale
    /\ form = [c \in Clients |-> form[c]]
    /\ Saved!SettingsAreSound

\* A patch that is accepted was made from the row as it is.
LEMMA AcceptedSawAll ==
  ASSUME SettingsInv, NEW c \in Clients, Saved!Accepted(c)
  PROVE  form[c].row = row /\ ~unseen'
BY DEF SettingsInv, Saved!Accepted, Saved!Current, Saved!SettingsAreSound

\* Saving a row with a new revision leaves no form that claims to be current.
LEMMA FormsStay ==
  ASSUME SettingsInv, NEW c \in Clients, Saved!Accepted(c),
         row' \in [Saved!Columns -> BOOLEAN],
         \/ revision' = revision + 1
         \/ revision' = revision /\ row' = row
  PROVE  /\ \A d \in Clients :
              /\ form'[d].revision \in Nat /\ form'[d].revision <= revision'
              /\ form'[d].revision = revision' => form'[d].row = row'
         /\ form' = [d \in Clients |-> form'[d]]
         /\ revision' \in Nat \ {0}
<1>1. revision' \in Nat \ {0} /\ revision' >= revision BY DEF SettingsInv, SettingsTypes
<1>2. form' = [form EXCEPT ![c] = Saved!NoForm] BY DEF Saved!Accepted
<1>3. ASSUME NEW d \in Clients
      PROVE  /\ form'[d].revision \in Nat /\ form'[d].revision <= revision'
             /\ form'[d].revision = revision' => form'[d].row = row'
  <2>1. CASE d = c
    <3>1. form'[d].revision = 0 BY <1>2, <2>1 DEF SettingsInv, Saved!NoForm
    <3> QED BY <3>1, <1>1
  <2>2. CASE d # c
    <3>1. form'[d] = form[d] BY <1>2, <2>2 DEF SettingsInv
    <3> QED BY <3>1, <1>1 DEF SettingsInv, SettingsTypes
  <2> QED BY <2>1, <2>2
<1> QED BY <1>1, <1>2, <1>3 DEF SettingsInv

\* apply_system_settings_patch leaves a row that has been validated as a whole.
LEMMA PatchStep == ASSUME SettingsInv, NEW c \in Clients, Saved!Patch(c) PROVE SettingsInv'
<1>1. PICK candidate \in Saved!Candidates : Saved!Valid(candidate) /\ Saved!Save(candidate)
  BY DEF Saved!Patch
<1>2. Saved!Accepted(c) BY DEF Saved!Patch
<1>3. candidate \in [Saved!Columns -> BOOLEAN]
  <2>1. PICK changed : candidate = [k \in Saved!Columns |-> IF k \in changed THEN ~row[k] ELSE row[k]]
    BY DEF Saved!Candidates
  <2> QED BY <2>1 DEF SettingsInv, SettingsTypes
<1>4. row' = candidate /\ revision' = IF candidate = row THEN revision ELSE revision + 1
  BY <1>1 DEF Saved!Save
<1>5. Saved!EnabledIsComplete'
  BY <1>1, <1>3, <1>4
    DEF Saved!Valid, Saved!EnabledIsComplete, Saved!Columns, Saved!ResetKeys, Saved!Public,
      Saved!Secret, Saved!Smtp, Saved!Digest
<1>6. stale' = stale /\ raced' = (raced \/ stale # Saved!NotResetting) BY <1>2 DEF Saved!Accepted
<1>7. unseen' \in BOOLEAN /\ ~unseen' BY <1>2, AcceptedSawAll DEF Saved!Accepted
<1> QED BY <1>2, <1>3, <1>4, <1>5, <1>6, <1>7, FormsStay
  DEF SettingsInv, SettingsTypes, Saved!SettingsAreSound

\* apply_branding_patch touches no column that a service needs.
LEMMA BrandingStep == ASSUME SettingsInv, NEW c \in Clients, Saved!PatchBranding(c)
  PROVE SettingsInv'
<1>1. PICK chosen \in [Saved!Branding -> BOOLEAN] :
        row' = [k \in Saved!Columns |-> IF k \in Saved!Branding THEN chosen[k] ELSE row[k]]
  BY DEF Saved!PatchBranding
<1>2. Saved!Accepted(c) /\ revision' = revision + 1 BY DEF Saved!PatchBranding
<1>3. row' \in [Saved!Columns -> BOOLEAN] BY <1>1 DEF SettingsInv, SettingsTypes
<1>4. \A k \in Saved!ResetKeys : row'[k] = row[k]
  BY <1>1 DEF Saved!Columns, Saved!ResetKeys, Saved!Public, Saved!Secret, Saved!Smtp,
      Saved!Digest, Saved!Branding
<1>5. Saved!EnabledIsComplete' <=> Saved!EnabledIsComplete
  BY <1>4 DEF Saved!EnabledIsComplete, Saved!ResetKeys, Saved!Public, Saved!Secret, Saved!Smtp,
      Saved!Digest
<1>6. stale' = stale /\ raced' = (raced \/ stale # Saved!NotResetting) BY <1>2 DEF Saved!Accepted
<1>7. unseen' \in BOOLEAN /\ ~unseen' BY <1>2, AcceptedSawAll DEF Saved!Accepted
<1> QED BY <1>2, <1>3, <1>5, <1>6, <1>7, FormsStay
  DEF SettingsInv, SettingsTypes, Saved!SettingsAreSound

\* reset_system_settings clears all that was set, unless a patch came in between.
LEMMA ResetStep == ASSUME SettingsInv, Saved!SaveReset PROVE SettingsInv'
<1>1. /\ stale # Saved!NotResetting /\ stale' = Saved!NotResetting
      /\ row' = [k \in Saved!Columns |-> IF k \in stale \cup Saved!Branding THEN Saved!Default[k] ELSE row[k]]
      /\ revision' = revision + (IF stale = {} THEN 1 ELSE 2)
      /\ UNCHANGED <<form, raced, unseen>>
  BY DEF Saved!SaveReset
<1>2. row' \in [Saved!Columns -> BOOLEAN] BY <1>1 DEF SettingsInv, SettingsTypes, Saved!Default
<1>3. revision' \in Nat \ {0} /\ revision' > revision BY <1>1 DEF SettingsInv, SettingsTypes
<1>4. ASSUME ~raced PROVE Saved!EnabledIsComplete'
  <2>1. \A k \in Saved!ResetKeys : ~row'[k]
    BY <1>1, <1>4 DEF SettingsInv, SettingsTypes, Saved!Default, Saved!Columns
  <2>2. \A k \in Saved!ResetKeys : row'[k] \in BOOLEAN BY <1>2 DEF Saved!Columns
  <2> QED BY <2>1, <2>2
    DEF Saved!EnabledIsComplete, Saved!ResetKeys, Saved!Public, Saved!Secret, Saved!Smtp,
      Saved!Digest
<1>5. \A c \in Clients : form'[c].revision \in Nat /\ form'[c].revision < revision'
  BY <1>1, <1>3 DEF SettingsInv, SettingsTypes
<1> QED BY <1>1, <1>2, <1>3, <1>4, <1>5 DEF SettingsInv, SettingsTypes, Saved!SettingsAreSound

\* A form that is read shows the row and its revision.
LEMMA ReadStep == ASSUME SettingsInv, NEW c \in Clients, Saved!Read(c) PROVE SettingsInv'
<1>1. /\ form' = [form EXCEPT ![c] = [revision |-> revision, row |-> row]]
      /\ UNCHANGED <<row, revision, stale, raced, unseen>>
  BY DEF Saved!Read
<1>2. \A d \in Clients : form'[d] = IF d = c THEN [revision |-> revision, row |-> row] ELSE form[d]
  BY <1>1 DEF SettingsInv
<1>3. form' = [d \in Clients |-> form'[d]] BY <1>1 DEF SettingsInv
<1> QED BY <1>1, <1>2, <1>3
  DEF SettingsInv, SettingsTypes, Saved!SettingsAreSound, Saved!EnabledIsComplete

\* The invariant is inductive.
LEMMA SettingsStep == ASSUME SettingsInv, Saved!Next \/ UNCHANGED settingVars PROVE SettingsInv'
<1>1. CASE UNCHANGED settingVars
  BY <1>1 DEF settingVars, SettingsInv, SettingsTypes, Saved!SettingsAreSound,
      Saved!EnabledIsComplete
<1>2. CASE Saved!ReadForReset
  <2>1. /\ stale' = {k \in Saved!ResetKeys : row[k] # Saved!Default[k]}
        /\ UNCHANGED <<row, revision, form, raced, unseen>>
    BY <1>2 DEF Saved!ReadForReset
  <2>2. \A k \in Saved!ResetKeys : row[k] => k \in stale'
    BY <2>1 DEF SettingsInv, SettingsTypes, Saved!Default, Saved!Columns
  <2> QED BY <2>1, <2>2
    DEF SettingsInv, SettingsTypes, Saved!SettingsAreSound, Saved!EnabledIsComplete
<1>3. CASE Saved!SaveReset BY <1>3, ResetStep
<1>4. ASSUME NEW c \in Clients, Saved!Read(c) \/ Saved!Patch(c) \/ Saved!PatchBranding(c)
  PROVE SettingsInv'
  BY <1>4, ReadStep, PatchStep, BrandingStep
<1> QED BY <1>1, <1>2, <1>3, <1>4 DEF Saved!Next

LEMMA SettingsInit == ASSUME Saved!Init PROVE SettingsInv
<1>1. \A c \in Clients : form[c].revision = 0 BY DEF Saved!Init, Saved!NoForm
<1>2. row \in [Saved!Columns -> BOOLEAN] /\ \A k \in Saved!Columns : ~row[k]
  BY DEF Saved!Init, Saved!Default
<1>3. Saved!EnabledIsComplete
  BY <1>2 DEF Saved!EnabledIsComplete, Saved!Columns, Saved!ResetKeys, Saved!Public, Saved!Secret,
    Saved!Smtp, Saved!Digest
<1>4. form = [c \in Clients |-> form[c]] BY DEF Saved!Init
<1>5. revision = 1 /\ stale = Saved!NotResetting BY DEF Saved!Init
<1>6. unseen = FALSE /\ raced = FALSE BY DEF Saved!Init
<1>7. SettingsTypes
  <2>1. revision \in Nat \ {0} BY <1>5
  <2>2. unseen \in BOOLEAN /\ raced \in BOOLEAN BY <1>6, Zenon
  <2> QED BY <1>2, <2>1, <2>2, Zenon DEF SettingsTypes
<1>8. Saved!SettingsAreSound BY <1>3, <1>6, Zenon DEF Saved!SettingsAreSound
<1> QED BY <1>1, <1>4, <1>5, <1>7, <1>8 DEF SettingsInv

\* No patch is saved over a change that its author has not seen, and what is
\* switched on can be used unless a patch came between the two steps of a reset,
\* however many administrators save and reset (apply_system_settings_patch,
\* apply_branding_patch, reset_system_settings).
THEOREM SettingsSound == Spec => []SettingsAreSound
<1> DEFINE I == study = "settings" => SettingsInv
<1>1. Init => I BY SettingsInit DEF Init
<1>2. I /\ [Next]_vars => I'
  <2> SUFFICES ASSUME I, [Next]_vars, study' = "settings" PROVE SettingsInv'
    OBVIOUS
  <2>1. CASE SettingStep BY <2>1, SettingsStep DEF SettingStep
  <2>2. CASE AccountStep \/ DoorStep \/ CatalogStep
    BY <2>2 DEF AccountStep, DoorStep, CatalogStep
  <2>3. CASE UNCHANGED vars BY <2>3, SettingsStep DEF vars
  <2> QED BY <2>1, <2>2, <2>3 DEF Next
<1>3. I => SettingsAreSound BY DEF SettingsInv, SettingsAreSound
<1> QED BY <1>1, <1>2, <1>3, PTL DEF Spec
-----------------------------------------------------------------------------
(* Doors: the invariant                                                      *)

CallFields == {"kind", "session", "user", "admin", "right", "step", "secret"}

Counters == [count : Nat, first : Int, until : Int]

ProcessTypes ==
    /\ at = [w \in Workers |-> at[w]]
    /\ call = [w \in Workers |-> call[w]]
    /\ rows = [w \in Workers |-> rows[w]]

DoorTypes ==
    /\ tick \in Nat /\ secrets \in Nat
    /\ throttle \in [Doors!AllKeys -> Counters] /\ counted \in [Doors!AllKeys -> Nat]
    /\ ProcessTypes
    /\ DOMAIN accepted = Users /\ DOMAIN profile = Users
    /\ \A u \in Users :
        /\ {"enabled", "secret", "last", "mustChange", "changed"} \subseteq DOMAIN profile[u]
        /\ profile[u].secret \in Int /\ profile[u].secret <= secrets /\ profile[u].last \in Int

\* Rows are locked by one process at a time.
RowsApart == \A v, w \in Workers : v # w => rows[v] \cap rows[w] = {}

\* The user and the secret that a request came with, and nothing yet of what it
\* is going to learn.
Came(w) ==
    /\ CallFields \subseteq DOMAIN call[w]
    /\ at[w] # "counting" => {"now", "read"} \cap DOMAIN call[w] = {}
    /\ call[w].user \in Users /\ call[w].step \in Nat
    /\ call[w].secret \in Int /\ call[w].secret <= secrets

\* The counters that a process has read are those of its rows, which it holds;
\* a lock that was over when it read them counts from the beginning.
Counting(w) ==
    /\ Doors!KeysOf(w) \subseteq rows[w]
    /\ call[w].now \in Nat
    /\ \A k \in Doors!KeysOf(w) :
        call[w].read[k] = IF Doors!Over(k, call[w].now) THEN Doors!Reset ELSE throttle[k]

\* While the secret of a code that was compared is in force, so is the factor.
InForce(q) == q.secret # Doors!Never /\ (q.secret = profile[q.user].secret => profile[q.user].enabled)

CallFits(w) ==
    /\ at[w] \in {"idle", "begun", "open", "failing", "counting", "welcome", "compared"}
    /\ at[w] # "idle" => Came(w)
    /\ at[w] = "counting" => Counting(w)
    /\ at[w] = "compared" => InForce(call[w])

\* The code that came last is of a secret that was handed out; if that is the one
\* in force, its step is the last one used.
CodeFits(u) ==
    /\ profile[u].enabled => profile[u].secret # Doors!Never
    /\ \A c, t : accepted[u] = <<c, t>> =>
        /\ c \in Int /\ c <= secrets /\ c # Doors!Never
        /\ c = profile[u].secret => profile[u].enabled /\ profile[u].last = t

CodesFit == \A u \in Users : CodeFits(u)

DoorInv ==
    /\ DoorTypes /\ RowsApart
    /\ \A w \in Workers : CallFits(w)
    /\ CodesFit
    /\ Doors!FailuresAreCounted /\ Doors!CodesOpenOnce

-----------------------------------------------------------------------------
(* Doors: what a step of one process leaves to the others                    *)

LEMMA OwnKeys ==
  ASSUME NEW w \in Workers, call[w].user \in Users
  PROVE  Doors!KeysOf(w) \subseteq Doors!AllKeys
<1>1. Doors!Factor(w) \in {"login", "code"} BY DEF Doors!Factor
<1> QED BY <1>1 DEF Doors!KeysOf, Doors!AllKeys

\* A step that changes no counter whose row another process holds.
CountersKept(w) ==
    \A v \in Workers \ {w} : \A k \in Doors!AllKeys : k \in rows[v] => throttle'[k] = throttle[k]

\* A step that puts no secret in force without the factor.
SecretsKept ==
    /\ secrets' \in Nat /\ secrets' >= secrets
    /\ \A u \in Users, c \in Int :
        c # Doors!Never /\ c <= secrets /\ (c = profile[u].secret => profile[u].enabled) =>
            (c = profile'[u].secret => profile'[u].enabled)

LEMMA OthersFit ==
  ASSUME DoorInv, NEW w \in Workers, NEW v \in Workers, v # w,
         at'[v] = at[v], call'[v] = call[v], rows'[v] = rows[v], CountersKept(w), SecretsKept
  PROVE  CallFits(v)'
<1>1. CallFits(v) BY DEF DoorInv
<1>2. at[v] # "idle" => Came(v)' BY <1>1 DEF CallFits, Came, SecretsKept, DoorInv, DoorTypes, ProcessTypes
<1>3. Doors!KeysOf(v)' = Doors!KeysOf(v) BY DEF Doors!KeysOf, Doors!Factor
<1>4. ASSUME at[v] = "counting" PROVE Counting(v)'
  <2>1. Came(v) /\ Counting(v) BY <1>1, <1>4 DEF CallFits
  <2>2. \A k \in Doors!KeysOf(v) : throttle'[k] = throttle[k]
    BY <2>1, OwnKeys DEF Came, Counting, CountersKept
  <2> QED BY <2>1, <2>2, <1>3 DEF Counting, Doors!Over
<1>5. ASSUME at[v] = "compared" PROVE InForce(call[v])'
  <2>1. Came(v) /\ InForce(call[v]) BY <1>1, <1>5 DEF CallFits
  <2> QED BY <2>1 DEF SecretsKept, Came, InForce
<1> QED BY <1>1, <1>2, <1>4, <1>5 DEF CallFits

\* The tuples of a step of w, which ends with what it asks for and locks no row.
LEMMA EndedFits ==
  ASSUME DoorInv, NEW w \in Workers, Doors!Done(w), CountersKept(w), SecretsKept
  PROVE  /\ \A v \in Workers : CallFits(v)'
         /\ RowsApart'
         /\ ProcessTypes'
<1>1. /\ at' = [at EXCEPT ![w] = "idle"] /\ call' = [call EXCEPT ![w] = Doors!NoCall]
      /\ rows' = [rows EXCEPT ![w] = {}]
  BY DEF Doors!Done, Doors!Go
<1>2. CallFits(w)' BY <1>1 DEF CallFits, DoorInv, DoorTypes, ProcessTypes
<1>3. ASSUME NEW v \in Workers, v # w PROVE CallFits(v)'
  BY <1>1, <1>3, OthersFit DEF DoorInv, DoorTypes, ProcessTypes
<1>4. RowsApart' BY <1>1 DEF RowsApart, DoorInv, DoorTypes, ProcessTypes
<1> QED BY <1>1, <1>2, <1>3, <1>4 DEF DoorInv, DoorTypes, ProcessTypes

\* The same for a step that goes on.
LEMMA GoesOnFits ==
  ASSUME DoorInv, NEW w \in Workers, NEW q, NEW to, NEW some,
         at' = [at EXCEPT ![w] = to], call' = [call EXCEPT ![w] = q],
         rows' = [rows EXCEPT ![w] = some],
         \A v \in Workers \ {w} : rows[v] \cap some = {},
         CountersKept(w), SecretsKept, CallFits(w)'
  PROVE  /\ \A v \in Workers : CallFits(v)'
         /\ RowsApart'
         /\ ProcessTypes'
<1>1. ASSUME NEW v \in Workers, v # w PROVE CallFits(v)'
  BY <1>1, OthersFit DEF DoorInv, DoorTypes, ProcessTypes
<1>2. RowsApart' BY DEF RowsApart, DoorInv, DoorTypes, ProcessTypes
<1> QED BY <1>1, <1>2 DEF DoorInv, DoorTypes, ProcessTypes

\* Where profiles and secrets stay, and where counters stay.
LEMMA ProfilesStay ==
  ASSUME DoorInv, UNCHANGED <<profile, secrets>>
  PROVE  SecretsKept
BY DEF SecretsKept, DoorInv, DoorTypes, ProcessTypes

LEMMA CodesStay ==
  ASSUME DoorInv, UNCHANGED <<profile, secrets, accepted, replayed>>
  PROVE  CodesFit' /\ Doors!CodesOpenOnce'
BY DEF CodesFit, CodeFits, DoorInv, Doors!CodesOpenOnce

LEMMA CountersStay ==
  ASSUME DoorInv, NEW w \in Workers, UNCHANGED <<throttle, counted>>
  PROVE  CountersKept(w) /\ Doors!FailuresAreCounted'
BY DEF CountersKept, DoorInv, Doors!FailuresAreCounted

LEMMA DoorTypesStay ==
  ASSUME DoorInv, UNCHANGED <<tick, secrets, throttle, counted, accepted, profile>>,
         ProcessTypes'
  PROVE  DoorTypes'
BY DEF DoorInv, DoorTypes, ProcessTypes

-----------------------------------------------------------------------------
(* Doors: the steps                                                          *)

\* The parts of DoorInv, for a step that has been taken apart.
LEMMA DoorInvAgain ==
  ASSUME DoorTypes', RowsApart', \A w \in Workers : CallFits(w)', CodesFit',
         Doors!FailuresAreCounted', Doors!CodesOpenOnce'
  PROVE  DoorInv'
BY DEF DoorInv

LEMMA BeginStep == ASSUME DoorInv, NEW w \in Workers, Doors!Begin(w) PROVE DoorInv'
<1> PICK q \in Doors!Calls :
      /\ at[w] = "idle"
      /\ call' = [call EXCEPT ![w] = Doors!With(q, [secret |-> profile[q.user].secret])]
      /\ Doors!Go(w, IF q.kind \in {"setup", "password"} THEN "open" ELSE "begun")
      /\ UNCHANGED <<tick, throttle, profile, rows, Doors!history, secrets>>
  BY DEF Doors!Begin
<1> DEFINE r == Doors!With(q, [secret |-> profile[q.user].secret])
           to == IF q.kind \in {"setup", "password"} THEN "open" ELSE "begun"
<1>1. UNCHANGED <<tick, throttle, profile, rows, counted, accepted, replayed, secrets>>
  BY DEF Doors!history
<1>2. at' = [at EXCEPT ![w] = to] /\ to \in {"open", "begun"} BY DEF Doors!Go
<1>3. /\ DOMAIN q = {"kind", "session", "user", "admin", "right", "step"}
      /\ q.user \in Users /\ q.step \in Nat
  BY AdministrationConstants DEF Doors!Calls, Doors!PolicyRanges
<1>4. /\ DOMAIN r = CallFields
      /\ r.user = q.user /\ r.step = q.step /\ r.secret = profile[q.user].secret
  <2> DEFINE more == [secret |-> profile[q.user].secret]
  <2>1. DOMAIN more = {"secret"} /\ more.secret = profile[q.user].secret OBVIOUS
  <2> HIDE DEF more
  <2>2. DOMAIN Doors!With(q, more) = CallFields BY <1>3, <2>1 DEF CallFields, Doors!With
  <2>3. /\ Doors!With(q, more).user = q.user /\ Doors!With(q, more).step = q.step
        /\ Doors!With(q, more).secret = more.secret
    BY <1>3, <2>1 DEF Doors!With
  <2> QED BY <2>1, <2>2, <2>3 DEF more
<1>5. CallFits(w)'
  <2>1. call'[w] = r /\ at'[w] = to BY <1>2 DEF DoorInv, DoorTypes, ProcessTypes
  <2> HIDE DEF r, to
  <2>2. Came(w)'
    BY <1>1, <1>2, <1>3, <1>4, <2>1 DEF Came, CallFields, DoorInv, DoorTypes, ProcessTypes
  <2> QED BY <1>2, <2>1, <2>2 DEF CallFits
<1>6. SecretsKept /\ CodesFit' /\ Doors!CodesOpenOnce' BY <1>1, ProfilesStay, CodesStay
<1>7. CountersKept(w) /\ Doors!FailuresAreCounted' BY <1>1, CountersStay
<1>8. rows' = [rows EXCEPT ![w] = rows[w]] /\ \A v \in Workers \ {w} : rows[v] \cap rows[w] = {}
  BY <1>1 DEF DoorInv, DoorTypes, ProcessTypes, RowsApart
<1>9. call' = [call EXCEPT ![w] = r] OBVIOUS
<1> HIDE DEF r, to
<1>10. (\A v \in Workers : CallFits(v)') /\ RowsApart'
       /\ ProcessTypes'
  BY <1>2, <1>5, <1>6, <1>7, <1>8, <1>9, GoesOnFits
<1> QED BY <1>1, <1>6, <1>7, <1>10, DoorTypesStay, DoorInvAgain

\* A step that only goes on, with the request and the rows as they are.
LEMMA OnlyGoes ==
  ASSUME DoorInv, NEW w \in Workers, NEW to, at' = [at EXCEPT ![w] = to],
         UNCHANGED <<call, rows, tick, throttle, profile, counted, accepted, replayed, secrets>>,
         CallFits(w)'
  PROVE  DoorInv'
<1>1. SecretsKept /\ CodesFit' /\ Doors!CodesOpenOnce' BY ProfilesStay, CodesStay
<1>2. CountersKept(w) /\ Doors!FailuresAreCounted' BY CountersStay
<1>3. /\ rows' = [rows EXCEPT ![w] = rows[w]] /\ call' = [call EXCEPT ![w] = call[w]]
      /\ \A v \in Workers \ {w} : rows[v] \cap rows[w] = {}
  BY DEF DoorInv, DoorTypes, ProcessTypes, RowsApart
<1>4. (\A v \in Workers : CallFits(v)') /\ RowsApart'
      /\ ProcessTypes'
  BY <1>1, <1>2, <1>3, GoesOnFits
<1> QED BY <1>1, <1>2, <1>4, DoorTypesStay, DoorInvAgain

\* The request is the same at the next line, unless it is about to count.
LEMMA StillFits ==
  ASSUME DoorInv, NEW w \in Workers, at[w] \in {"begun", "open", "failing", "compared"},
         call'[w] = call[w], secrets' = secrets, at'[w] \in {"begun", "open", "failing"}
  PROVE  CallFits(w)'
BY DEF DoorInv, CallFits, Came

LEMMA WrongPasswordStep == ASSUME DoorInv, NEW w \in Workers, Doors!WrongPassword(w) PROVE DoorInv'
<1>1. /\ at[w] = "open" /\ at' = [at EXCEPT ![w] = "failing"]
      /\ UNCHANGED <<call, rows, tick, throttle, profile, counted, accepted, replayed, secrets>>
  BY DEF Doors!WrongPassword, Doors!Go, Doors!history
<1>2. at'[w] = "failing" BY <1>1 DEF DoorInv, DoorTypes, ProcessTypes
<1>3. CallFits(w)' BY <1>1, <1>2, StillFits
<1> QED BY <1>1, <1>3, OnlyGoes

LEMMA CompareStep == ASSUME DoorInv, NEW w \in Workers, Doors!Compare(w) PROVE DoorInv'
<1> DEFINE q == call[w]
           good == /\ profile[q.user].enabled /\ Doors!Matches(q, profile[q.user].secret)
                   /\ q.step # profile[q.user].last
           to == IF good THEN "compared" ELSE "failing"
<1>1. /\ at[w] = "open" /\ at' = [at EXCEPT ![w] = to]
      /\ UNCHANGED <<call, rows, tick, throttle, profile, counted, accepted, replayed, secrets>>
  BY DEF Doors!Compare, Doors!Go, Doors!history
<1>2. at'[w] = to BY <1>1 DEF DoorInv, DoorTypes, ProcessTypes
<1>3. CASE ~good
  <2>1. at'[w] = "failing" BY <1>2, <1>3
  <2>2. CallFits(w)' BY <1>1, <2>1, StillFits
  <2> HIDE DEF to
  <2> QED BY <1>1, <2>2, OnlyGoes
<1>4. CASE good
  <2>1. at'[w] = "compared" BY <1>2, <1>4
  <2>2. Came(w) BY <1>1 DEF DoorInv, CallFits
  <2>3. InForce(q)
    BY <1>4, <2>2 DEF InForce, Came, CodesFit, CodeFits, DoorInv, Doors!Matches
  <2>4. Came(w)' BY <1>1, <2>1, <2>2 DEF Came
  <2>5. InForce(call[w])' BY <1>1, <2>3 DEF InForce
  <2>6. CallFits(w)' BY <2>1, <2>4, <2>5 DEF CallFits
  <2> HIDE DEF to
  <2> QED BY <1>1, <2>6, OnlyGoes
<1> QED BY <1>3, <1>4

\* _locked_state: what is written back is the counter or, when its lock is over,
\* a new one.
LEMMA LookForLockStep == ASSUME DoorInv, NEW w \in Workers, Doors!LookForLock(w) PROVE DoorInv'
<1>1. /\ at[w] = "begun" /\ Doors!Free(w, Doors!KeysOf(w))
      /\ throttle' = [k \in Doors!AllKeys |->
             IF k \in Doors!KeysOf(w) THEN Doors!State(k) ELSE throttle[k]]
      /\ counted' = [k \in Doors!AllKeys |->
             IF k \in Doors!KeysOf(w) /\ Doors!Over(k, tick) THEN 0 ELSE counted[k]]
      /\ \/ Doors!Done(w)
         \/ Doors!Go(w, "open") /\ UNCHANGED <<call, rows>>
      /\ UNCHANGED <<tick, profile, accepted, replayed, secrets>>
  BY DEF Doors!LookForLock
<1>2. DoorTypes /\ RowsApart /\ CallFits(w) BY DEF DoorInv
<1>3. CountersKept(w) BY <1>1 DEF CountersKept, Doors!Free
<1>4. SecretsKept /\ CodesFit' /\ Doors!CodesOpenOnce' BY <1>1, ProfilesStay, CodesStay
<1>5. throttle' \in [Doors!AllKeys -> Counters] /\ counted' \in [Doors!AllKeys -> Nat]
  BY <1>1, <1>2 DEF DoorTypes, ProcessTypes, Doors!State, Doors!Reset, Counters, Doors!Never
<1>6. Doors!FailuresAreCounted'
  BY <1>1, <1>2, AdministrationConstants
  DEF Doors!FailuresAreCounted, DoorInv, DoorTypes, ProcessTypes, Doors!State, Doors!Reset, Doors!PolicyRanges
<1>7. /\ \A v \in Workers : CallFits(v)'
      /\ RowsApart'
      /\ ProcessTypes'
  <2>1. CASE Doors!Done(w) BY <2>1, <1>3, <1>4, EndedFits
  <2>2. CASE Doors!Go(w, "open") /\ UNCHANGED <<call, rows>>
    <3>1. at' = [at EXCEPT ![w] = "open"] BY <2>2 DEF Doors!Go
    <3>2. CallFits(w)' BY <1>1, <1>2, <2>2, <3>1, StillFits DEF DoorTypes, ProcessTypes
    <3>3. /\ rows' = [rows EXCEPT ![w] = rows[w]] /\ call' = [call EXCEPT ![w] = call[w]]
          /\ \A v \in Workers \ {w} : rows[v] \cap rows[w] = {}
      BY <1>2, <2>2 DEF DoorTypes, ProcessTypes, RowsApart
    <3> QED BY <1>3, <1>4, <3>1, <3>2, <3>3, GoesOnFits
  <2> QED BY <1>1, <2>1, <2>2
<1>8. DoorTypes' BY <1>1, <1>2, <1>5, <1>7 DEF DoorTypes, ProcessTypes
<1> QED BY <1>4, <1>6, <1>7, <1>8, DoorInvAgain

\* select_for_update: what is read is held until it has been counted.
LEMMA ReadCountersStep == ASSUME DoorInv, NEW w \in Workers, Doors!ReadCounters(w) PROVE DoorInv'
<1> DEFINE learnt == [now |-> tick, read |-> [k \in Doors!KeysOf(w) |-> Doors!State(k)]]
           q == Doors!With(call[w], learnt)
<1>1. /\ at[w] = "failing" /\ Doors!Free(w, Doors!KeysOf(w))
      /\ at' = [at EXCEPT ![w] = "counting"] /\ call' = [call EXCEPT ![w] = q]
      /\ rows' = [rows EXCEPT ![w] = rows[w] \cup Doors!KeysOf(w)]
      /\ UNCHANGED <<tick, throttle, profile, counted, accepted, replayed, secrets>>
  BY DEF Doors!ReadCounters, Doors!Locks, Doors!Go, Doors!history
<1>2. DoorTypes /\ RowsApart /\ Came(w) BY <1>1 DEF DoorInv, CallFits
<1>3. SecretsKept /\ CodesFit' /\ Doors!CodesOpenOnce' BY <1>1, ProfilesStay, CodesStay
<1>4. CountersKept(w) /\ Doors!FailuresAreCounted' BY <1>1, CountersStay
<1>5. /\ q.now = tick
      /\ q.read = [k \in Doors!KeysOf(w) |-> Doors!State(k)]
      /\ \A f \in CallFields : q[f] = call[w][f] /\ f \in DOMAIN q
  <2>1. /\ DOMAIN learnt = {"now", "read"} /\ learnt.now = tick
        /\ learnt.read = [k \in Doors!KeysOf(w) |-> Doors!State(k)]
    OBVIOUS
  <2> HIDE DEF learnt
  <2>2. "now" \notin DOMAIN call[w] /\ "read" \notin DOMAIN call[w] /\ CallFields \subseteq DOMAIN call[w]
    BY <1>1, <1>2 DEF Came
  <2>3. q.now = learnt.now /\ q.read = learnt.read BY <2>1, <2>2 DEF q, Doors!With
  <2>4. \A f \in CallFields : q[f] = call[w][f] /\ f \in DOMAIN q BY <2>2 DEF q, Doors!With
  <2> QED BY <2>1, <2>3, <2>4
<1>6. call'[w] = q /\ at'[w] = "counting" /\ rows'[w] = rows[w] \cup Doors!KeysOf(w)
  BY <1>1, <1>2 DEF DoorTypes, ProcessTypes
<1> HIDE DEF q
<1>7. Doors!KeysOf(w)' = Doors!KeysOf(w)
  BY <1>5, <1>6 DEF Doors!KeysOf, Doors!Factor, CallFields
<1>8. Came(w)' BY <1>1, <1>2, <1>5, <1>6 DEF Came, CallFields
<1>9. Counting(w)'
  <2>1. \A k : Doors!Over(k, tick)' = Doors!Over(k, tick) BY <1>1 DEF Doors!Over
  <2>2. Doors!KeysOf(w) \subseteq Doors!AllKeys BY <1>2, OwnKeys DEF Came
  <2>3. ASSUME NEW k \in Doors!KeysOf(w)
        PROVE  call'[w].read[k] = IF Doors!Over(k, tick) THEN Doors!Reset ELSE throttle[k]
    BY <1>5, <1>6 DEF Doors!State
  <2> QED BY <1>1, <1>2, <1>5, <1>6, <1>7, <2>1, <2>3 DEF Counting, DoorTypes, ProcessTypes, Doors!Over
<1>10. CallFits(w)' BY <1>6, <1>8, <1>9 DEF CallFits
<1>11. \A v \in Workers \ {w} : rows[v] \cap (rows[w] \cup Doors!KeysOf(w)) = {}
  BY <1>1, <1>2 DEF Doors!Free, RowsApart
<1>12. (\A v \in Workers : CallFits(v)') /\ RowsApart'
       /\ ProcessTypes'
  BY <1>1, <1>3, <1>4, <1>10, <1>11, GoesOnFits
<1> QED BY <1>1, <1>3, <1>4, <1>12, DoorTypesStay, DoorInvAgain

\* One failure more: what is written follows from what was read, which the rows
\* have kept.
LEMMA CountFailureStep == ASSUME DoorInv, NEW w \in Workers, Doors!CountFailure(w) PROVE DoorInv'
<1> DEFINE keys == Doors!KeysOf(w)
           now == call[w].now
           read == call[w].read
           new == [k \in keys |->
                      IF Doors!Counts(w, read[k]) THEN Doors!Failed(read[k], now) ELSE read[k]]
<1>1. /\ at[w] = "counting"
      /\ throttle' = [k \in Doors!AllKeys |-> IF k \in keys THEN new[k] ELSE throttle[k]]
      /\ counted' = [k \in Doors!AllKeys |->
             IF k \notin keys THEN counted[k]
             ELSE IF ~Doors!Counts(w, read[k]) THEN counted[k]
             ELSE IF Doors!Over(k, now) \/ Doors!Stale(throttle[k], now) THEN 1 ELSE counted[k] + 1]
      /\ Doors!Done(w)
      /\ UNCHANGED <<tick, profile, accepted, replayed, secrets>>
  BY DEF Doors!CountFailure
<1>2. DoorTypes /\ Came(w) /\ Counting(w) BY <1>1 DEF DoorInv, CallFits
<1>3. CountersKept(w)
  <2>1. \A v \in Workers \ {w} : rows[v] \cap rows[w] = {} BY DEF DoorInv, RowsApart
  <2> QED BY <1>1, <1>2, <2>1 DEF CountersKept, Counting
<1>4. SecretsKept /\ CodesFit' /\ Doors!CodesOpenOnce' BY <1>1, ProfilesStay, CodesStay
<1>5. ASSUME NEW k \in Doors!AllKeys
      PROVE  /\ throttle'[k] \in Counters /\ counted'[k] \in Nat
             /\ throttle'[k].count = counted'[k]
             /\ counted'[k] >= MaxAttempts => throttle'[k].until # Doors!Never
  <2>1. /\ throttle[k] \in Counters /\ counted[k] \in Nat /\ throttle[k].count = counted[k]
        /\ counted[k] >= MaxAttempts => throttle[k].until # Doors!Never
    BY <1>2 DEF DoorTypes, DoorInv, Doors!FailuresAreCounted
  <2>2. CASE k \notin keys BY <1>1, <2>1, <2>2
  <2>3. CASE k \in keys
    <3>1. read[k] = IF Doors!Over(k, now) THEN Doors!Reset ELSE throttle[k]
      BY <1>2, <2>3 DEF Counting
    <3>2. now \in Nat /\ LockTime \in Nat /\ Window \in Nat /\ MaxAttempts \in Nat \ {0}
      BY <1>2, AdministrationConstants DEF Counting, Doors!PolicyRanges
    <3>3. throttle'[k] = new[k] BY <1>1, <2>3
    <3> HIDE DEF now, read, keys
    <3>4. CASE ~Doors!Counts(w, read[k])
      <4>1. read[k] = throttle[k]
        BY <3>1, <3>2, <3>4, <1>2 DEF Doors!Counts, Doors!Reset, Doors!Never, now
      <4> QED BY <1>1, <2>1, <2>3, <3>3, <3>4, <4>1
    <3>5. CASE Doors!Counts(w, read[k]) /\ Doors!Over(k, now)
      <4>1. throttle'[k] = Doors!Failed(Doors!Reset, now) /\ counted'[k] = 1
        BY <1>1, <2>3, <3>1, <3>3, <3>5
      <4> QED BY <3>2, <4>1 DEF Doors!Failed, Doors!Stale, Doors!Reset, Doors!Never, Counters
    <3>6. CASE Doors!Counts(w, read[k]) /\ ~Doors!Over(k, now)
      <4>1. /\ throttle'[k] = Doors!Failed(throttle[k], now)
            /\ counted'[k] = IF Doors!Stale(throttle[k], now) THEN 1 ELSE counted[k] + 1
        BY <1>1, <2>3, <3>1, <3>3, <3>6
      <4> QED BY <2>1, <3>2, <4>1 DEF Doors!Failed, Counters, Doors!Never
    <3> QED BY <3>4, <3>5, <3>6
  <2> QED BY <2>2, <2>3
<1>6. Doors!FailuresAreCounted' BY <1>5 DEF Doors!FailuresAreCounted
<1>7. throttle' \in [Doors!AllKeys -> Counters] /\ counted' \in [Doors!AllKeys -> Nat]
  BY <1>1, <1>5
<1>8. (\A v \in Workers : CallFits(v)') /\ RowsApart' /\ ProcessTypes'
  BY <1>1, <1>3, <1>4, EndedFits
<1>9. DoorTypes' BY <1>1, <1>2, <1>7, <1>8 DEF DoorTypes
<1> QED BY <1>4, <1>6, <1>8, <1>9, DoorInvAgain

\* _clear_login_throttle, clear_two_factor_throttle
LEMMA ClearedCounts ==
  ASSUME DoorInv, NEW w \in Workers, Doors!Cleared(w)
  PROVE  /\ CountersKept(w) /\ Doors!FailuresAreCounted'
         /\ throttle' \in [Doors!AllKeys -> Counters] /\ counted' \in [Doors!AllKeys -> Nat]
<1>1. /\ Doors!Free(w, Doors!KeysOf(w))
      /\ throttle' = [k \in Doors!AllKeys |->
             IF k \in Doors!KeysOf(w) THEN Doors!Reset ELSE throttle[k]]
      /\ counted' = [k \in Doors!AllKeys |-> IF k \in Doors!KeysOf(w) THEN 0 ELSE counted[k]]
  BY DEF Doors!Cleared
<1>2. throttle \in [Doors!AllKeys -> Counters] /\ counted \in [Doors!AllKeys -> Nat]
  BY DEF DoorInv, DoorTypes
<1>3. Doors!FailuresAreCounted'
  BY <1>1, AdministrationConstants
  DEF Doors!FailuresAreCounted, DoorInv, Doors!Reset, Doors!PolicyRanges
<1> QED BY <1>1, <1>2, <1>3 DEF CountersKept, Doors!Free, Doors!Reset, Counters, Doors!Never

\* Counters that are cleared or stay.
LEMMA CountersFit ==
  ASSUME DoorInv, NEW w \in Workers, Doors!Cleared(w) \/ UNCHANGED <<throttle, counted>>
  PROVE  /\ CountersKept(w) /\ Doors!FailuresAreCounted'
         /\ throttle' \in [Doors!AllKeys -> Counters] /\ counted' \in [Doors!AllKeys -> Nat]
BY ClearedCounts, CountersStay DEF DoorInv, DoorTypes

LEMMA RightPasswordStep == ASSUME DoorInv, NEW w \in Workers, Doors!RightPassword(w) PROVE DoorInv'
<1> DEFINE learnt == [expired |-> tick - profile[call[w].user].changed >= Expiry,
                      code |-> profile[call[w].user].enabled]
           q == Doors!With(call[w], learnt)
<1>1. /\ at[w] = "open" /\ Doors!Cleared(w)
      /\ at' = [at EXCEPT ![w] = "welcome"] /\ call' = [call EXCEPT ![w] = q]
      /\ UNCHANGED <<tick, profile, rows, accepted, replayed, secrets>>
  BY DEF Doors!RightPassword, Doors!Go
<1>2. DoorTypes /\ RowsApart /\ Came(w) BY <1>1 DEF DoorInv, CallFits
<1>3. SecretsKept /\ CodesFit' /\ Doors!CodesOpenOnce' BY <1>1, ProfilesStay, CodesStay
<1>4. /\ CountersKept(w) /\ Doors!FailuresAreCounted'
      /\ throttle' \in [Doors!AllKeys -> Counters] /\ counted' \in [Doors!AllKeys -> Nat]
  BY <1>1, ClearedCounts
<1>5. call'[w] = q /\ at'[w] = "welcome" BY <1>1, <1>2 DEF DoorTypes, ProcessTypes
<1>6. Came(w)'
  <2>1. DOMAIN learnt = {"expired", "code"} OBVIOUS
  <2> HIDE DEF learnt
  <2>2. {"now", "read"} \cap DOMAIN call[w] = {} /\ CallFields \subseteq DOMAIN call[w]
    BY <1>1, <1>2 DEF Came
  <2>3. /\ {"now", "read"} \cap DOMAIN q = {} /\ CallFields \subseteq DOMAIN q
        /\ \A f \in CallFields : q[f] = call[w][f]
    BY <2>1, <2>2 DEF Doors!With
  <2> HIDE DEF q
  <2> QED BY <1>1, <1>2, <1>5, <2>3 DEF Came, CallFields
<1>7. CallFits(w)' BY <1>5, <1>6 DEF CallFits
<1>8. rows' = [rows EXCEPT ![w] = rows[w]] /\ \A v \in Workers \ {w} : rows[v] \cap rows[w] = {}
  BY <1>1, <1>2 DEF DoorTypes, ProcessTypes, RowsApart
<1> HIDE DEF q
<1>9. (\A v \in Workers : CallFits(v)') /\ RowsApart' /\ ProcessTypes'
  BY <1>1, <1>3, <1>4, <1>7, <1>8, GoesOnFits
<1>10. DoorTypes' BY <1>1, <1>2, <1>4, <1>9 DEF DoorTypes
<1> QED BY <1>3, <1>4, <1>9, <1>10, DoorInvAgain

\* A step that ends the request of w and writes the profile of its user.
LEMMA EndsWithProfile ==
  ASSUME DoorInv, NEW w \in Workers, NEW u \in Users, NEW p,
         Doors!Done(w), Doors!Cleared(w) \/ UNCHANGED <<throttle, counted>>,
         profile' = [profile EXCEPT ![u] = p], DOMAIN p = DOMAIN profile[u],
         p.secret \in Int, p.secret <= secrets', p.last \in Int,
         tick' = tick, secrets' \in Nat, secrets' >= secrets, SecretsKept,
         DOMAIN accepted' = Users, CodesFit', Doors!CodesOpenOnce'
  PROVE  DoorInv'
<1>1. /\ CountersKept(w) /\ Doors!FailuresAreCounted'
      /\ throttle' \in [Doors!AllKeys -> Counters] /\ counted' \in [Doors!AllKeys -> Nat]
  BY CountersFit
<1>2. (\A v \in Workers : CallFits(v)') /\ RowsApart' /\ ProcessTypes' BY <1>1, EndedFits
<1>3. DoorTypes BY DEF DoorInv
<1>4. DOMAIN profile' = Users BY <1>3 DEF DoorTypes
<1>5. ASSUME NEW v \in Users
      PROVE  /\ {"enabled", "secret", "last", "mustChange", "changed"} \subseteq DOMAIN profile'[v]
             /\ profile'[v].secret \in Int /\ profile'[v].secret <= secrets' /\ profile'[v].last \in Int
  <2>1. CASE v = u BY <1>3, <2>1 DEF DoorTypes
  <2>2. CASE v # u BY <1>3, <2>2 DEF DoorTypes
  <2> QED BY <2>1, <2>2
<1>6. DoorTypes' BY <1>1, <1>2, <1>3, <1>4, <1>5 DEF DoorTypes
<1> QED BY <1>1, <1>2, <1>6, DoorInvAgain

\* What concerns the codes of the profile of one user.
LEMMA CodesOfOne ==
  ASSUME DoorInv, NEW u \in Users, NEW p, profile' = [profile EXCEPT ![u] = p],
         secrets' \in Nat, secrets' >= secrets, UNCHANGED <<accepted, replayed>>,
         p.enabled => p.secret # Doors!Never,
         p.secret # Doors!Never /\ p.secret <= secrets =>
            /\ p.secret = profile[u].secret /\ profile[u].enabled => p.enabled
            /\ p.secret # profile[u].secret => p.enabled
            /\ \A t : accepted[u] = <<p.secret, t>> => p.enabled /\ p.last = t
  PROVE  SecretsKept /\ CodesFit' /\ Doors!CodesOpenOnce'
<1>1. /\ profile'[u] = p
      /\ \A v \in Users \ {u} : profile'[v] = profile[v]
  BY DEF DoorInv, DoorTypes
<1>2. SecretsKept
  <2> SUFFICES ASSUME NEW v \in Users, NEW c \in Int, c # Doors!Never, c <= secrets,
                      c = profile[v].secret => profile[v].enabled, c = profile'[v].secret
               PROVE  profile'[v].enabled
    BY DEF SecretsKept
  <2>1. CASE v = u BY <1>1, <2>1
  <2>2. CASE v # u BY <1>1, <2>2
  <2> QED BY <2>1, <2>2
<1>3. ASSUME NEW v \in Users PROVE CodeFits(v)'
  <2>1. CodeFits(v) /\ secrets \in Nat BY DEF DoorInv, DoorTypes, CodesFit
  <2>2. profile'[v].enabled => profile'[v].secret # Doors!Never
    <3>1. CASE v = u BY <1>1, <3>1
    <3>2. CASE v # u BY <1>1, <2>1, <3>2 DEF CodeFits
    <3> QED BY <3>1, <3>2
  <2>3. ASSUME NEW c, NEW t, accepted'[v] = <<c, t>>
        PROVE  /\ c \in Int /\ c <= secrets' /\ c # Doors!Never
               /\ c = profile'[v].secret => profile'[v].enabled /\ profile'[v].last = t
    <3>1. accepted[v] = <<c, t>> BY <2>3
    <3>2. c \in Int /\ c <= secrets /\ c # Doors!Never BY <2>1, <3>1 DEF CodeFits
    <3>3. CASE v = u
      <4> SUFFICES ASSUME c = p.secret PROVE p.enabled /\ p.last = t
        BY <1>1, <2>1, <3>2, <3>3
      <4> QED BY <3>1, <3>2, <3>3
    <3>4. CASE v # u BY <1>1, <2>1, <3>1, <3>2, <3>4 DEF CodeFits
    <3> QED BY <3>2, <3>3, <3>4, <2>1
  <2> QED BY <2>2, <2>3 DEF CodeFits
<1> QED BY <1>2, <1>3 DEF CodesFit, DoorInv, Doors!CodesOpenOnce

LEMMA WelcomeStep == ASSUME DoorInv, NEW w \in Workers, Doors!Welcome(w) PROVE DoorInv'
<1> DEFINE u == call[w].user
           p == [profile[u] EXCEPT !.mustChange = @ \/ call[w].expired]
<1>1. /\ at[w] = "welcome" /\ profile' = [profile EXCEPT ![u] = p]
      /\ Doors!Done(w) /\ UNCHANGED <<tick, throttle, counted, accepted, replayed, secrets>>
  BY DEF Doors!Welcome, Doors!history
<1>2. DoorTypes /\ Came(w) /\ CodeFits(u) BY <1>1 DEF DoorInv, CallFits, CodesFit, Came
<1>3. u \in Users BY <1>2 DEF Came
<1>4. /\ DOMAIN p = DOMAIN profile[u] /\ p.secret = profile[u].secret /\ p.last = profile[u].last
      /\ p.enabled = profile[u].enabled
  BY <1>2, <1>3 DEF DoorTypes
<1> HIDE DEF u, p
<1>5. SecretsKept /\ CodesFit' /\ Doors!CodesOpenOnce'
  <2>1. p.enabled => p.secret # Doors!Never BY <1>2, <1>4 DEF CodeFits
  <2>2. \A t : accepted[u] = <<p.secret, t>> => p.enabled /\ p.last = t BY <1>2, <1>4 DEF CodeFits
  <2>3. p.secret # Doors!Never /\ p.secret <= secrets =>
          /\ p.secret = profile[u].secret /\ profile[u].enabled => p.enabled
          /\ p.secret # profile[u].secret => p.enabled
          /\ \A t : accepted[u] = <<p.secret, t>> => p.enabled /\ p.last = t
    BY <1>4, <2>2
  <2>4. secrets' \in Nat /\ secrets' >= secrets BY <1>1, <1>2 DEF DoorTypes
  <2>5. profile' = [profile EXCEPT ![u] = p] /\ UNCHANGED <<accepted, replayed>> BY <1>1
  <2> QED BY <1>3, <2>1, <2>3, <2>4, <2>5, CodesOfOne, Zenon
<1>6. secrets' \in Nat /\ secrets' >= secrets /\ DOMAIN accepted' = Users
  BY <1>1, <1>2 DEF DoorTypes
<1>7. p.secret \in Int /\ p.secret <= secrets' /\ p.last \in Int
  BY <1>1, <1>2, <1>3, <1>4 DEF DoorTypes
<1> QED BY <1>1, <1>3, <1>4, <1>5, <1>6, <1>7, EndsWithProfile

LEMMA ChangePasswordStep == ASSUME DoorInv, NEW w \in Workers, Doors!ChangePassword(w) PROVE DoorInv'
<1> DEFINE u == call[w].user
           p == [profile[u] EXCEPT !.mustChange = FALSE, !.changed = tick]
<1>1. /\ at[w] = "open"
      /\ Doors!Done(w) /\ UNCHANGED <<tick, throttle, counted, accepted, replayed, secrets>>
  BY DEF Doors!ChangePassword, Doors!history
<1>2. DoorTypes /\ Came(w) /\ CodeFits(u) BY <1>1 DEF DoorInv, CallFits, CodesFit, Came
<1>3. u \in Users BY <1>2 DEF Came
<1>4. /\ DOMAIN p = DOMAIN profile[u] /\ p.secret = profile[u].secret /\ p.last = profile[u].last
      /\ p.enabled = profile[u].enabled
  BY <1>2, <1>3 DEF DoorTypes
<1>5. profile' = [profile EXCEPT ![u] = p] BY <1>2, <1>3 DEF Doors!ChangePassword, DoorTypes
<1> HIDE DEF u, p
<1>6. SecretsKept /\ CodesFit' /\ Doors!CodesOpenOnce'
  <2>1. p.enabled => p.secret # Doors!Never BY <1>2, <1>4 DEF CodeFits
  <2>2. \A t : accepted[u] = <<p.secret, t>> => p.enabled /\ p.last = t BY <1>2, <1>4 DEF CodeFits
  <2>3. p.secret # Doors!Never /\ p.secret <= secrets =>
          /\ p.secret = profile[u].secret /\ profile[u].enabled => p.enabled
          /\ p.secret # profile[u].secret => p.enabled
          /\ \A t : accepted[u] = <<p.secret, t>> => p.enabled /\ p.last = t
    BY <1>4, <2>2
  <2>4. secrets' \in Nat /\ secrets' >= secrets BY <1>1, <1>2 DEF DoorTypes
  <2>5. UNCHANGED <<accepted, replayed>> BY <1>1
  <2> QED BY <1>3, <1>5, <2>1, <2>3, <2>4, <2>5, CodesOfOne, Zenon
<1>7. secrets' \in Nat /\ secrets' >= secrets /\ DOMAIN accepted' = Users
  BY <1>1, <1>2 DEF DoorTypes
<1>8. p.secret \in Int /\ p.secret <= secrets' /\ p.last \in Int
  BY <1>1, <1>2, <1>3, <1>4 DEF DoorTypes
<1> QED BY <1>1, <1>3, <1>4, <1>5, <1>6, <1>7, <1>8, EndsWithProfile

\* A request that ends and leaves profiles and codes as they are.
LEMMA OnlyEnds ==
  ASSUME DoorInv, NEW w \in Workers, Doors!Done(w),
         Doors!Cleared(w) \/ UNCHANGED <<throttle, counted>>,
         UNCHANGED <<tick, profile, accepted, replayed, secrets>>
  PROVE  DoorInv'
<1>1. SecretsKept /\ CodesFit' /\ Doors!CodesOpenOnce' BY ProfilesStay, CodesStay
<1>2. /\ CountersKept(w) /\ Doors!FailuresAreCounted'
      /\ throttle' \in [Doors!AllKeys -> Counters] /\ counted' \in [Doors!AllKeys -> Nat]
  BY CountersFit
<1>3. (\A v \in Workers : CallFits(v)') /\ RowsApart' /\ ProcessTypes' BY <1>1, <1>2, EndedFits
<1>4. DoorTypes' BY <1>2, <1>3 DEF DoorInv, DoorTypes
<1> QED BY <1>1, <1>2, <1>3, <1>4, DoorInvAgain

\* A code that is wrong: the profile stays locked until the failure is counted.
LEMMA OnlyFails ==
  ASSUME DoorInv, NEW w \in Workers, at[w] \in {"open", "compared"},
         at' = [at EXCEPT ![w] = "failing"],
         \/ rows' = [rows EXCEPT ![w] = Doors!ProfileRow(w)]
         \/ rows' = rows,
         Doors!Free(w, Doors!ProfileRow(w)),
         UNCHANGED <<tick, throttle, counted, profile, call, accepted, replayed, secrets>>
  PROVE  DoorInv'
<1>1. SecretsKept /\ CodesFit' /\ Doors!CodesOpenOnce' BY ProfilesStay, CodesStay
<1>2. CountersKept(w) /\ Doors!FailuresAreCounted' BY CountersStay
<1>3. DoorTypes /\ RowsApart BY DEF DoorInv
<1>4. at'[w] = "failing" /\ call' = [call EXCEPT ![w] = call[w]]
  BY <1>3 DEF DoorTypes, ProcessTypes
<1>5. CallFits(w)' BY <1>4, StillFits
<1>6. \E some : /\ rows' = [rows EXCEPT ![w] = some]
                /\ \A v \in Workers \ {w} : rows[v] \cap some = {}
  <2>1. CASE rows' = rows
    <3>1. rows' = [rows EXCEPT ![w] = rows[w]] BY <1>3, <2>1 DEF DoorTypes, ProcessTypes
    <3>2. \A v \in Workers \ {w} : rows[v] \cap rows[w] = {} BY <1>3 DEF RowsApart
    <3> QED BY <3>1, <3>2
  <2>2. CASE rows' = [rows EXCEPT ![w] = Doors!ProfileRow(w)]
    BY <2>2 DEF Doors!Free
  <2> QED BY <2>1, <2>2
<1>7. PICK some : /\ rows' = [rows EXCEPT ![w] = some]
                  /\ \A v \in Workers \ {w} : rows[v] \cap some = {}
  BY <1>6
<1>8. (\A v \in Workers : CallFits(v)') /\ RowsApart' /\ ProcessTypes'
  BY <1>1, <1>2, <1>4, <1>5, <1>7, GoesOnFits
<1> QED BY <1>1, <1>2, <1>8, DoorTypesStay, DoorInvAgain

\* auth_2fa_setup: the new secret is one that no code was ever of.
LEMMA SetUpStep == ASSUME DoorInv, NEW w \in Workers, Doors!SetUp(w) PROVE DoorInv'
<1> DEFINE u == call[w].user
           p == [profile[u] EXCEPT !.secret = secrets + 1, !.last = Doors!Never]
<1>1. /\ at[w] = "open" /\ Doors!Done(w)
      /\ UNCHANGED <<tick, throttle, counted, accepted, replayed>>
      /\ \/ UNCHANGED <<profile, secrets>>
         \/ /\ ~profile[u].enabled /\ secrets' = secrets + 1
            /\ profile' = [profile EXCEPT ![u].secret = secrets', ![u].last = Doors!Never]
  BY DEF Doors!SetUp, Doors!history
<1>2. DoorTypes /\ Came(w) /\ CodeFits(u) BY <1>1 DEF DoorInv, CallFits, CodesFit, Came
<1>3. u \in Users BY <1>2 DEF Came
<1>4. CASE UNCHANGED <<profile, secrets>> BY <1>1, <1>4, OnlyEnds
<1>5. CASE /\ ~profile[u].enabled /\ secrets' = secrets + 1
           /\ profile' = [profile EXCEPT ![u].secret = secrets', ![u].last = Doors!Never]
  <2>1. /\ DOMAIN p = DOMAIN profile[u] /\ p.secret = secrets + 1 /\ p.last = Doors!Never
        /\ p.enabled = profile[u].enabled
    BY <1>2, <1>3 DEF DoorTypes
  <2>2. profile' = [profile EXCEPT ![u] = p] BY <1>2, <1>3, <1>5 DEF DoorTypes
  <2>3. /\ secrets' \in Nat /\ secrets' >= secrets /\ DOMAIN accepted' = Users
        /\ p.secret \in Int /\ p.secret <= secrets' /\ p.last \in Int
        /\ ~(p.secret <= secrets)
    BY <1>1, <1>2, <1>5, <2>1 DEF DoorTypes, Doors!Never
  <2>4. ~p.enabled BY <1>5, <2>1
  <2> HIDE DEF u, p
  <2>5. SecretsKept /\ CodesFit' /\ Doors!CodesOpenOnce'
    <3>1. UNCHANGED <<accepted, replayed>> BY <1>1
    <3> QED BY <1>3, <2>2, <2>3, <2>4, <3>1, CodesOfOne, Zenon
  <2> QED BY <1>1, <1>3, <2>1, <2>2, <2>3, <2>5, EndsWithProfile
<1> QED BY <1>1, <1>4, <1>5

\* auth_2fa_confirm: no code of the secret can have completed a login yet.
LEMMA ConfirmStep == ASSUME DoorInv, NEW w \in Workers, Doors!Confirm(w) PROVE DoorInv'
<1> DEFINE u == call[w].user
           p == [profile[u] EXCEPT !.enabled = TRUE, !.last = Doors!Never]
<1>1. /\ at[w] = "open" /\ Doors!Free(w, Doors!ProfileRow(w))
      /\ UNCHANGED <<tick, accepted, replayed, secrets>>
      /\ \/ Doors!Done(w) /\ UNCHANGED <<throttle, counted, profile>>
         \/ /\ ~profile[u].enabled /\ profile[u].secret # Doors!Never
            /\ profile' = [profile EXCEPT ![u].enabled = TRUE, ![u].last = Doors!Never]
            /\ Doors!Cleared(w) /\ Doors!Done(w)
         \/ /\ at' = [at EXCEPT ![w] = "failing"]
            /\ rows' = [rows EXCEPT ![w] = Doors!ProfileRow(w)]
            /\ UNCHANGED <<throttle, counted, profile, call>>
  BY DEF Doors!Confirm, Doors!Kept, Doors!Go
<1>2. DoorTypes /\ Came(w) /\ CodeFits(u) BY <1>1 DEF DoorInv, CallFits, CodesFit, Came
<1>3. u \in Users BY <1>2 DEF Came
<1>4. CASE Doors!Done(w) /\ UNCHANGED <<throttle, counted, profile>> BY <1>1, <1>4, OnlyEnds
<1>5. CASE /\ at' = [at EXCEPT ![w] = "failing"]
           /\ rows' = [rows EXCEPT ![w] = Doors!ProfileRow(w)]
           /\ UNCHANGED <<throttle, counted, profile, call>>
  BY <1>1, <1>5, OnlyFails
<1>6. CASE /\ ~profile[u].enabled /\ profile[u].secret # Doors!Never
           /\ profile' = [profile EXCEPT ![u].enabled = TRUE, ![u].last = Doors!Never]
           /\ Doors!Cleared(w) /\ Doors!Done(w)
  <2>1. /\ DOMAIN p = DOMAIN profile[u] /\ p.secret = profile[u].secret /\ p.last = Doors!Never
        /\ p.enabled
    BY <1>2, <1>3 DEF DoorTypes
  <2>2. profile' = [profile EXCEPT ![u] = p] BY <1>2, <1>3, <1>6 DEF DoorTypes
  <2>3. /\ secrets' \in Nat /\ secrets' >= secrets /\ DOMAIN accepted' = Users
        /\ p.secret \in Int /\ p.secret <= secrets' /\ p.last \in Int
    BY <1>1, <1>2, <1>3, <2>1 DEF DoorTypes, Doors!Never
  <2>4. \A t : accepted[u] # <<p.secret, t>> BY <1>2, <1>6, <2>1 DEF CodeFits
  <2>5. p.secret # Doors!Never BY <1>6, <2>1
  <2> HIDE DEF u, p
  <2>6. SecretsKept /\ CodesFit' /\ Doors!CodesOpenOnce'
    <3>1. UNCHANGED <<accepted, replayed>> BY <1>1
    <3> QED BY <1>3, <2>1, <2>2, <2>3, <2>4, <2>5, <3>1, CodesOfOne, Zenon
  <2> QED BY <1>1, <1>3, <1>6, <2>1, <2>2, <2>3, <2>6, EndsWithProfile
<1> QED BY <1>1, <1>4, <1>5, <1>6

\* auth_2fa_disable
LEMMA DisableStep == ASSUME DoorInv, NEW w \in Workers, Doors!Disable(w) PROVE DoorInv'
<1> DEFINE u == call[w].user
           p == [profile[u] EXCEPT !.enabled = FALSE, !.secret = Doors!Never, !.last = Doors!Never]
<1>1. /\ at[w] = "open" /\ Doors!Free(w, Doors!ProfileRow(w))
      /\ UNCHANGED <<tick, accepted, replayed, secrets>>
      /\ \/ Doors!Done(w) /\ UNCHANGED <<throttle, counted, profile>>
         \/ /\ profile' = [profile EXCEPT ![u].enabled = FALSE, ![u].secret = Doors!Never,
                                          ![u].last = Doors!Never]
            /\ Doors!Cleared(w) /\ Doors!Done(w)
         \/ /\ at' = [at EXCEPT ![w] = "failing"]
            /\ rows' = [rows EXCEPT ![w] = Doors!ProfileRow(w)]
            /\ UNCHANGED <<throttle, counted, profile, call>>
  BY DEF Doors!Disable, Doors!Kept, Doors!Go
<1>2. DoorTypes /\ Came(w) /\ CodeFits(u) BY <1>1 DEF DoorInv, CallFits, CodesFit, Came
<1>3. u \in Users BY <1>2 DEF Came
<1>4. CASE Doors!Done(w) /\ UNCHANGED <<throttle, counted, profile>> BY <1>1, <1>4, OnlyEnds
<1>5. CASE /\ at' = [at EXCEPT ![w] = "failing"]
           /\ rows' = [rows EXCEPT ![w] = Doors!ProfileRow(w)]
           /\ UNCHANGED <<throttle, counted, profile, call>>
  BY <1>1, <1>5, OnlyFails
<1>6. CASE /\ profile' = [profile EXCEPT ![u].enabled = FALSE, ![u].secret = Doors!Never,
                                         ![u].last = Doors!Never]
           /\ Doors!Cleared(w) /\ Doors!Done(w)
  <2>1. /\ DOMAIN p = DOMAIN profile[u] /\ p.secret = Doors!Never /\ p.last = Doors!Never
        /\ ~p.enabled
    BY <1>2, <1>3 DEF DoorTypes
  <2>2. profile' = [profile EXCEPT ![u] = p] BY <1>2, <1>3, <1>6 DEF DoorTypes
  <2>3. /\ secrets' \in Nat /\ secrets' >= secrets /\ DOMAIN accepted' = Users
        /\ p.secret \in Int /\ p.secret <= secrets' /\ p.last \in Int
    BY <1>1, <1>2, <2>1 DEF DoorTypes, Doors!Never
  <2> HIDE DEF u, p
  <2>4. SecretsKept /\ CodesFit' /\ Doors!CodesOpenOnce'
    <3>1. UNCHANGED <<accepted, replayed>> BY <1>1
    <3> QED BY <1>3, <2>1, <2>2, <2>3, <3>1, CodesOfOne, Zenon
  <2> QED BY <1>1, <1>3, <1>6, <2>1, <2>2, <2>3, <2>4, EndsWithProfile
<1> QED BY <1>1, <1>4, <1>5, <1>6

\* A code is accepted once: afterwards its step is the last one of the secret in
\* force, or it was of another secret.
LEMMA AcceptStep ==
  ASSUME DoorInv, NEW w \in Workers, NEW u, NEW step, Doors!Accept(w, u, step),
         Came(w), InForce(call[w]), u = call[w].user, step = call[w].step,
         step # profile[u].last, UNCHANGED <<tick, secrets>>
  PROVE  DoorInv'
<1> DEFINE p == [profile[u] EXCEPT !.last = step]
<1>1. /\ profile' = [profile EXCEPT ![u].last = step]
      /\ replayed' = (replayed \/ (/\ accepted[u] = <<call[w].secret, step>>
                                   /\ call[w].secret = profile[u].secret))
      /\ accepted' = [accepted EXCEPT ![u] = <<call[w].secret, step>>]
      /\ Doors!Cleared(w) /\ Doors!Done(w)
  BY DEF Doors!Accept
<1>2. DoorTypes /\ CodesFit BY DEF DoorInv
<1>3. u \in Users /\ step \in Nat BY DEF Came
<1>4. /\ DOMAIN p = DOMAIN profile[u] /\ p.secret = profile[u].secret /\ p.last = step
      /\ p.enabled = profile[u].enabled
  BY <1>2, <1>3 DEF DoorTypes
<1>5. profile' = [profile EXCEPT ![u] = p] BY <1>1, <1>2, <1>3 DEF DoorTypes
<1> HIDE DEF p
<1>6. profile'[u] = p /\ \A v \in Users \ {u} : profile'[v] = profile[v]
  BY <1>2, <1>3, <1>5 DEF DoorTypes
<1>7. Doors!CodesOpenOnce'
  <2>1. ~(accepted[u] = <<call[w].secret, step>> /\ call[w].secret = profile[u].secret)
    BY <1>2, <1>3 DEF CodesFit, CodeFits
  <2> QED BY <1>1, <2>1 DEF Doors!CodesOpenOnce, DoorInv
<1>8. SecretsKept
  <2>1. \A v \in Users : profile'[v].secret = profile[v].secret /\ profile'[v].enabled = profile[v].enabled
    BY <1>4, <1>6
  <2> QED BY <1>2, <2>1 DEF SecretsKept, DoorTypes
<1>9. CodesFit'
  <2>1. ASSUME NEW v \in Users, v # u PROVE CodeFits(v)'
    BY <1>1, <1>2, <1>6, <2>1 DEF CodesFit, CodeFits, DoorTypes
  <2>2. CodeFits(u)'
    <3>1. profile'[u].enabled => profile'[u].secret # Doors!Never
      BY <1>2, <1>3, <1>4, <1>6 DEF CodesFit, CodeFits
    <3>2. accepted'[u] = <<call[w].secret, step>> BY <1>1, <1>2, <1>3 DEF DoorTypes
    <3>3. call[w].secret \in Int /\ call[w].secret <= secrets' /\ call[w].secret # Doors!Never
      BY DEF Came, InForce
    <3>4. call[w].secret = profile'[u].secret => profile'[u].enabled /\ profile'[u].last = step
      BY <1>4, <1>6 DEF InForce
    <3>5. ASSUME NEW c, NEW t, accepted'[u] = <<c, t>>
          PROVE  /\ c \in Int /\ c <= secrets' /\ c # Doors!Never
                 /\ c = profile'[u].secret => profile'[u].enabled /\ profile'[u].last = t
      <4>1. c = call[w].secret /\ t = step BY <3>2, <3>5
      <4> QED BY <3>3, <3>4, <4>1
    <3> QED BY <3>1, <3>5 DEF CodeFits
  <2> QED BY <2>1, <2>2 DEF CodesFit
<1>10. /\ secrets' \in Nat /\ secrets' >= secrets /\ DOMAIN accepted' = Users
       /\ p.secret \in Int /\ p.secret <= secrets' /\ p.last \in Int
  BY <1>1, <1>2, <1>3, <1>4 DEF DoorTypes
<1> QED BY <1>1, <1>3, <1>4, <1>5, <1>7, <1>8, <1>9, <1>10, EndsWithProfile

\* auth_2fa_verify
LEMMA VerifyStep == ASSUME DoorInv, NEW w \in Workers, Doors!Verify(w) PROVE DoorInv'
<1> DEFINE q == call[w]
           u == q.user
<1>1. /\ at[w] = "open" /\ Doors!Free(w, Doors!ProfileRow(w)) /\ UNCHANGED <<tick, secrets>>
      /\ \/ Doors!Done(w) /\ UNCHANGED <<throttle, counted, profile, accepted, replayed>>
         \/ /\ profile[u].enabled /\ Doors!Matches(q, profile[u].secret) /\ q.step # profile[u].last
            /\ Doors!Accept(w, u, q.step)
         \/ /\ at' = [at EXCEPT ![w] = "failing"]
            /\ rows' = [rows EXCEPT ![w] = Doors!ProfileRow(w)]
            /\ UNCHANGED <<throttle, counted, profile, call, accepted, replayed>>
  BY DEF Doors!Verify, Doors!Kept, Doors!Go
<1>2. DoorTypes /\ Came(w) /\ CodeFits(u) BY <1>1 DEF DoorInv, CallFits, CodesFit, Came
<1>3. CASE Doors!Done(w) /\ UNCHANGED <<throttle, counted, profile, accepted, replayed>>
  BY <1>1, <1>3, OnlyEnds
<1>4. CASE /\ at' = [at EXCEPT ![w] = "failing"]
           /\ rows' = [rows EXCEPT ![w] = Doors!ProfileRow(w)]
           /\ UNCHANGED <<throttle, counted, profile, call, accepted, replayed>>
  BY <1>1, <1>4, OnlyFails
<1>5. CASE /\ profile[u].enabled /\ Doors!Matches(q, profile[u].secret) /\ q.step # profile[u].last
           /\ Doors!Accept(w, u, q.step)
  <2>1. InForce(q) BY <1>2, <1>5 DEF InForce, CodeFits, Doors!Matches
  <2> QED BY <1>1, <1>2, <1>5, <2>1, AcceptStep
<1> QED BY <1>1, <1>3, <1>4, <1>5

\* SecureAdminSite.login_2fa, with the profile locked
LEMMA UseStep == ASSUME DoorInv, NEW w \in Workers, Doors!Use(w) PROVE DoorInv'
<1> DEFINE q == call[w]
           u == q.user
<1>1. /\ at[w] = "compared" /\ Doors!Free(w, Doors!ProfileRow(w)) /\ UNCHANGED <<tick, secrets>>
      /\ \/ q.step # profile[u].last /\ Doors!Accept(w, u, q.step)
         \/ /\ at' = [at EXCEPT ![w] = "failing"]
            /\ UNCHANGED <<rows, throttle, counted, profile, call, accepted, replayed>>
  BY DEF Doors!Use, Doors!Unused, Doors!Kept, Doors!Go
<1>2. Came(w) /\ InForce(q) BY <1>1 DEF DoorInv, CallFits
<1>3. CASE q.step # profile[u].last /\ Doors!Accept(w, u, q.step) BY <1>1, <1>2, <1>3, AcceptStep
<1>4. CASE /\ at' = [at EXCEPT ![w] = "failing"]
           /\ UNCHANGED <<rows, throttle, counted, profile, call, accepted, replayed>>
  BY <1>1, <1>4, OnlyFails
<1> QED BY <1>1, <1>3, <1>4

LEMMA TickStep == ASSUME DoorInv, Doors!Tick PROVE DoorInv'
<1>1. /\ tick' = tick + 1
      /\ UNCHANGED <<throttle, profile, session, call, at, rows, counted, accepted, replayed, secrets>>
  BY DEF Doors!Tick, Doors!requestVars, Doors!history
<1>2. DoorTypes' BY <1>1 DEF DoorInv, DoorTypes, ProcessTypes
<1>3. ASSUME NEW w \in Workers PROVE CallFits(w)'
  <2>1. CallFits(w) BY DEF DoorInv
  <2>2. at[w] # "idle" => Came(w)' BY <1>1, <2>1 DEF CallFits, Came
  <2>3. at[w] = "counting" => Counting(w)'
    BY <1>1, <2>1 DEF CallFits, Counting, Doors!KeysOf, Doors!Factor, Doors!Over
  <2>4. at[w] = "compared" => InForce(call[w])' BY <1>1, <2>1 DEF CallFits, InForce
  <2> QED BY <1>1, <2>1, <2>2, <2>3, <2>4 DEF CallFits
<1>4. CodesFit' /\ Doors!CodesOpenOnce' BY <1>1, CodesStay
<1>5. RowsApart' /\ Doors!FailuresAreCounted'
  BY <1>1 DEF DoorInv, RowsApart, Doors!FailuresAreCounted
<1> QED BY <1>2, <1>3, <1>4, <1>5, DoorInvAgain

\* A step that changes none of the doors.
LEMMA DoorsStay == ASSUME DoorInv, UNCHANGED doorVars PROVE DoorInv'
<1>1. UNCHANGED <<tick, throttle, profile, call, at, rows, counted, accepted, replayed, secrets>>
  BY DEF doorVars
<1>2. DoorTypes' BY <1>1 DEF DoorInv, DoorTypes, ProcessTypes
<1>3. ASSUME NEW w \in Workers PROVE CallFits(w)'
  <2>1. CallFits(w) BY DEF DoorInv
  <2>2. at[w] # "idle" => Came(w)' BY <1>1, <2>1 DEF CallFits, Came
  <2>3. at[w] = "counting" => Counting(w)'
    BY <1>1, <2>1 DEF CallFits, Counting, Doors!KeysOf, Doors!Factor, Doors!Over
  <2>4. at[w] = "compared" => InForce(call[w])' BY <1>1, <2>1 DEF CallFits, InForce
  <2> QED BY <1>1, <2>1, <2>2, <2>3, <2>4 DEF CallFits
<1>4. CodesFit' /\ Doors!CodesOpenOnce' BY <1>1, CodesStay
<1>5. RowsApart' /\ Doors!FailuresAreCounted'
  BY <1>1 DEF DoorInv, RowsApart, Doors!FailuresAreCounted
<1> QED BY <1>2, <1>3, <1>4, <1>5, DoorInvAgain

LEMMA DoorStepKeeps == ASSUME DoorInv, Doors!Next PROVE DoorInv'
<1>1. CASE Doors!Tick BY <1>1, TickStep
<1>2. ASSUME NEW w \in Workers,
             \/ Doors!Begin(w) \/ Doors!LookForLock(w) \/ Doors!ReadCounters(w) \/ Doors!CountFailure(w)
             \/ Doors!WrongPassword(w) \/ Doors!RightPassword(w) \/ Doors!Welcome(w)
             \/ Doors!ChangePassword(w) \/ Doors!SetUp(w) \/ Doors!Confirm(w) \/ Doors!Disable(w)
             \/ Doors!Verify(w) \/ Doors!Compare(w) \/ Doors!Use(w)
      PROVE  DoorInv'
  BY <1>2, BeginStep, LookForLockStep, ReadCountersStep, CountFailureStep, WrongPasswordStep,
    RightPasswordStep, WelcomeStep, ChangePasswordStep, SetUpStep, ConfirmStep, DisableStep,
    VerifyStep, CompareStep, UseStep
<1> QED BY <1>1, <1>2 DEF Doors!Next

LEMMA DoorsInit == ASSUME Doors!Init PROVE DoorInv
<1> PICK enabled \in BOOLEAN :
      profile = [u \in Users |-> [enabled |-> enabled, secret |-> IF enabled THEN 0 ELSE Doors!Never,
                                  last |-> Doors!Never, mustChange |-> FALSE, changed |-> 0]]
  BY DEF Doors!Init
<1>1. /\ tick = 1 /\ throttle = [k \in Doors!AllKeys |-> Doors!Reset]
      /\ call = [w \in Workers |-> Doors!NoCall] /\ at = [w \in Workers |-> "idle"]
      /\ rows = [w \in Workers |-> {}]
      /\ counted = [k \in Doors!AllKeys |-> 0] /\ accepted = [u \in Users |-> <<>>]
      /\ replayed = FALSE /\ secrets = 0
  BY DEF Doors!Init
<1>2. ASSUME NEW u \in Users
      PROVE  /\ DOMAIN profile[u] = {"enabled", "secret", "last", "mustChange", "changed"}
             /\ profile[u].secret \in {0, Doors!Never} /\ profile[u].last = Doors!Never
             /\ profile[u].enabled => profile[u].secret = 0
             /\ \A c, t : accepted[u] # <<c, t>>
  BY <1>1
<1>3. ProcessTypes BY <1>1 DEF ProcessTypes
<1>4. DOMAIN profile = Users OBVIOUS
<1>5. DoorTypes BY <1>1, <1>2, <1>3, <1>4 DEF DoorTypes, Counters, Doors!Reset, Doors!Never
<1>6. \A w \in Workers : CallFits(w) BY <1>1 DEF CallFits
<1>7. CodesFit BY <1>2 DEF CodesFit, CodeFits, Doors!Never
<1>8. Doors!FailuresAreCounted
  BY <1>1, AdministrationConstants DEF Doors!FailuresAreCounted, Doors!Reset, Doors!PolicyRanges
<1>9. Doors!CodesOpenOnce BY <1>1 DEF Doors!CodesOpenOnce
<1>10. RowsApart BY <1>1 DEF RowsApart
<1> QED BY <1>5, <1>6, <1>7, <1>8, <1>9, <1>10 DEF DoorInv

-----------------------------------------------------------------------------
(* Doors: the theorems                                                       *)

\* What each process holds and has read, and which code came last.
THEOREM DoorInvariant == Spec => [](study = "doors" => DoorInv)
<1>1. Init => (study = "doors" => DoorInv) BY DoorsInit DEF Init
<1>2. (study = "doors" => DoorInv) /\ [Next]_vars => (study = "doors" => DoorInv)'
  <2> SUFFICES ASSUME study = "doors" => DoorInv, [Next]_vars, study' = "doors" PROVE DoorInv'
    OBVIOUS
  <2>1. CASE DoorStep BY <2>1, DoorStepKeeps DEF DoorStep
  <2>2. CASE AccountStep \/ SettingStep \/ CatalogStep
    BY <2>2 DEF AccountStep, SettingStep, CatalogStep
  <2>3. CASE UNCHANGED vars BY <2>3, DoorsStay DEF vars
  <2> QED BY <2>1, <2>2, <2>3 DEF Next
<1> QED BY <1>1, <1>2, PTL DEF Spec

\* Each failure counts, however many come at once through the API and the
\* administration site and whenever a lock runs out, so that the next lock falls at
\* the failure it is due (_register_login_failure, register_two_factor_failure).
THEOREM EveryFailureCounts == Spec => []FailuresAreCounted
<1>1. (study = "doors" => DoorInv) => FailuresAreCounted BY DEF DoorInv, FailuresAreCounted
<1> QED BY <1>1, DoorInvariant, PTL

\* No code of the secret in force completes two logins in a row, through either door
\* and however requests with it overlap (auth_2fa_verify, login_2fa).
THEOREM NoCodeTwice == Spec => []CodesOpenOnce
<1>1. (study = "doors" => DoorInv) => CodesOpenOnce BY DEF DoorInv, CodesOpenOnce
<1> QED BY <1>1, DoorInvariant, PTL

-----------------------------------------------------------------------------
(* Catalog: the invariant                                                    *)

Before(w) == stage[w] \in {"locked", "checked"}

\* Columns, and a task for every process that is not idle.
ShelfTypes ==
    /\ fields \in [Fields -> Shelf!FieldDefinition \cup {Shelf!NoField}]
    /\ options \in [Fields -> [Values -> {"on", "off", "none"}]]
    /\ items \in [Sets -> Shelf!ItemList]
    /\ typeSet \in [Types -> Sets \cup {None}] /\ own \in [Models -> Shelf!ModelRow]
    /\ values \in [Assets -> Shelf!ValueRow]
    /\ archived \in [Assets -> BOOLEAN] /\ aside \subseteq Assets
    /\ parent \in [Departments -> Departments \cup {None, "gone"}]
    /\ member \in [People -> Departments \cup {None}]
    /\ task \in [Workers -> CatalogRequests \cup {Shelf!Idle}]
    /\ stage \in [Workers -> {"idle", "begun", "locked", "checked"}]
    /\ locked = [w \in Workers |-> locked[w]] /\ plan = [w \in Workers |-> plan[w]]
    /\ outdated \in BOOLEAN /\ edits \in 0 .. MaxEdits

TasksGiven == \A w \in Workers : stage[w] # "idle" => task[w] \in CatalogRequests

\* What a checked write is going to leave is a row of values.
PlansFit ==
    \A w \in Workers : stage[w] = "checked" /\ task[w].kind = "write" => plan[w] \in Shelf!ValueRow

\* A row is locked by one process.
OneHolder == \A v, w \in Workers : v # w => locked[v] \cap locked[w] = {}

\* The rows a request needs locked, in the set as it is now.
Covers(rowsHeld, q) ==
    /\ q.kind \in {"field", "new", "drop", "option"} => Shelf!FieldRow(q.field) \in rowsHeld
    /\ q.kind = "items" =>
        /\ Shelf!SetRow(q.set) \in rowsHeld
        /\ \A f \in Shelf!Members(items[q.set]) \cup Shelf!Members(q.items) : Shelf!FieldRow(f) \in rowsHeld
    /\ q.kind \in {"department", "import", "close"} => <<"settings">> \in rowsHeld
    /\ q.kind = "close" => Shelf!DepartmentRow(q.department) \in rowsHeld

RowsAreLocked == \A w \in Workers : Before(w) => Covers(locked[w], task[w])

\* What remains of a check while the rows are locked: the part of it that only
\* holders of those rows can undo.
FieldStands(q) ==
    /\ fields[q.field].in
    /\ fields[q.field].shown /\ ~q.new.shown =>
        \A s \in Sets : q.field \notin Shelf!Required(items[s])
    /\ q.new.kind # fields[q.field].kind => \A v \in Values : options[q.field][v] = "none"
    /\ Shelf!MayDefault(q.field, q.new.kind, q.new.default)
DropStands(q) ==
    /\ \A s \in Sets : q.field \notin Shelf!Members(items[s])
    /\ \A v \in Values : options[q.field][v] = "none"
OptionStands(q) ==
    /\ fields[q.field].in
    /\ (options[q.field][q.value] = "none") = (q.op = "add")
    /\ q.op # "drop" => fields[q.field].kind = "choice"
    /\ q.op = "drop" \/ (q.op = "set" /\ q.to = "off") => ~Shelf!NamedAsDefault(q.field, q.value)
ItemsStand(q) ==
    /\ \A f \in Shelf!Members(q.items) : fields[f].in
    /\ \A f \in Shelf!Required(q.items) : fields[f].shown

Stands(q) ==
    /\ q.kind = "field" => FieldStands(q)
    /\ q.kind = "new" => Shelf!MayAddField(q)
    /\ q.kind = "drop" => DropStands(q)
    /\ q.kind = "option" => OptionStands(q)
    /\ q.kind = "items" => ItemsStand(q)
    /\ q.kind = "department" => Shelf!MayReparent(q)
    /\ q.kind = "import" => Shelf!MayImport(q)
    /\ q.kind = "close" => Shelf!MayClose(q)

ChecksStand == \A w \in Workers : stage[w] = "checked" => Stands(task[w])

\* Misfits need a race; and the field of a value that fits is there.
FilledAreThere ==
    outdated \/ \A a \in Assets : \A f \in Shelf!Filled(a) : fields[f].in

ShelfInv ==
    /\ ShelfTypes /\ TasksGiven /\ PlansFit /\ OneHolder /\ RowsAreLocked /\ ChecksStand
    /\ Shelf!DefinitionsAgree
    /\ Shelf!HierarchyIsATree
    /\ FilledAreThere
    /\ Shelf!MisfitsNeedARace

-----------------------------------------------------------------------------
(* Catalog: requests and locks                                               *)

\* Requests are as the serializers let them through.
LEMMA TaskIsWellFormed ==
  ASSUME TasksGiven, NEW w \in Workers, stage[w] # "idle"
  PROVE  task[w] \in CatalogRequests /\ Shelf!WellFormed(task[w])
BY AdministrationConstants DEF TasksGiven, Shelf!CatalogKeys

\* The end of a request unlocks its rows and touches no other process.
LEMMA RequestEnds ==
  ASSUME ShelfTypes, TasksGiven, PlansFit, OneHolder, NEW w \in Workers, Shelf!Done(w)
  PROVE  /\ task' \in [Workers -> CatalogRequests \cup {Shelf!Idle}]
         /\ stage' \in [Workers -> {"idle", "begun", "locked", "checked"}]
         /\ locked' = [v \in Workers |-> locked'[v]] /\ plan' = [v \in Workers |-> plan'[v]]
         /\ TasksGiven' /\ PlansFit' /\ OneHolder'
         /\ stage'[w] = "idle"
         /\ \A v \in Workers : v # w =>
              /\ task'[v] = task[v] /\ stage'[v] = stage[v]
              /\ locked'[v] = locked[v] /\ plan'[v] = plan[v]
              /\ locked[v] \cap locked[w] = {}
<1>1. /\ task' = [task EXCEPT ![w] = Shelf!Idle] /\ stage' = [stage EXCEPT ![w] = "idle"]
      /\ locked' = [locked EXCEPT ![w] = {}] /\ plan' = [plan EXCEPT ![w] = <<>>]
  BY DEF Shelf!Done
<1>2. /\ task' \in [Workers -> CatalogRequests \cup {Shelf!Idle}]
      /\ stage' \in [Workers -> {"idle", "begun", "locked", "checked"}]
      /\ stage'[w] = "idle"
  BY <1>1 DEF ShelfTypes
<1>3. locked' = [v \in Workers |-> locked'[v]] /\ plan' = [v \in Workers |-> plan'[v]]
  BY <1>1 DEF ShelfTypes
<1>4. ASSUME NEW v \in Workers, v # w
      PROVE  /\ task'[v] = task[v] /\ stage'[v] = stage[v]
             /\ locked'[v] = locked[v] /\ plan'[v] = plan[v]
             /\ locked[v] \cap locked[w] = {}
  BY <1>1, <1>4 DEF ShelfTypes, OneHolder
<1>5. TasksGiven' BY <1>2, <1>4 DEF TasksGiven
<1>6. PlansFit' BY <1>2, <1>4 DEF PlansFit
<1>7. OneHolder'
  <2>1. locked'[w] = {} BY <1>1 DEF ShelfTypes
  <2> QED BY <2>1, <1>4 DEF OneHolder
<1> QED BY <1>2, <1>3, <1>4, <1>5, <1>6, <1>7

\* A check stands as long as the rows that the request locked are left alone.
LEMMA CheckStands ==
  ASSUME ShelfTypes, NEW q \in CatalogRequests, Shelf!WellFormed(q), NEW mine,
         Covers(mine, q), Stands(q),
         \A f \in Fields : Shelf!FieldRow(f) \in mine =>
            /\ fields'[f] = fields[f] /\ options'[f] = options[f]
            /\ \A s \in Sets : items'[s][f] = items[s][f],
         <<"settings">> \in mine => parent' = parent,
         \A d \in Departments : Shelf!DepartmentRow(d) \in mine =>
            \A p \in People : member'[p] = d => member[p] = d
  PROVE  Stands(q)'
<1>1. q.kind = "field" => FieldStands(q)'
  BY DEF Stands, FieldStands, Covers, Shelf!WellFormed, Shelf!Required, Shelf!MayDefault
<1>2. q.kind = "new" => Shelf!MayAddField(q)'
  BY DEF Stands, Covers, Shelf!WellFormed, Shelf!MayAddField, Shelf!MayDefault
<1>3. q.kind = "drop" => DropStands(q)'
  BY DEF Stands, DropStands, Covers, Shelf!WellFormed, Shelf!Members
<1>4. q.kind = "option" => OptionStands(q)'
  BY DEF Stands, OptionStands, Covers, Shelf!WellFormed, Shelf!NamedAsDefault
<1>5. q.kind = "items" => ItemsStand(q)'
  <2>1. Shelf!Required(q.items) \subseteq Shelf!Members(q.items)
    BY DEF Shelf!Required, Shelf!Members
  <2>2. Shelf!Members(q.items) \subseteq Fields BY DEF Shelf!Members
  <2>3. Shelf!Members(q.items)' = Shelf!Members(q.items) /\ Shelf!Required(q.items)' = Shelf!Required(q.items)
    BY DEF Shelf!Members, Shelf!Required
  <2>4. CASE q.kind = "items"
    <3>1. \A f \in Shelf!Members(q.items) : fields'[f] = fields[f]
      BY <2>2, <2>4 DEF Covers
    <3> QED BY <2>1, <2>3, <2>4, <3>1 DEF Stands, ItemsStand
  <2> QED BY <2>4
<1>6. q.kind = "department" => Shelf!MayReparent(q)'
  BY DEF Stands, Covers, Shelf!MayReparent, Shelf!There, Shelf!Line
<1>7. q.kind = "import" => Shelf!MayImport(q)'
  BY DEF Stands, Covers, Shelf!MayImport, Shelf!There, Shelf!Acyclic, Shelf!Proposed
<1>8. q.kind = "close" => Shelf!MayClose(q)'
  BY DEF Stands, Covers, Shelf!MayClose, Shelf!There, Shelf!WellFormed
<1> QED BY <1>1, <1>2, <1>3, <1>4, <1>5, <1>6, <1>7, <1>8 DEF Stands

\* What the others have locked and checked, at the end of a request of w.
LEMMA OthersGoOn ==
  ASSUME ShelfInv, NEW w \in Workers, Shelf!Done(w),
         \A v \in Workers : v # w /\ Before(v) => Covers(locked[v], task[v])',
         \A v \in Workers : v # w /\ Before(v) =>
            /\ \A f \in Fields : Shelf!FieldRow(f) \in locked[v] =>
                /\ fields'[f] = fields[f] /\ options'[f] = options[f]
                /\ \A s \in Sets : items'[s][f] = items[s][f]
            /\ <<"settings">> \in locked[v] => parent' = parent
            /\ \A d \in Departments : Shelf!DepartmentRow(d) \in locked[v] =>
                \A p \in People : member'[p] = d => member[p] = d
  PROVE  RowsAreLocked' /\ ChecksStand'
<1>1. /\ stage'[w] = "idle"
      /\ \A v \in Workers : v # w =>
              /\ task'[v] = task[v] /\ stage'[v] = stage[v]
              /\ locked'[v] = locked[v]
  BY RequestEnds DEF ShelfInv
<1>2. RowsAreLocked' BY <1>1 DEF RowsAreLocked, Before
<1>3. ASSUME NEW v \in Workers, stage'[v] = "checked" PROVE Stands(task[v])'
  <2>1. v # w /\ stage[v] = "checked" /\ Before(v) BY <1>1, <1>3 DEF Before
  <2>2. task[v] \in CatalogRequests /\ Shelf!WellFormed(task[v])
    BY <2>1, TaskIsWellFormed DEF ShelfInv
  <2>3. Covers(locked[v], task[v]) /\ Stands(task[v])
    BY <2>1 DEF ShelfInv, RowsAreLocked, ChecksStand
  <2>4. PICK q \in CatalogRequests : q = task[v] BY <2>2
  <2>5. PICK mine : mine = locked[v] OBVIOUS
  <2>6. Stands(q)' BY <2>1, <2>2, <2>3, <2>4, <2>5, CheckStands DEF ShelfInv
  <2>7. task'[v] = q BY <1>1, <2>1, <2>4
  <2> QED BY <2>6, <2>7 DEF Stands, FieldStands, DropStands, OptionStands, ItemsStand,
       Shelf!MayAddField, Shelf!MayReparent, Shelf!MayImport, Shelf!MayClose
<1> QED BY <1>2, <1>3 DEF ChecksStand

LEMMA TypesAreOK == ASSUME ShelfTypes' PROVE Shelf!TypeOK'
<1>1. ASSUME NEW f \in Fields
      PROVE  fields'[f].kind \in {"text", "choice"} /\ fields'[f].default \in Values \cup {None}
  <2>1. fields'[f] \in Shelf!FieldDefinition \cup {Shelf!NoField} BY DEF ShelfTypes
  <2>2. CASE fields'[f] \in Shelf!FieldDefinition BY <2>2 DEF Shelf!FieldDefinition
  <2>3. CASE fields'[f] = Shelf!NoField BY <2>3 DEF Shelf!NoField
  <2> QED BY <2>1, <2>2, <2>3
<1> QED BY <1>1 DEF ShelfTypes, Shelf!TypeOK

LEMMA DefinitionsSame ==
  ASSUME ShelfInv, ShelfTypes', UNCHANGED <<fields, options, items>>
  PROVE  Shelf!DefinitionsAgree'
BY TypesAreOK DEF ShelfInv, Shelf!DefinitionsAgree, Shelf!Members, Shelf!Required

LEMMA TreeSame ==
  ASSUME ShelfInv, UNCHANGED <<parent, member>> PROVE Shelf!HierarchyIsATree'
BY DEF ShelfInv, Shelf!HierarchyIsATree, Shelf!Acyclic, Shelf!There

LEMMA FitSame ==
  ASSUME ShelfInv, UNCHANGED <<fields, options, items, typeSet, own, values, aside>>, ~outdated' => ~outdated
  PROVE  FilledAreThere' /\ Shelf!MisfitsNeedARace'
<1>1. FilledAreThere' BY DEF ShelfInv, FilledAreThere, Shelf!Filled
<1>2. Shelf!MisfitsNeedARace'
  BY DEF ShelfInv, Shelf!MisfitsNeedARace, Shelf!Filled, Shelf!Members, Shelf!ItemsOf, Shelf!SetOf,
    Shelf!Effective, Shelf!Empty
<1> QED BY <1>1, <1>2

\* Nothing that is stored changes.
LEMMA StoredIsSame ==
  ASSUME ShelfInv, ShelfTypes', UNCHANGED <<Shelf!catalog, values, archived, Shelf!staff, aside, outdated>>
  PROVE  /\ Shelf!DefinitionsAgree' /\ Shelf!HierarchyIsATree'
         /\ FilledAreThere' /\ Shelf!MisfitsNeedARace'
BY DefinitionsSame, TreeSame, FitSame DEF Shelf!catalog, Shelf!staff

\* What stands of checks does not depend on anything else than what is stored.
LEMMA OthersWait ==
  ASSUME ShelfInv, NEW w \in Workers,
         UNCHANGED <<Shelf!catalog, values, archived, Shelf!staff, aside, outdated>>,
         \A v \in Workers : v # w => task'[v] = task[v] /\ stage'[v] = stage[v] /\ locked'[v] = locked[v],
         Before(w)' => Covers(locked[w], task[w])',
         stage'[w] = "checked" => Stands(task'[w])
  PROVE  RowsAreLocked' /\ ChecksStand'
<1> USE DEF Shelf!catalog, Shelf!staff
<1>1. RowsAreLocked'
  <2>1. ASSUME NEW v \in Workers, v # w, Before(v)' PROVE Covers(locked[v], task[v])'
    <3>1. Covers(locked[v], task[v]) BY <2>1 DEF ShelfInv, RowsAreLocked, Before
    <3> QED BY <2>1, <3>1 DEF Covers, Shelf!Members
  <2> QED BY <2>1 DEF RowsAreLocked
<1>2. ChecksStand'
  <2>1. ASSUME NEW v \in Workers, stage'[v] = "checked" PROVE Stands(task'[v])
    BY <2>1 DEF ShelfInv, ChecksStand
  <2>2. ASSUME NEW v \in Workers, Stands(task'[v]) PROVE Stands(task[v])'
    <3>1. PICK q : q = task'[v] OBVIOUS
    <3>2. Stands(q) BY <2>2, <3>1
    <3>3. (q.kind = "field" => FieldStands(q)') /\ (q.kind = "drop" => DropStands(q)')
      BY <3>2 DEF Stands, FieldStands, DropStands, Shelf!Required, Shelf!Members, Shelf!MayDefault
    <3>4. (q.kind = "option" => OptionStands(q)') /\ (q.kind = "new" => Shelf!MayAddField(q)')
      BY <3>2 DEF Stands, OptionStands, Shelf!NamedAsDefault, Shelf!MayAddField, Shelf!MayDefault
    <3>5. q.kind = "items" => ItemsStand(q)'
      BY <3>2 DEF Stands, ItemsStand, Shelf!Required, Shelf!Members
    <3>6. (q.kind = "department" => Shelf!MayReparent(q)') /\ (q.kind = "close" => Shelf!MayClose(q)')
      BY <3>2 DEF Stands, Shelf!MayReparent, Shelf!MayClose, Shelf!There, Shelf!Line
    <3>7. q.kind = "import" => Shelf!MayImport(q)'
      BY <3>2 DEF Stands, Shelf!MayImport, Shelf!There, Shelf!Acyclic, Shelf!Proposed
    <3>8. Stands(q)' BY <3>3, <3>4, <3>5, <3>6, <3>7 DEF Stands
    <3> QED BY <3>1, <3>8 DEF Stands, FieldStands, DropStands, OptionStands, ItemsStand,
         Shelf!MayAddField, Shelf!MayReparent, Shelf!MayImport, Shelf!MayClose
  <2> QED BY <2>1, <2>2 DEF ChecksStand
<1> QED BY <1>1, <1>2

LEMMA EditBegins ==
  ASSUME ShelfInv, NEW w \in Workers, Shelf!Begin(w) PROVE ShelfInv'
<1>1. PICK q \in CatalogRequests :
        /\ stage[w] = "idle" /\ edits < MaxEdits /\ edits' = edits + 1
        /\ task' = [task EXCEPT ![w] = q] /\ stage' = [stage EXCEPT ![w] = "begun"]
        /\ UNCHANGED <<Shelf!catalog, values, archived, Shelf!staff, locked, plan, aside, outdated>>
  BY DEF Shelf!Begin
<1>2. /\ stage'[w] = "begun" /\ task'[w] = q
      /\ \A v \in Workers : v # w => task'[v] = task[v] /\ stage'[v] = stage[v]
  BY <1>1 DEF ShelfInv, ShelfTypes
<1>3. edits' \in 0 .. MaxEdits
  BY <1>1, AdministrationConstants DEF ShelfInv, ShelfTypes, Shelf!CatalogKeys
<1>4. /\ task' \in [Workers -> CatalogRequests \cup {Shelf!Idle}]
      /\ stage' \in [Workers -> {"idle", "begun", "locked", "checked"}]
  BY <1>1 DEF ShelfInv, ShelfTypes
<1>5. ShelfTypes'
  BY <1>1, <1>3, <1>4 DEF ShelfInv, ShelfTypes, Shelf!catalog, Shelf!staff
<1>6. TasksGiven' /\ PlansFit' /\ OneHolder' BY <1>1, <1>2 DEF ShelfInv, TasksGiven, PlansFit, OneHolder
<1>7. RowsAreLocked' /\ ChecksStand'
  <2>1. ~Before(w)' /\ stage'[w] # "checked" BY <1>2 DEF Before
  <2> QED BY <1>1, <1>2, <2>1, OthersWait
<1> QED BY <1>1, <1>5, <1>6, <1>7, StoredIsSame DEF ShelfInv

\* The rows that are locked are those the check relies on.
LEMMA LockedRowsCover ==
  ASSUME NEW q \in CatalogRequests PROVE Covers(Shelf!LockedRows(q), q)
<1>1. Shelf!WellFormed(q) BY AdministrationConstants DEF Shelf!CatalogKeys
<1>2. CASE q.kind \in {"field", "new", "drop"}
  BY <1>2 DEF Covers, Shelf!LockedRows
<1>3. CASE q.kind = "option"
  BY <1>3 DEF Covers, Shelf!LockedRows, Shelf!OptionRows
<1>4. CASE q.kind = "items"
  BY <1>4 DEF Covers, Shelf!LockedRows, Shelf!ItemRows
<1>5. CASE q.kind \in {"department", "close"}
  BY <1>5 DEF Covers, Shelf!LockedRows, Shelf!HierarchyRow
<1>6. CASE q.kind = "import"
  BY <1>6 DEF Covers, Shelf!LockedRows, Shelf!HierarchyRow
<1>7. CASE q.kind \in {"model", "type", "write", "archive", "person"}
  BY <1>7 DEF Covers
<1> QED BY <1>1, <1>2, <1>3, <1>4, <1>5, <1>6, <1>7 DEF Shelf!WellFormed

LEMMA EditLocks ==
  ASSUME ShelfInv, NEW w \in Workers, Shelf!Lock(w) PROVE ShelfInv'
<1>1. /\ stage[w] = "begun" /\ Shelf!LockedRows(task[w]) \cap Shelf!Others(w) = {}
      /\ locked' = [locked EXCEPT ![w] = Shelf!LockedRows(task[w])]
      /\ stage' = [stage EXCEPT ![w] = "locked"]
      /\ UNCHANGED <<Shelf!catalog, values, archived, Shelf!staff, task, plan, aside, outdated, edits>>
  BY DEF Shelf!Lock
<1>2. /\ stage'[w] = "locked" /\ locked'[w] = Shelf!LockedRows(task[w])
      /\ \A v \in Workers : v # w => locked'[v] = locked[v] /\ stage'[v] = stage[v]
  BY <1>1 DEF ShelfInv, ShelfTypes
<1>3. ShelfTypes'
  <2>1. stage' \in [Workers -> {"idle", "begun", "locked", "checked"}]
    BY <1>1 DEF ShelfInv, ShelfTypes
  <2>2. locked' = [v \in Workers |-> locked'[v]] BY <1>1 DEF ShelfInv, ShelfTypes
  <2> QED BY <1>1, <2>1, <2>2 DEF ShelfInv, ShelfTypes, Shelf!catalog, Shelf!staff
<1>4. TasksGiven' /\ PlansFit' BY <1>1, <1>2 DEF ShelfInv, TasksGiven, PlansFit
<1>5. OneHolder'
  <2>1. ASSUME NEW v \in Workers, v # w PROVE locked[v] \cap Shelf!LockedRows(task[w]) = {}
    BY <1>1, <2>1 DEF Shelf!Others
  <2> QED BY <1>2, <2>1 DEF ShelfInv, OneHolder
<1>6. RowsAreLocked' /\ ChecksStand'
  <2>1. task[w] \in CatalogRequests BY <1>1, TaskIsWellFormed DEF ShelfInv
  <2>2. Covers(Shelf!LockedRows(task[w]), task[w]) BY <2>1, LockedRowsCover
  <2>3. Covers(locked[w], task[w])'
    BY <1>1, <1>2, <2>2 DEF Covers, Shelf!Members, Shelf!catalog
  <2> QED BY <1>1, <1>2, <2>3, OthersWait
<1> QED BY <1>1, <1>3, <1>4, <1>5, <1>6, StoredIsSame DEF ShelfInv

\* What is allowed now stands.
LEMMA AllowedStands ==
  ASSUME NEW q \in CatalogRequests, Shelf!Allowed(q) PROVE Stands(q)
<1>1. Shelf!WellFormed(q) BY AdministrationConstants DEF Shelf!CatalogKeys
<1>2. q.kind = "field" => FieldStands(q)
  BY DEF Shelf!Allowed, Shelf!MayEditField, FieldStands
<1>3. q.kind = "new" => Shelf!MayAddField(q) BY DEF Shelf!Allowed
<1>4. q.kind = "drop" => DropStands(q) BY DEF Shelf!Allowed, Shelf!MayDropField, DropStands
<1>5. q.kind = "option" => OptionStands(q)
  BY DEF Shelf!Allowed, Shelf!MayEditOption, OptionStands
<1>6. q.kind = "items" => ItemsStand(q) BY DEF Shelf!Allowed, Shelf!MayReplace, ItemsStand
<1>7. /\ q.kind = "department" => Shelf!MayReparent(q)
      /\ q.kind = "import" => Shelf!MayImport(q)
      /\ q.kind = "close" => Shelf!MayClose(q)
  BY DEF Shelf!Allowed
<1> QED BY <1>2, <1>3, <1>4, <1>5, <1>6, <1>7 DEF Stands

\* A write leaves values in the columns of their kinds.
LEMMA WrittenIsARow ==
  ASSUME ShelfTypes, NEW q \in CatalogRequests, q.kind = "write"
  PROVE  Shelf!Written(q) \in Shelf!ValueRow
<1>1. PICK a : a = q.asset OBVIOUS
<1>2. a \in Assets /\ q.values \in Shelf!Part(Fields, Values \cup {None})
  BY <1>1, AdministrationConstants DEF Shelf!CatalogKeys, Shelf!WellFormed
<1>3. PICK some \in SUBSET Fields : q.values \in [some -> Values \cup {None}]
  BY <1>2 DEF Shelf!Part
<1>4. ASSUME NEW f \in Fields PROVE fields[f].kind \in {"text", "choice"}
  <2>1. CASE fields[f] \in Shelf!FieldDefinition BY <2>1 DEF Shelf!FieldDefinition
  <2>2. CASE fields[f] = Shelf!NoField BY <2>2 DEF Shelf!NoField
  <2> QED BY <2>1, <2>2 DEF ShelfTypes
<1>5. \A f \in Fields : values[a][f] \in {None} \cup [kind : {"text", "choice"}, value : Values]
  BY <1>2 DEF ShelfTypes, Shelf!ValueRow
<1> QED BY <1>1, <1>3, <1>4, <1>5 DEF Shelf!Written, Shelf!ValueRow

LEMMA EditChecked ==
  ASSUME ShelfInv, NEW w \in Workers, Shelf!Check(w) PROVE ShelfInv'
<1>1. /\ stage[w] = "locked" /\ Shelf!Allowed(task[w])
      /\ plan' = [plan EXCEPT ![w] = Shelf!PlanOf(task[w])]
      /\ stage' = [stage EXCEPT ![w] = "checked"]
      /\ UNCHANGED <<Shelf!catalog, values, archived, Shelf!staff, task, locked, aside, outdated, edits>>
  BY DEF Shelf!Check
<1>2. /\ stage'[w] = "checked"
      /\ \A v \in Workers : v # w => stage'[v] = stage[v]
  BY <1>1 DEF ShelfInv, ShelfTypes
<1>3. ShelfTypes'
  <2>1. stage' \in [Workers -> {"idle", "begun", "locked", "checked"}]
    BY <1>1 DEF ShelfInv, ShelfTypes
  <2>2. plan' = [v \in Workers |-> plan'[v]] BY <1>1 DEF ShelfInv, ShelfTypes
  <2> QED BY <1>1, <2>1, <2>2 DEF ShelfInv, ShelfTypes, Shelf!catalog, Shelf!staff
<1>4. TasksGiven' /\ OneHolder' BY <1>1, <1>2 DEF ShelfInv, TasksGiven, OneHolder
<1>5. PlansFit'
  <2>1. plan'[w] = Shelf!PlanOf(task[w]) /\ \A v \in Workers : v # w => plan'[v] = plan[v]
    BY <1>1 DEF ShelfInv, ShelfTypes
  <2>2. task[w].kind = "write" => plan'[w] \in Shelf!ValueRow
    BY <1>1, <2>1, WrittenIsARow, TaskIsWellFormed DEF ShelfInv, Shelf!PlanOf
  <2> QED BY <1>1, <1>2, <2>1, <2>2 DEF ShelfInv, PlansFit
<1>6. RowsAreLocked' /\ ChecksStand'
  <2>1. task[w] \in CatalogRequests BY <1>1, TaskIsWellFormed DEF ShelfInv
  <2>2. Stands(task'[w]) BY <1>1, <2>1, AllowedStands
  <2>3. Covers(locked[w], task[w]) BY <1>1 DEF ShelfInv, RowsAreLocked, Before
  <2>4. Covers(locked[w], task[w])' BY <1>1, <2>3 DEF Covers, Shelf!Members, Shelf!catalog
  <2> QED BY <1>1, <1>2, <2>2, <2>4, OthersWait
<1> QED BY <1>1, <1>3, <1>4, <1>6, <1>5, StoredIsSame DEF ShelfInv

LEMMA EditAborts ==
  ASSUME ShelfInv, NEW w \in Workers, Shelf!Abort(w) PROVE ShelfInv'
<1>1. /\ Shelf!Done(w)
      /\ UNCHANGED <<Shelf!catalog, values, archived, Shelf!staff, aside, outdated, edits>>
  BY DEF Shelf!Abort
<1>2. /\ task' \in [Workers -> CatalogRequests \cup {Shelf!Idle}]
      /\ stage' \in [Workers -> {"idle", "begun", "locked", "checked"}]
      /\ locked' = [v \in Workers |-> locked'[v]] /\ plan' = [v \in Workers |-> plan'[v]]
      /\ TasksGiven' /\ PlansFit' /\ OneHolder'
      /\ stage'[w] = "idle"
      /\ \A v \in Workers : v # w =>
            task'[v] = task[v] /\ stage'[v] = stage[v] /\ locked'[v] = locked[v]
  BY <1>1, RequestEnds DEF ShelfInv
<1>3. ShelfTypes' BY <1>1, <1>2 DEF ShelfInv, ShelfTypes, Shelf!catalog, Shelf!staff
<1>4. RowsAreLocked' /\ ChecksStand'
  <2>1. ~Before(w)' /\ stage'[w] # "checked" BY <1>2 DEF Before
  <2> QED BY <1>1, <1>2, <2>1, OthersWait
<1> QED BY <1>1, <1>2, <1>3, <1>4, StoredIsSame DEF ShelfInv

-----------------------------------------------------------------------------
(* Catalog: commits                                                          *)

\* What every commit does: the request ends, and without a race what it does is
\* allowed at that moment.
LEMMA CommitEnds ==
  ASSUME ShelfInv, NEW w \in Workers, stage[w] = "checked", Shelf!Commit(w)
  PROVE  /\ Shelf!Done(w) /\ TasksGiven' /\ PlansFit' /\ OneHolder'
         /\ task' \in [Workers -> CatalogRequests \cup {Shelf!Idle}]
         /\ stage' \in [Workers -> {"idle", "begun", "locked", "checked"}]
         /\ locked' = [v \in Workers |-> locked'[v]] /\ plan' = [v \in Workers |-> plan'[v]]
         /\ outdated' \in BOOLEAN /\ edits' \in 0 .. MaxEdits
         /\ ~outdated' => ~outdated /\ Shelf!Allowed(task[w]) /\ plan[w] = Shelf!PlanOf(task[w])
         /\ task[w] \in CatalogRequests /\ Shelf!WellFormed(task[w])
         /\ Covers(locked[w], task[w]) /\ Stands(task[w])
         /\ \A v \in Workers : v # w =>
              task'[v] = task[v] /\ locked'[v] = locked[v] /\ locked[v] \cap locked[w] = {}
<1>1. /\ Shelf!Done(w) /\ edits' = edits
      /\ outdated' = (outdated \/ ~Shelf!Allowed(task[w]) \/ plan[w] # Shelf!PlanOf(task[w]))
  BY DEF Shelf!Commit
<1>2. outdated' \in BOOLEAN /\ edits' \in 0 .. MaxEdits
  BY <1>1 DEF ShelfInv, ShelfTypes
<1>3. ~outdated' => ~outdated /\ Shelf!Allowed(task[w]) /\ plan[w] = Shelf!PlanOf(task[w])
  BY <1>1
<1>4. task[w] \in CatalogRequests /\ Shelf!WellFormed(task[w])
  BY TaskIsWellFormed DEF ShelfInv
<1>5. Covers(locked[w], task[w]) /\ Stands(task[w])
  BY DEF ShelfInv, RowsAreLocked, ChecksStand, Before
<1> QED BY <1>1, <1>2, <1>3, <1>4, <1>5, RequestEnds DEF ShelfInv

LEMMA CommitFieldStep ==
  ASSUME ShelfInv, NEW w \in Workers, Shelf!CommitField(w) PROVE ShelfInv'
<1>1. PICK q : q = task[w] OBVIOUS
<1>2. PICK f : f = q.field OBVIOUS
<1>3. PICK new : new = IF q.kind = "drop" THEN Shelf!NoField ELSE q.new OBVIOUS
<1>4. /\ stage[w] = "checked" /\ q.kind \in {"field", "new", "drop"}
      /\ fields' = [fields EXCEPT ![f] = new]
      /\ Shelf!Commit(w)
      /\ UNCHANGED <<options, items, typeSet, own, values, archived, parent, member, aside>>
  BY <1>1, <1>2, <1>3 DEF Shelf!CommitField, Shelf!At, Shelf!staff
<1>5. /\ Shelf!Done(w) /\ TasksGiven' /\ PlansFit' /\ OneHolder'
      /\ outdated' \in BOOLEAN
      /\ ~outdated' => ~outdated /\ Shelf!Allowed(q)
      /\ q \in CatalogRequests /\ Shelf!WellFormed(q)
      /\ Covers(locked[w], q) /\ Stands(q)
      /\ \A v \in Workers : v # w =>
            task'[v] = task[v] /\ locked'[v] = locked[v] /\ locked[v] \cap locked[w] = {}
  BY <1>1, <1>4, CommitEnds
<1>6. f \in Fields /\ new \in Shelf!FieldDefinition \cup {Shelf!NoField}
  BY <1>2, <1>3, <1>4, <1>5 DEF Shelf!WellFormed
<1>7. /\ fields' \in [Fields -> Shelf!FieldDefinition \cup {Shelf!NoField}]
      /\ fields'[f] = new
      /\ \A g \in Fields : g # f => fields'[g] = fields[g]
  BY <1>4, <1>6 DEF ShelfInv, ShelfTypes
<1>8. ShelfTypes' BY <1>4, <1>7, CommitEnds DEF ShelfInv, ShelfTypes
<1>9. RowsAreLocked' /\ ChecksStand'
  <2>1. Shelf!FieldRow(f) \in locked[w] BY <1>2, <1>4, <1>5 DEF Covers
  <2>2. ASSUME NEW v \in Workers, v # w, Before(v)
        PROVE  /\ Covers(locked[v], task[v])'
               /\ \A g \in Fields : Shelf!FieldRow(g) \in locked[v] => fields'[g] = fields[g]
    <3>1. \A g \in Fields : Shelf!FieldRow(g) \in locked[v] => g # f
      BY <1>5, <2>1, <2>2
    <3>2. Covers(locked[v], task[v]) BY <2>2 DEF ShelfInv, RowsAreLocked
    <3>3. Covers(locked[v], task[v])' BY <1>4, <1>5, <2>2, <3>2 DEF Covers, Shelf!Members
    <3> QED BY <1>7, <3>1, <3>3
  <2> QED BY <1>4, <1>5, <2>2, OthersGoOn
<1>10. Shelf!DefinitionsAgree'
  <2>1. \A g \in Fields :
          /\ fields[g].kind = "choice" /\ fields[g].default # None => options[g][fields[g].default] = "on"
          /\ \A v \in Values : options[g][v] # "none" => fields[g].in /\ fields[g].kind = "choice"
    BY DEF ShelfInv, Shelf!DefinitionsAgree
  <2>2. \A s \in Sets :
          /\ \A g \in Shelf!Members(items[s]) : fields[g].in
          /\ \A g \in Shelf!Required(items[s]) : fields[g].shown
    BY DEF ShelfInv, Shelf!DefinitionsAgree
  <2>3. /\ new.kind = "choice" /\ new.default # None => options[f][new.default] = "on"
        /\ \A v \in Values : options[f][v] # "none" => new.in /\ new.kind = "choice"
        /\ \A s \in Sets : f \in Shelf!Members(items[s]) => new.in
        /\ \A s \in Sets : f \in Shelf!Required(items[s]) => new.shown
    <3>1. CASE q.kind = "field"
      <4>1. new = q.new /\ new.in BY <1>3, <1>5, <3>1 DEF Shelf!WellFormed, Shelf!FieldDefinition
      <4>2. FieldStands(q) BY <1>5, <3>1 DEF Stands
      <4> QED BY <1>2, <1>6, <2>1, <2>2, <4>1, <4>2 DEF FieldStands, Shelf!MayDefault
    <3>2. CASE q.kind = "new"
      <4>1. new = q.new BY <1>3, <3>2
      <4>2. ~fields[f].in /\ Shelf!MayDefault(f, new.kind, new.default)
        BY <1>2, <1>5, <3>2, <4>1 DEF Stands, Shelf!MayAddField
      <4>3. \A s \in Sets : Shelf!Required(items[s]) \subseteq Shelf!Members(items[s])
        BY DEF Shelf!Required, Shelf!Members
      <4> QED BY <1>6, <2>1, <2>2, <4>2, <4>3 DEF Shelf!MayDefault
    <3>3. CASE q.kind = "drop"
      <4>1. new = Shelf!NoField BY <1>3, <3>3
      <4>2. /\ \A s \in Sets : f \notin Shelf!Members(items[s])
            /\ \A v \in Values : options[f][v] = "none"
        BY <1>2, <1>5, <3>3 DEF Stands, DropStands
      <4> QED BY <4>1, <4>2 DEF Shelf!NoField
    <3> QED BY <1>4, <3>1, <3>2, <3>3
  <2>4. \A g \in Fields :
          /\ fields'[g].kind = "choice" /\ fields'[g].default # None => options[g][fields'[g].default] = "on"
          /\ \A v \in Values : options[g][v] # "none" => fields'[g].in /\ fields'[g].kind = "choice"
    BY <1>7, <2>1, <2>3
  <2>5. \A s \in Sets :
          /\ \A g \in Shelf!Members(items[s]) : fields'[g].in
          /\ \A g \in Shelf!Required(items[s]) : fields'[g].shown
    BY <1>7, <2>2, <2>3 DEF Shelf!Members, Shelf!Required
  <2>6. \A s \in Sets : /\ Shelf!Members(items[s])' = Shelf!Members(items[s])
                        /\ Shelf!Required(items[s])' = Shelf!Required(items[s])
    BY <1>4 DEF Shelf!Members, Shelf!Required
  <2> QED BY <1>4, <1>8, <2>4, <2>5, <2>6, TypesAreOK DEF Shelf!DefinitionsAgree
<1>11. Shelf!HierarchyIsATree' BY <1>4, TreeSame
<1>12. FilledAreThere' /\ Shelf!MisfitsNeedARace'
  <2>1. SUFFICES ASSUME ~outdated' PROVE FilledAreThere' /\ Shelf!MisfitsNeedARace'
    BY DEF FilledAreThere, Shelf!MisfitsNeedARace
  <2>2. Shelf!Allowed(q) /\ ~outdated BY <1>5, <2>1
  <2>3. \A a \in Assets : \A g \in Shelf!Filled(a) :
          /\ fields[g].in
          /\ values[a][g].kind = fields[g].kind
          /\ fields[g].kind = "choice" => options[g][values[a][g].value] # "none"
          /\ a \in aside \/ g \in Shelf!Members(Shelf!ItemsOf(Shelf!SetOf(a)))
    BY <2>2 DEF ShelfInv, FilledAreThere, Shelf!MisfitsNeedARace
  <2>4. ASSUME NEW a \in Assets, f \in Shelf!Filled(a) PROVE new.in /\ new.kind = fields[f].kind
    <3>1. values[a][f] # None BY <2>4 DEF Shelf!Filled
    <3>2. fields[f].in BY <2>3, <2>4
    <3>3. q.kind = "field"
      BY <1>2, <1>4, <2>2, <3>1, <3>2 DEF Shelf!Allowed, Shelf!MayAddField, Shelf!MayDropField
    <3>4. new = q.new /\ new.in BY <1>3, <1>5, <3>3 DEF Shelf!WellFormed, Shelf!FieldDefinition
    <3> QED BY <1>2, <2>2, <3>1, <3>3, <3>4 DEF Shelf!Allowed, Shelf!MayEditField
  <2>5. \A a \in Assets : \A g \in Shelf!Filled(a) :
          fields'[g].in /\ fields'[g].kind = fields[g].kind
    BY <1>7, <2>3, <2>4 DEF Shelf!Filled
  <2>6. \A a \in Assets : /\ Shelf!Filled(a)' = Shelf!Filled(a)
                          /\ Shelf!Members(Shelf!ItemsOf(Shelf!SetOf(a)))' = Shelf!Members(Shelf!ItemsOf(Shelf!SetOf(a)))
    BY <1>4 DEF Shelf!Filled, Shelf!Members, Shelf!ItemsOf, Shelf!SetOf, Shelf!Effective, Shelf!Empty
  <2> QED BY <1>4, <2>3, <2>5, <2>6 DEF FilledAreThere, Shelf!MisfitsNeedARace
<1> QED BY <1>5, <1>8, <1>9, <1>10, <1>11, <1>12 DEF ShelfInv

LEMMA CommitOptionStep ==
  ASSUME ShelfInv, NEW w \in Workers, Shelf!CommitOption(w) PROVE ShelfInv'
<1>1. PICK q : q = task[w] OBVIOUS
<1>2. PICK f, x : f = q.field /\ x = q.value OBVIOUS
<1>3. PICK new : new = IF q.op = "drop" THEN "none" ELSE q.to OBVIOUS
<1>4. /\ stage[w] = "checked" /\ q.kind = "option"
      /\ options' = [options EXCEPT ![f][x] = new]
      /\ Shelf!Commit(w)
      /\ UNCHANGED <<fields, items, typeSet, own, values, archived, parent, member, aside>>
  BY <1>1, <1>2, <1>3 DEF Shelf!CommitOption, Shelf!At, Shelf!staff
<1>5. /\ Shelf!Done(w) /\ TasksGiven' /\ PlansFit' /\ OneHolder'
      /\ outdated' \in BOOLEAN
      /\ ~outdated' => ~outdated /\ Shelf!Allowed(q)
      /\ q \in CatalogRequests /\ Shelf!WellFormed(q)
      /\ Covers(locked[w], q) /\ Stands(q)
      /\ \A v \in Workers : v # w =>
            task'[v] = task[v] /\ locked'[v] = locked[v] /\ locked[v] \cap locked[w] = {}
  BY <1>1, <1>4, CommitEnds
<1>6. f \in Fields /\ x \in Values /\ new \in {"on", "off", "none"}
  BY <1>2, <1>3, <1>4, <1>5 DEF Shelf!WellFormed
<1>7. /\ options' \in [Fields -> [Values -> {"on", "off", "none"}]]
      /\ options'[f][x] = new
      /\ \A y \in Values : y # x => options'[f][y] = options[f][y]
      /\ \A g \in Fields : g # f => options'[g] = options[g]
  BY <1>4, <1>6 DEF ShelfInv, ShelfTypes
<1>8. ShelfTypes' BY <1>4, <1>7, CommitEnds DEF ShelfInv, ShelfTypes
<1>9. RowsAreLocked' /\ ChecksStand'
  <2>1. Shelf!FieldRow(f) \in locked[w] BY <1>2, <1>4, <1>5 DEF Covers
  <2>2. ASSUME NEW v \in Workers, v # w, Before(v)
        PROVE  /\ Covers(locked[v], task[v])'
               /\ \A g \in Fields : Shelf!FieldRow(g) \in locked[v] => options'[g] = options[g]
    <3>1. \A g \in Fields : Shelf!FieldRow(g) \in locked[v] => g # f
      BY <1>5, <2>1, <2>2
    <3>2. Covers(locked[v], task[v]) BY <2>2 DEF ShelfInv, RowsAreLocked
    <3>3. Covers(locked[v], task[v])' BY <1>4, <1>5, <2>2, <3>2 DEF Covers, Shelf!Members
    <3> QED BY <1>7, <3>1, <3>3
  <2> QED BY <1>4, <1>5, <2>2, OthersGoOn
<1>10. Shelf!DefinitionsAgree'
  <2>1. \A g \in Fields :
          /\ fields[g].kind = "choice" /\ fields[g].default # None => options[g][fields[g].default] = "on"
          /\ \A v \in Values : options[g][v] # "none" => fields[g].in /\ fields[g].kind = "choice"
    BY DEF ShelfInv, Shelf!DefinitionsAgree
  <2>2. OptionStands(q) BY <1>4, <1>5 DEF Stands
  <2>3. fields[f].kind = "choice" /\ fields[f].default = x => new = "on"
    <3>1. SUFFICES ASSUME fields[f].kind = "choice", fields[f].default = x PROVE new = "on"
      OBVIOUS
    <3>2. options[f][x] = "on"
      BY <1>6, <2>1, <3>1, AdministrationConstants DEF Shelf!CatalogKeys
    <3>3. q.op # "drop" /\ ~(q.op = "set" /\ q.to = "off") /\ q.op # "add"
      BY <1>2, <2>2, <3>1, <3>2 DEF OptionStands, Shelf!NamedAsDefault
    <3> QED BY <1>3, <1>4, <1>5, <3>3 DEF Shelf!WellFormed
  <2>4. new # "none" => fields[f].in /\ fields[f].kind = "choice"
    BY <1>2, <1>3, <2>2 DEF OptionStands
  <2>5. \A g \in Fields :
          /\ fields[g].kind = "choice" /\ fields[g].default # None => options'[g][fields[g].default] = "on"
          /\ \A v \in Values : options'[g][v] # "none" => fields[g].in /\ fields[g].kind = "choice"
    <3>1. ASSUME NEW g \in Fields, fields[g].kind = "choice", fields[g].default # None
          PROVE  options'[g][fields[g].default] = "on"
      <4>1. fields[g].default \in Values
        BY <3>1 DEF ShelfInv, Shelf!DefinitionsAgree, Shelf!TypeOK
      <4> QED BY <1>7, <2>1, <2>3, <3>1, <4>1
    <3>2. ASSUME NEW g \in Fields, NEW v \in Values, options'[g][v] # "none"
          PROVE  fields[g].in /\ fields[g].kind = "choice"
      <4>1. CASE g = f /\ v = x BY <1>7, <2>4, <3>2, <4>1
      <4>2. CASE ~(g = f /\ v = x)
        <5>1. options[g][v] # "none" BY <1>7, <3>2, <4>2
        <5> QED BY <2>1, <5>1
      <4> QED BY <4>1, <4>2
    <3> QED BY <3>1, <3>2
  <2>6. \A s \in Sets : /\ Shelf!Members(items[s])' = Shelf!Members(items[s])
                        /\ Shelf!Required(items[s])' = Shelf!Required(items[s])
    BY <1>4 DEF Shelf!Members, Shelf!Required
  <2> QED BY <1>4, <1>8, <2>5, <2>6, TypesAreOK DEF ShelfInv, Shelf!DefinitionsAgree
<1>11. Shelf!HierarchyIsATree' BY <1>4, TreeSame
<1>12. FilledAreThere' /\ Shelf!MisfitsNeedARace'
  <2>1. SUFFICES ASSUME ~outdated' PROVE FilledAreThere' /\ Shelf!MisfitsNeedARace'
    BY DEF FilledAreThere, Shelf!MisfitsNeedARace
  <2>2. Shelf!MayEditOption(q) /\ ~outdated BY <1>4, <1>5, <2>1 DEF Shelf!Allowed
  <2>3. \A a \in Assets : \A g \in Shelf!Filled(a) :
          /\ fields[g].in
          /\ values[a][g].kind = fields[g].kind
          /\ fields[g].kind = "choice" => options[g][values[a][g].value] # "none"
          /\ a \in aside \/ g \in Shelf!Members(Shelf!ItemsOf(Shelf!SetOf(a)))
    BY <2>2 DEF ShelfInv, FilledAreThere, Shelf!MisfitsNeedARace
  <2>4. ASSUME NEW a \in Assets, NEW g \in Shelf!Filled(a), fields[g].kind = "choice"
        PROVE  options'[g][values[a][g].value] # "none"
    <3>1. g \in Fields /\ values[a][g] # None BY DEF Shelf!Filled
    <3>2. values[a][g].value \in Values
      BY <3>1 DEF ShelfInv, ShelfTypes, Shelf!ValueRow
    <3>3. options[g][values[a][g].value] # "none" BY <2>3, <2>4
    <3>4. CASE g = f /\ values[a][g].value = x
      <4>1. q.op # "drop" BY <1>2, <2>2, <3>1, <3>4 DEF Shelf!MayEditOption
      <4>2. new # "none" BY <1>3, <1>4, <1>5, <4>1 DEF Shelf!WellFormed
      <4> QED BY <1>7, <3>4, <4>2
    <3>5. CASE ~(g = f /\ values[a][g].value = x) BY <1>7, <3>1, <3>2, <3>3, <3>5
    <3> QED BY <3>4, <3>5
  <2>5. \A a \in Assets : /\ Shelf!Filled(a)' = Shelf!Filled(a)
                          /\ Shelf!Members(Shelf!ItemsOf(Shelf!SetOf(a)))' = Shelf!Members(Shelf!ItemsOf(Shelf!SetOf(a)))
    BY <1>4 DEF Shelf!Filled, Shelf!Members, Shelf!ItemsOf, Shelf!SetOf, Shelf!Effective, Shelf!Empty
  <2> QED BY <1>4, <2>3, <2>4, <2>5 DEF FilledAreThere, Shelf!MisfitsNeedARace
<1> QED BY <1>5, <1>8, <1>9, <1>10, <1>11, <1>12 DEF ShelfInv

LEMMA CommitItemsStep ==
  ASSUME ShelfInv, NEW w \in Workers, Shelf!CommitItems(w) PROVE ShelfInv'
<1>1. PICK q : q = task[w] OBVIOUS
<1>2. PICK s, its : s = q.set /\ its = q.items OBVIOUS
<1>3. /\ stage[w] = "checked" /\ q.kind = "items"
      /\ items' = [items EXCEPT ![s] = its]
      /\ aside' = aside \cup {a \in Assets : archived[a]}
      /\ Shelf!Commit(w)
      /\ UNCHANGED <<fields, options, typeSet, own, values, archived, parent, member>>
  BY <1>1, <1>2 DEF Shelf!CommitItems, Shelf!At, Shelf!staff, Shelf!SetAside
<1>4. /\ Shelf!Done(w) /\ TasksGiven' /\ PlansFit' /\ OneHolder'
      /\ outdated' \in BOOLEAN
      /\ ~outdated' => ~outdated /\ Shelf!Allowed(q)
      /\ q \in CatalogRequests /\ Shelf!WellFormed(q)
      /\ Covers(locked[w], q) /\ Stands(q)
      /\ \A v \in Workers : v # w =>
            task'[v] = task[v] /\ locked'[v] = locked[v] /\ locked[v] \cap locked[w] = {}
  BY <1>1, <1>3, CommitEnds
<1>5. s \in Sets /\ its \in Shelf!ItemList BY <1>2, <1>3, <1>4 DEF Shelf!WellFormed
<1>6. /\ items' \in [Sets -> Shelf!ItemList]
      /\ items'[s] = its
      /\ \A r \in Sets : r # s => items'[r] = items[r]
  BY <1>3, <1>5 DEF ShelfInv, ShelfTypes
<1>7. ShelfTypes' BY <1>3, <1>6, CommitEnds DEF ShelfInv, ShelfTypes
<1>8. RowsAreLocked' /\ ChecksStand'
  <2>1. /\ Shelf!SetRow(s) \in locked[w]
        /\ \A f \in Fields : items[s][f] # "out" \/ its[f] # "out" => Shelf!FieldRow(f) \in locked[w]
    BY <1>2, <1>3, <1>4 DEF Covers, Shelf!Members
  <2>2. ASSUME NEW v \in Workers, v # w, Before(v)
        PROVE  /\ Covers(locked[v], task[v])'
               /\ \A f \in Fields : Shelf!FieldRow(f) \in locked[v] =>
                    \A r \in Sets : items'[r][f] = items[r][f]
    <3>1. \A f \in Fields : Shelf!FieldRow(f) \in locked[v] => items[s][f] = "out" /\ its[f] = "out"
      BY <1>4, <2>1, <2>2
    <3>2. \A f \in Fields : Shelf!FieldRow(f) \in locked[v] =>
                    \A r \in Sets : items'[r][f] = items[r][f]
      BY <1>6, <3>1
    <3>3. Covers(locked[v], task[v]) BY <2>2 DEF ShelfInv, RowsAreLocked
    <3>4. Covers(locked[v], task[v])'
      <4>1. PICK t : t = task[v] OBVIOUS
      <4>2. task'[v] = t /\ locked'[v] = locked[v] BY <1>4, <2>2, <4>1
      <4>3. t.kind = "items" => items'[t.set] = items[t.set]
        <5>1. SUFFICES ASSUME t.kind = "items" PROVE items'[t.set] = items[t.set] OBVIOUS
        <5>2. Shelf!SetRow(t.set) \in locked[v] BY <3>3, <4>1, <5>1 DEF Covers
        <5>3. t.set # s BY <1>4, <2>1, <2>2, <5>2
        <5>4. t \in CatalogRequests /\ Shelf!WellFormed(t)
          BY <2>2, <4>1, TaskIsWellFormed DEF ShelfInv, Before
        <5>5. t.set \in Sets BY <5>1, <5>4 DEF Shelf!WellFormed
        <5> QED BY <1>6, <5>3, <5>5
      <4> QED BY <3>3, <4>1, <4>2, <4>3 DEF Covers, Shelf!Members
    <3> QED BY <3>2, <3>4
  <2> QED BY <1>3, <1>4, <2>2, OthersGoOn
<1>9. Shelf!DefinitionsAgree'
  <2>1. \A g \in Fields :
          /\ fields[g].kind = "choice" /\ fields[g].default # None => options[g][fields[g].default] = "on"
          /\ \A v \in Values : options[g][v] # "none" => fields[g].in /\ fields[g].kind = "choice"
    BY DEF ShelfInv, Shelf!DefinitionsAgree
  <2>2. ASSUME NEW r \in Sets
        PROVE  /\ \A f \in Fields : items'[r][f] # "out" => fields[f].in
               /\ \A f \in Fields : items'[r][f] = "required" => fields[f].shown
    <3>1. CASE r = s
      <4>1. ItemsStand(q) BY <1>3, <1>4 DEF Stands
      <4> QED BY <1>2, <1>6, <3>1, <4>1 DEF ItemsStand, Shelf!Members, Shelf!Required
    <3>2. CASE r # s
      <4>1. items'[r] = items[r] BY <1>6, <3>2
      <4> QED BY <4>1 DEF ShelfInv, Shelf!DefinitionsAgree, Shelf!Members, Shelf!Required
    <3> QED BY <3>1, <3>2
  <2>3. \A r \in Sets :
          /\ \A f \in Shelf!Members(items[r])' : fields[f].in
          /\ \A f \in Shelf!Required(items[r])' : fields[f].shown
    BY <2>2 DEF Shelf!Members, Shelf!Required
  <2> QED BY <1>3, <1>7, <2>1, <2>3, TypesAreOK DEF Shelf!DefinitionsAgree
<1>10. Shelf!HierarchyIsATree' BY <1>3, TreeSame
<1>11. FilledAreThere' /\ Shelf!MisfitsNeedARace'
  <2>1. SUFFICES ASSUME ~outdated' PROVE FilledAreThere' /\ Shelf!MisfitsNeedARace'
    BY DEF FilledAreThere, Shelf!MisfitsNeedARace
  <2>2. Shelf!MayReplace(q) /\ ~outdated BY <1>3, <1>4, <2>1 DEF Shelf!Allowed
  <2>3. \A a \in Assets : \A g \in Shelf!Filled(a) :
          /\ fields[g].in
          /\ values[a][g].kind = fields[g].kind
          /\ fields[g].kind = "choice" => options[g][values[a][g].value] # "none"
          /\ a \in aside \/ g \in Shelf!Members(Shelf!ItemsOf(Shelf!SetOf(a)))
    BY <2>2 DEF ShelfInv, FilledAreThere, Shelf!MisfitsNeedARace
  <2>4. \A a \in Assets : Shelf!Filled(a)' = Shelf!Filled(a) /\ Shelf!SetOf(a)' = Shelf!SetOf(a)
    BY <1>3 DEF Shelf!Filled, Shelf!SetOf, Shelf!Effective
  <2>5. ASSUME NEW a \in Assets, NEW g \in Shelf!Filled(a), a \notin aside'
        PROVE  g \in Shelf!Members(Shelf!ItemsOf(Shelf!SetOf(a)))'
    <3>1. ~archived[a] /\ a \notin aside BY <1>3, <2>5
    <3>2. g \in Shelf!Members(Shelf!ItemsOf(Shelf!SetOf(a))) BY <2>3, <3>1
    <3>3. CASE Shelf!SetOf(a) = s
      <4>1. a \in Shelf!UsersOf(s) BY <3>1, <3>3 DEF Shelf!UsersOf, Shelf!Live
      <4>2. g \in Shelf!Members(its)
        BY <1>2, <2>2, <4>1 DEF Shelf!MayReplace, Shelf!NoConflict
      <4>3. Shelf!SetOf(a)' = s /\ s # None
        BY <1>5, <2>4, <3>3, AdministrationConstants DEF Shelf!CatalogKeys
      <4> QED BY <1>6, <4>2, <4>3 DEF Shelf!Members, Shelf!ItemsOf
    <3>4. CASE Shelf!SetOf(a) # s
      <4>1. PICK r : r = Shelf!SetOf(a) OBVIOUS
      <4>2. Shelf!SetOf(a)' = r BY <2>4, <4>1
      <4>3. Shelf!ItemsOf(r)' = Shelf!ItemsOf(r)
        BY <1>3, <3>4, <4>1 DEF Shelf!ItemsOf, Shelf!Empty, ShelfInv, ShelfTypes
      <4> QED BY <3>2, <4>1, <4>2, <4>3 DEF Shelf!Members, Shelf!ItemsOf
    <3> QED BY <3>3, <3>4
  <2> QED BY <1>3, <2>3, <2>4, <2>5 DEF FilledAreThere, Shelf!MisfitsNeedARace
<1> QED BY <1>4, <1>7, <1>8, <1>9, <1>10, <1>11 DEF ShelfInv

\* A request that changes no definition and no department.
LEMMA DefinitionsWait ==
  ASSUME ShelfInv, NEW w \in Workers, Shelf!Done(w), UNCHANGED <<fields, options, items, parent, member>>
  PROVE  RowsAreLocked' /\ ChecksStand'
<1>1. \A v \in Workers : v # w => task'[v] = task[v] /\ locked'[v] = locked[v]
  BY RequestEnds DEF ShelfInv
<1>2. \A v \in Workers : v # w /\ Before(v) => Covers(locked[v], task[v])'
  BY <1>1 DEF ShelfInv, RowsAreLocked, Covers, Shelf!Members
<1> QED BY <1>2, OthersGoOn

\* Values that fit the set of their asset after a change of models or types.
LEMMA SetsChange ==
  ASSUME ShelfInv, UNCHANGED <<fields, options, items, values>>,
         ~outdated' => ~outdated,
         aside \subseteq aside',
         \A a \in Assets : ~outdated' /\ a \notin aside' =>
            \/ Shelf!SetOf(a)' = Shelf!SetOf(a)
            \/ Shelf!Filled(a) \subseteq Shelf!Members(Shelf!ItemsOf(Shelf!SetOf(a)))'
  PROVE  FilledAreThere' /\ Shelf!MisfitsNeedARace'
<1>1. SUFFICES ASSUME ~outdated' PROVE FilledAreThere' /\ Shelf!MisfitsNeedARace'
  BY DEF FilledAreThere, Shelf!MisfitsNeedARace
<1>2. \A a \in Assets : \A g \in Shelf!Filled(a) :
        /\ fields[g].in
        /\ values[a][g].kind = fields[g].kind
        /\ fields[g].kind = "choice" => options[g][values[a][g].value] # "none"
        /\ a \in aside \/ g \in Shelf!Members(Shelf!ItemsOf(Shelf!SetOf(a)))
  BY <1>1 DEF ShelfInv, FilledAreThere, Shelf!MisfitsNeedARace
<1>3. \A a \in Assets : Shelf!Filled(a)' = Shelf!Filled(a) BY DEF Shelf!Filled
<1>4. ASSUME NEW a \in Assets, NEW g \in Shelf!Filled(a), a \notin aside'
      PROVE  g \in Shelf!Members(Shelf!ItemsOf(Shelf!SetOf(a)))'
  <2>1. CASE Shelf!SetOf(a)' = Shelf!SetOf(a)
    <3>1. PICK s : s = Shelf!SetOf(a) OBVIOUS
    <3>2. g \in Shelf!Members(Shelf!ItemsOf(s)) BY <1>2, <1>4, <3>1
    <3>3. Shelf!SetOf(a)' = s BY <2>1, <3>1
    <3> QED BY <3>2, <3>3 DEF Shelf!Members, Shelf!ItemsOf, Shelf!Empty
  <2> QED BY <1>1, <1>4, <2>1
<1> QED BY <1>2, <1>3, <1>4 DEF FilledAreThere, Shelf!MisfitsNeedARace

LEMMA CommitModelStep ==
  ASSUME ShelfInv, NEW w \in Workers, Shelf!CommitModel(w) PROVE ShelfInv'
<1>1. PICK q : q = task[w] OBVIOUS
<1>2. PICK m, new : m = q.model /\ new = q.new OBVIOUS
<1>3. /\ stage[w] = "checked" /\ q.kind = "model"
      /\ own' = [own EXCEPT ![m] = new]
      /\ aside' = aside \cup {a \in Assets : archived[a]}
      /\ Shelf!Commit(w)
      /\ UNCHANGED <<fields, options, items, typeSet, values, archived, parent, member>>
  BY <1>1, <1>2 DEF Shelf!CommitModel, Shelf!At, Shelf!staff, Shelf!SetAside
<1>4. /\ Shelf!Done(w) /\ TasksGiven' /\ PlansFit' /\ OneHolder'
      /\ ~outdated' => ~outdated /\ Shelf!Allowed(q)
      /\ q \in CatalogRequests /\ Shelf!WellFormed(q)
  BY <1>1, <1>3, CommitEnds
<1>5. m \in Models /\ new \in Shelf!ModelRow BY <1>2, <1>3, <1>4 DEF Shelf!WellFormed
<1>6. /\ own' \in [Models -> Shelf!ModelRow] /\ own'[m] = new
      /\ \A n \in Models : n # m => own'[n] = own[n]
  BY <1>3, <1>5 DEF ShelfInv, ShelfTypes
<1>7. ShelfTypes' BY <1>3, <1>6, CommitEnds DEF ShelfInv, ShelfTypes
<1>8. ASSUME NEW a \in Assets, ~outdated', a \notin aside'
      PROVE  \/ Shelf!SetOf(a)' = Shelf!SetOf(a)
             \/ Shelf!Filled(a) \subseteq Shelf!Members(Shelf!ItemsOf(Shelf!SetOf(a)))'
  <2>1. Shelf!MayEditModel(q) /\ ~archived[a] BY <1>3, <1>4, <1>8 DEF Shelf!Allowed
  <2>2. Standard[a] = None \/ Standard[a] \in Models
    BY AdministrationConstants DEF Shelf!CatalogKeys
  <2>3. CASE Standard[a] = m /\ Standard[a] # None
    <3>1. Shelf!SetOf(a) = Shelf!Effective(own[m]) BY <2>3 DEF Shelf!SetOf
    <3>2. Shelf!SetOf(a)' = Shelf!Effective(new)
      BY <1>3, <1>6, <2>3 DEF Shelf!SetOf, Shelf!Effective
    <3>3. CASE Shelf!Effective(new) # Shelf!Effective(own[m])
      <4>1. Shelf!NoConflict({b \in Shelf!Live : Standard[b] = m}, Shelf!ItemsOf(Shelf!Effective(new)))
        BY <1>2, <2>1, <3>3 DEF Shelf!MayEditModel
      <4>2. Shelf!Filled(a) \subseteq Shelf!Members(Shelf!ItemsOf(Shelf!Effective(new)))
        BY <2>1, <2>3, <4>1 DEF Shelf!NoConflict, Shelf!Live
      <4>3. PICK s : s = Shelf!Effective(new) OBVIOUS
      <4> QED BY <1>3, <3>2, <4>2, <4>3 DEF Shelf!Members, Shelf!ItemsOf, Shelf!Empty
    <3> QED BY <3>1, <3>2, <3>3
  <2>4. CASE ~(Standard[a] = m /\ Standard[a] # None)
    BY <1>3, <1>6, <2>2, <2>4 DEF Shelf!SetOf, Shelf!Effective
  <2> QED BY <2>3, <2>4
<1>9. FilledAreThere' /\ Shelf!MisfitsNeedARace' BY <1>3, <1>4, <1>8, SetsChange
<1> QED BY <1>3, <1>4, <1>7, <1>9, DefinitionsWait, DefinitionsSame, TreeSame DEF ShelfInv

LEMMA CommitTypeStep ==
  ASSUME ShelfInv, NEW w \in Workers, Shelf!CommitType(w) PROVE ShelfInv'
<1>1. PICK q : q = task[w] OBVIOUS
<1>2. PICK t, s : t = q.type /\ s = q.set OBVIOUS
<1>3. /\ stage[w] = "checked" /\ q.kind = "type"
      /\ typeSet' = [typeSet EXCEPT ![t] = s]
      /\ aside' = aside \cup {a \in Assets : archived[a]}
      /\ Shelf!Commit(w)
      /\ UNCHANGED <<fields, options, items, own, values, archived, parent, member>>
  BY <1>1, <1>2 DEF Shelf!CommitType, Shelf!At, Shelf!staff, Shelf!SetAside
<1>4. /\ Shelf!Done(w) /\ TasksGiven' /\ PlansFit' /\ OneHolder'
      /\ ~outdated' => ~outdated /\ Shelf!Allowed(q)
      /\ q \in CatalogRequests /\ Shelf!WellFormed(q)
  BY <1>1, <1>3, CommitEnds
<1>5. t \in Types /\ s \in Sets \cup {None} BY <1>2, <1>3, <1>4 DEF Shelf!WellFormed
<1>6. /\ typeSet' \in [Types -> Sets \cup {None}] /\ typeSet'[t] = s
      /\ \A r \in Types : r # t => typeSet'[r] = typeSet[r]
  BY <1>3, <1>5 DEF ShelfInv, ShelfTypes
<1>7. ShelfTypes' BY <1>3, <1>6, CommitEnds DEF ShelfInv, ShelfTypes
<1>8. ASSUME NEW a \in Assets, ~outdated', a \notin aside'
      PROVE  \/ Shelf!SetOf(a)' = Shelf!SetOf(a)
             \/ Shelf!Filled(a) \subseteq Shelf!Members(Shelf!ItemsOf(Shelf!SetOf(a)))'
  <2>1. Shelf!MayEditType(q) /\ ~archived[a] BY <1>3, <1>4, <1>8 DEF Shelf!Allowed
  <2>2. Standard[a] = None \/ (Standard[a] \in Models /\ own[Standard[a]] \in Shelf!ModelRow)
    BY AdministrationConstants DEF Shelf!CatalogKeys, ShelfInv, ShelfTypes
  <2>3. CASE a \in Shelf!Affected(t)
    <3>1. Shelf!SetOf(a) = typeSet[t] /\ Shelf!SetOf(a)' = s
      BY <1>3, <1>6, <2>3 DEF Shelf!Affected, Shelf!SetOf, Shelf!Effective
    <3>2. CASE s # typeSet[t]
      <4>1. Shelf!Filled(a) \subseteq Shelf!Members(Shelf!ItemsOf(s))
        BY <1>2, <2>1, <2>3, <3>2 DEF Shelf!MayEditType, Shelf!NoConflict
      <4> QED BY <1>3, <3>1, <4>1 DEF Shelf!Members, Shelf!ItemsOf, Shelf!Empty
    <3> QED BY <3>1, <3>2
  <2>4. CASE a \notin Shelf!Affected(t)
    <3>1. CASE Standard[a] = None
      <4>1. Standalone[a] # t BY <2>1, <2>4, <3>1 DEF Shelf!Affected, Shelf!Live
      <4> QED BY <1>6, <3>1, <4>1, AdministrationConstants DEF Shelf!SetOf, Shelf!CatalogKeys
    <3>2. CASE Standard[a] # None
      <4>1. own[Standard[a]].set # None \/ own[Standard[a]].type # t
        BY <2>1, <2>4, <3>2 DEF Shelf!Affected, Shelf!Live
      <4>2. own[Standard[a]].type \in Types BY <2>2, <3>2 DEF Shelf!ModelRow
      <4> QED BY <1>3, <1>6, <3>2, <4>1, <4>2 DEF Shelf!SetOf, Shelf!Effective
    <3> QED BY <3>1, <3>2
  <2> QED BY <2>3, <2>4
<1>9. FilledAreThere' /\ Shelf!MisfitsNeedARace' BY <1>3, <1>4, <1>8, SetsChange
<1> QED BY <1>3, <1>4, <1>7, <1>9, DefinitionsWait, DefinitionsSame, TreeSame DEF ShelfInv

LEMMA CommitArchiveStep ==
  ASSUME ShelfInv, NEW w \in Workers, Shelf!CommitArchive(w) PROVE ShelfInv'
<1>1. PICK q : q = task[w] OBVIOUS
<1>2. /\ stage[w] = "checked" /\ q.kind = "archive"
      /\ archived' = [archived EXCEPT ![q.asset] = q.to]
      /\ Shelf!Commit(w)
      /\ UNCHANGED <<fields, options, items, typeSet, own, values, parent, member, aside>>
  BY <1>1 DEF Shelf!CommitArchive, Shelf!At, Shelf!staff, Shelf!catalog
<1>3. /\ Shelf!Done(w) /\ TasksGiven' /\ PlansFit' /\ OneHolder' /\ (~outdated' => ~outdated)
      /\ Shelf!WellFormed(q)
  BY <1>1, <1>2, CommitEnds
<1>4. archived' \in [Assets -> BOOLEAN]
  BY <1>2, <1>3 DEF ShelfInv, ShelfTypes, Shelf!WellFormed
<1>5. ShelfTypes' BY <1>2, <1>4, CommitEnds DEF ShelfInv, ShelfTypes
<1> QED BY <1>2, <1>3, <1>5, DefinitionsWait, DefinitionsSame, TreeSame, FitSame DEF ShelfInv

LEMMA CommitWriteStep ==
  ASSUME ShelfInv, NEW w \in Workers, Shelf!CommitWrite(w) PROVE ShelfInv'
<1>1. PICK q : q = task[w] OBVIOUS
<1>2. PICK a, new : a = q.asset /\ new = plan[w] OBVIOUS
<1>3. /\ stage[w] = "checked" /\ q.kind = "write"
      /\ \A f \in Fields : values[a][f] = None /\ new[f] # None => fields[f].in
      /\ values' = [values EXCEPT ![a] = new]
      /\ aside' = aside \ {a}
      /\ Shelf!Commit(w)
      /\ UNCHANGED <<fields, options, items, typeSet, own, archived, parent, member>>
  BY <1>1, <1>2 DEF Shelf!CommitWrite, Shelf!At, Shelf!staff, Shelf!catalog
<1>4. /\ Shelf!Done(w) /\ TasksGiven' /\ PlansFit' /\ OneHolder'
      /\ ~outdated' => ~outdated /\ Shelf!Allowed(q) /\ new = Shelf!PlanOf(q)
      /\ q \in CatalogRequests /\ Shelf!WellFormed(q)
  BY <1>1, <1>2, <1>3, CommitEnds
<1>5. a \in Assets BY <1>2, <1>3, <1>4 DEF Shelf!WellFormed
<1>6. new \in Shelf!ValueRow BY <1>1, <1>2, <1>3 DEF ShelfInv, PlansFit
<1>7. /\ values' \in [Assets -> Shelf!ValueRow] /\ values'[a] = new
      /\ \A b \in Assets : b # a => values'[b] = values[b]
  BY <1>3, <1>5, <1>6 DEF ShelfInv, ShelfTypes
<1>8. ShelfTypes' BY <1>3, <1>7, CommitEnds DEF ShelfInv, ShelfTypes
<1>9. FilledAreThere' /\ Shelf!MisfitsNeedARace'
  <2>1. SUFFICES ASSUME ~outdated' PROVE FilledAreThere' /\ Shelf!MisfitsNeedARace'
    BY DEF FilledAreThere, Shelf!MisfitsNeedARace
  <2>2. ~outdated /\ Shelf!MayWrite(q) /\ new = Shelf!Written(q)
    BY <1>3, <1>4, <2>1 DEF Shelf!Allowed, Shelf!PlanOf
  <2>3. \A b \in Assets : \A g \in Shelf!Filled(b) :
          /\ fields[g].in
          /\ values[b][g].kind = fields[g].kind
          /\ fields[g].kind = "choice" => options[g][values[b][g].value] # "none"
          /\ b \in aside \/ g \in Shelf!Members(Shelf!ItemsOf(Shelf!SetOf(b)))
    BY <2>2 DEF ShelfInv, FilledAreThere, Shelf!MisfitsNeedARace
  <2>4. \A b \in Assets :
          Shelf!Members(Shelf!ItemsOf(Shelf!SetOf(b)))' = Shelf!Members(Shelf!ItemsOf(Shelf!SetOf(b)))
    BY <1>3 DEF Shelf!Members, Shelf!ItemsOf, Shelf!SetOf, Shelf!Effective, Shelf!Empty
  <2>5. ASSUME NEW g \in Fields, new[g] # None
        PROVE  /\ fields[g].in
               /\ new[g].kind = fields[g].kind
               /\ fields[g].kind = "choice" => options[g][new[g].value] # "none"
               /\ g \in Shelf!Members(Shelf!ItemsOf(Shelf!SetOf(a)))
    <3>1. DOMAIN q.values \subseteq Shelf!Members(Shelf!ItemsOf(Shelf!SetOf(a)))
      BY <1>2, <2>2 DEF Shelf!MayWrite
    <3>2. fields[g].in
      <4>1. values[a][g] # None => g \in Shelf!Filled(a) BY DEF Shelf!Filled
      <4> QED BY <1>3, <1>5, <2>3, <2>5, <4>1
    <3>3. CASE g \in DOMAIN q.values
      <4>1. q.values[g] # None /\ new[g] = [kind |-> fields[g].kind, value |-> q.values[g]]
        BY <2>2, <2>5, <3>3 DEF Shelf!Written
      <4>2. Shelf!MayChoose(a, g, q.values[g]) BY <1>2, <2>2, <3>3, <4>1 DEF Shelf!MayWrite
      <4> QED BY <3>1, <3>2, <3>3, <4>1, <4>2 DEF Shelf!MayChoose
    <3>4. CASE g \notin DOMAIN q.values
      <4>1. new[g] = values[a][g] /\ g \in Shelf!Members(Shelf!ItemsOf(Shelf!SetOf(a)))
        BY <1>2, <2>2, <2>5, <3>4 DEF Shelf!Written
      <4>2. g \in Shelf!Filled(a) BY <2>5, <4>1 DEF Shelf!Filled
      <4> QED BY <1>5, <2>3, <3>2, <4>1, <4>2
    <3> QED BY <3>3, <3>4
  <2>6. ASSUME NEW b \in Assets, NEW g \in Fields, values'[b][g] # None
        PROVE  /\ fields[g].in
               /\ values'[b][g].kind = fields[g].kind
               /\ fields[g].kind = "choice" => options[g][values'[b][g].value] # "none"
               /\ b \in aside' \/ g \in Shelf!Members(Shelf!ItemsOf(Shelf!SetOf(b)))
    <3>1. CASE b = a BY <1>7, <2>5, <2>6, <3>1
    <3>2. CASE b # a
      <4>1. values'[b] = values[b] /\ (b \in aside => b \in aside') BY <1>3, <1>7, <3>2
      <4>2. g \in Shelf!Filled(b) BY <2>6, <4>1 DEF Shelf!Filled
      <4> QED BY <2>3, <4>1, <4>2
    <3> QED BY <3>1, <3>2
  <2>7. \A b \in Assets : \A g \in Shelf!Filled(b)' :
          /\ fields[g].in
          /\ values'[b][g].kind = fields[g].kind
          /\ fields[g].kind = "choice" => options[g][values'[b][g].value] # "none"
          /\ b \in aside' \/ g \in Shelf!Members(Shelf!ItemsOf(Shelf!SetOf(b)))
    BY <2>6 DEF Shelf!Filled
  <2> QED BY <1>3, <2>4, <2>7 DEF FilledAreThere, Shelf!MisfitsNeedARace
<1> QED BY <1>3, <1>4, <1>8, <1>9, DefinitionsWait, DefinitionsSame, TreeSame DEF ShelfInv

LEMMA CommitPersonStep ==
  ASSUME ShelfInv, NEW w \in Workers, Shelf!CommitPerson(w) PROVE ShelfInv'
<1>1. PICK q : q = task[w] OBVIOUS
<1>2. PICK d : d = q.to OBVIOUS
<1>3. /\ stage[w] = "checked" /\ q.kind = "person"
      /\ Shelf!DepartmentRow(d) \notin Shelf!Others(w) /\ d \in Shelf!There
      /\ member' = [member EXCEPT ![q.person] = d]
      /\ Shelf!Commit(w)
      /\ UNCHANGED <<fields, options, items, typeSet, own, values, archived, parent, aside>>
  BY <1>1, <1>2 DEF Shelf!CommitPerson, Shelf!At, Shelf!catalog
<1>4. /\ Shelf!Done(w) /\ TasksGiven' /\ PlansFit' /\ OneHolder' /\ (~outdated' => ~outdated)
      /\ Shelf!WellFormed(q)
      /\ \A v \in Workers : v # w => task'[v] = task[v] /\ locked'[v] = locked[v]
  BY <1>1, <1>3, CommitEnds
<1>5. /\ member' \in [People -> Departments \cup {None}]
      /\ \A p \in People : member'[p] = d \/ member'[p] = member[p]
  BY <1>2, <1>3, <1>4 DEF ShelfInv, ShelfTypes, Shelf!WellFormed
<1>6. ShelfTypes' BY <1>3, <1>5, CommitEnds DEF ShelfInv, ShelfTypes
<1>7. RowsAreLocked' /\ ChecksStand'
  <2>1. ASSUME NEW v \in Workers, v # w, Before(v)
        PROVE  /\ Covers(locked[v], task[v])'
               /\ \A e \in Departments : Shelf!DepartmentRow(e) \in locked[v] =>
                    \A p \in People : member'[p] = e => member[p] = e
    <3>1. Shelf!DepartmentRow(d) \notin locked[v] BY <1>3, <2>1 DEF Shelf!Others
    <3>2. Covers(locked[v], task[v]) BY <2>1 DEF ShelfInv, RowsAreLocked
    <3>3. Covers(locked[v], task[v])' BY <1>3, <1>4, <2>1, <3>2 DEF Covers, Shelf!Members
    <3> QED BY <1>5, <3>1, <3>3
  <2> QED BY <1>3, <1>4, <2>1, OthersGoOn
<1>8. Shelf!HierarchyIsATree'
  <2>1. Shelf!There' = Shelf!There BY <1>3 DEF Shelf!There
  <2>2. Shelf!Acyclic(parent)' /\ \A e \in Shelf!There : parent[e] \in Shelf!There \cup {None}
    BY <1>3 DEF ShelfInv, Shelf!HierarchyIsATree, Shelf!Acyclic
  <2>3. \A p \in People : member'[p] \in Shelf!There \cup {None}
    BY <1>3, <1>5 DEF ShelfInv, Shelf!HierarchyIsATree
  <2> QED BY <1>3, <2>1, <2>2, <2>3 DEF Shelf!HierarchyIsATree
<1> QED BY <1>3, <1>4, <1>6, <1>7, <1>8, DefinitionsSame, FitSame DEF ShelfInv

\* Moving a department below one that it is not above leaves a tree.
LEMMA MovedIsATree ==
  ASSUME ShelfTypes, Shelf!HierarchyIsATree, NEW d \in Departments, NEW t,
         t \in Shelf!There \cup {None},
         d \in Shelf!There /\ t # None => d \notin Shelf!Line(t)
  PROVE  Shelf!Acyclic([parent EXCEPT ![d] = t])
<1> DEFINE up == [parent EXCEPT ![d] = t]
<1>1. /\ up[d] = t /\ \A e \in Departments : e # d => up[e] = parent[e]
  BY DEF ShelfTypes
<1>2. None \notin Departments BY AdministrationConstants DEF Shelf!CatalogKeys
<1> HIDE DEF up
<1>3. ASSUME NEW group \in (SUBSET Departments) \ {{}} PROVE \E e \in group : up[e] \notin group
  <2>1. \A some \in (SUBSET Departments) \ {{}} : \E e \in some : parent[e] \notin some
    BY DEF Shelf!HierarchyIsATree, Shelf!Acyclic
  <2>2. CASE d \notin group \/ t \notin group
    <3>1. CASE d \notin group BY <1>1, <2>1, <3>1
    <3>2. CASE d \in group /\ t \notin group BY <1>1, <3>2
    <3> QED BY <2>2, <3>1, <3>2
  <2>3. CASE d \in group /\ t \in group /\ d \notin Shelf!There
    <3>1. t \in Shelf!There /\ t # d BY <1>2, <2>3
    <3>2. group \ {d} \in (SUBSET Departments) \ {{}} BY <2>3, <3>1
    <3>3. PICK e \in group \ {d} : parent[e] \notin group \ {d} BY <2>1, <3>2
    <3>4. parent[e] # d
      <4>1. CASE e \in Shelf!There
        BY <1>2, <2>3, <4>1 DEF Shelf!HierarchyIsATree
      <4>2. CASE e \notin Shelf!There
        BY <4>2, AdministrationConstants DEF Shelf!There, Shelf!CatalogKeys
      <4> QED BY <4>1, <4>2
    <3> QED BY <1>1, <3>3, <3>4
  <2>4. CASE d \in group /\ t \in group /\ d \in Shelf!There
    <3>1. d \notin Shelf!Line(t) BY <1>2, <2>4
    <3>2. PICK above \in SUBSET Departments :
            /\ t \in above /\ \A f \in above : parent[f] \in Departments => parent[f] \in above
            /\ d \notin above
      BY <3>1 DEF Shelf!Line
    <3>3. group \cap above \in (SUBSET Departments) \ {{}} BY <2>4, <3>2
    <3>4. PICK e \in group \cap above : parent[e] \notin group \cap above BY <2>1, <3>3
    <3>5. e # d /\ parent[e] \notin group BY <3>2, <3>4
    <3> QED BY <1>1, <3>4, <3>5
  <2> QED BY <2>2, <2>3, <2>4
<1>4. Shelf!Acyclic(up) BY <1>3 DEF Shelf!Acyclic
<1> QED BY <1>4 DEF up

\* What the three kinds of change make of the tree.
LEMMA HierarchyStays ==
  ASSUME ShelfInv, NEW q \in CatalogRequests, Shelf!WellFormed(q), Stands(q),
         q.kind \in {"department", "close", "import"}, parent' = Shelf!Reparented(q), member' = member
  PROVE  /\ parent' \in [Departments -> Departments \cup {None, "gone"}]
         /\ Shelf!HierarchyIsATree'
<1>1. /\ parent \in [Departments -> Departments \cup {None, "gone"}]
      /\ member \in [People -> Departments \cup {None}]
      /\ Shelf!HierarchyIsATree
  BY DEF ShelfInv, ShelfTypes
<1>2. None \notin Departments /\ "gone" \notin Departments /\ None # "gone"
  BY AdministrationConstants DEF Shelf!CatalogKeys
<1>3. CASE q.kind = "department"
  <2>1. PICK d, t : d = q.department /\ t = q.to OBVIOUS
  <2>2. d \in Departments /\ Shelf!MayReparent(q) BY <1>3, <2>1 DEF Stands, Shelf!WellFormed
  <2>3. t \in Shelf!There \cup {None} /\ (d \in Shelf!There /\ t # None => d \notin Shelf!Line(t))
    BY <2>1, <2>2 DEF Shelf!MayReparent
  <2>4. parent' = [parent EXCEPT ![d] = t] BY <1>3, <2>1 DEF Shelf!Reparented
  <2>5. Shelf!Acyclic(parent') BY <2>2, <2>3, <2>4, MovedIsATree DEF ShelfInv
  <2>6. \A e \in Departments : parent'[e] = IF e = d THEN t ELSE parent[e]
    BY <1>1, <2>2, <2>4
  <2>7. t \in Departments \cup {None} BY <2>3 DEF Shelf!There
  <2>8. Shelf!There' = Shelf!There \cup {d}
    BY <1>2, <2>2, <2>6, <2>7 DEF Shelf!There
  <2>9. parent' \in [Departments -> Departments \cup {None, "gone"}] BY <1>1, <2>4, <2>7
  <2>10. \A e \in Shelf!There' : parent'[e] \in Shelf!There' \cup {None}
    <3>1. \A e \in Shelf!There : e \in Departments /\ parent[e] \in Shelf!There \cup {None}
      BY <1>1 DEF Shelf!HierarchyIsATree, Shelf!There
    <3> QED BY <2>2, <2>3, <2>6, <2>8, <3>1
  <2>11. \A p \in People : member[p] \in Shelf!There' \cup {None}
    BY <1>1, <2>8 DEF Shelf!HierarchyIsATree
  <2> QED BY <2>5, <2>9, <2>10, <2>11 DEF Shelf!HierarchyIsATree, Shelf!Acyclic
<1>4. CASE q.kind = "close"
  <2>1. PICK d : d = q.department OBVIOUS
  <2>2. d \in Departments /\ Shelf!MayClose(q) BY <1>4, <2>1 DEF Stands, Shelf!WellFormed
  <2>3. parent' = [parent EXCEPT ![d] = "gone"] BY <1>4, <2>1 DEF Shelf!Reparented
  <2>4. \A e \in Departments : parent'[e] = IF e = d THEN "gone" ELSE parent[e]
    BY <1>1, <2>2, <2>3
  <2>5. Shelf!There' = Shelf!There \ {d} BY <2>2, <2>4 DEF Shelf!There
  <2>6. Shelf!Acyclic(parent')
    BY <1>1, <1>2, <2>4 DEF Shelf!HierarchyIsATree, Shelf!Acyclic
  <2>7. (\A p \in People : member[p] # d) /\ \A e \in Departments : parent[e] # d
    BY <2>1, <2>2 DEF Shelf!MayClose
  <2>8. \A e \in Shelf!There' : parent'[e] \in Shelf!There' \cup {None}
    <3>1. \A e \in Shelf!There : e \in Departments /\ parent[e] \in Shelf!There \cup {None}
      BY <1>1 DEF Shelf!HierarchyIsATree, Shelf!There
    <3> QED BY <2>4, <2>5, <2>7, <3>1
  <2>9. \A p \in People : member[p] \in Shelf!There' \cup {None}
    BY <1>1, <2>5, <2>7 DEF Shelf!HierarchyIsATree
  <2>10. parent' \in [Departments -> Departments \cup {None, "gone"}] BY <1>1, <2>3
  <2> QED BY <2>6, <2>8, <2>9, <2>10 DEF Shelf!HierarchyIsATree, Shelf!Acyclic
<1>5. CASE q.kind = "import"
  <2>2. Shelf!MayImport(q) BY <1>5 DEF Stands
  <2>3. PICK some \in SUBSET Departments : q.rows \in [some -> Departments \cup {None}]
    BY <1>5 DEF Shelf!WellFormed, Shelf!Part
  <2>4. parent' = Shelf!Proposed(q.rows) BY <1>5 DEF Shelf!Reparented
  <2>5. \A d \in Departments :
          parent'[d] = IF d \notin some \/ (q.rows[d] = None /\ d \in Shelf!There)
                       THEN parent[d] ELSE q.rows[d]
    BY <2>3, <2>4 DEF Shelf!Proposed
  <2>6. parent' \in [Departments -> Departments \cup {None, "gone"}]
    <3>1. \A d \in Departments : parent'[d] \in Departments \cup {None, "gone"}
      BY <1>1, <2>3, <2>5
    <3> QED BY <2>4, <3>1 DEF Shelf!Proposed
  <2>7. Shelf!There' = Shelf!There \cup some
    <3>1. \A d \in Departments : parent'[d] # "gone" <=> (parent[d] # "gone" \/ d \in some)
      BY <1>1, <1>2, <2>3, <2>5 DEF Shelf!There
    <3> QED BY <3>1 DEF Shelf!There
  <2>8. \A d \in some : q.rows[d] \in Shelf!There \cup some \cup {None}
    BY <2>2, <2>3 DEF Shelf!MayImport
  <2>9. \A d \in Shelf!There' : parent'[d] \in Shelf!There' \cup {None}
    <3>1. \A d \in Shelf!There : parent[d] \in Shelf!There \cup {None}
      BY <1>1 DEF Shelf!HierarchyIsATree
    <3>2. \A d \in Shelf!There' : d \in Departments BY DEF Shelf!There
    <3> QED BY <2>5, <2>7, <2>8, <3>1, <3>2
  <2>10. Shelf!Acyclic(parent') BY <2>2, <2>4 DEF Shelf!MayImport
  <2>11. \A p \in People : member[p] \in Shelf!There' \cup {None}
    BY <1>1, <2>7 DEF Shelf!HierarchyIsATree
  <2> QED BY <2>6, <2>9, <2>10, <2>11 DEF Shelf!HierarchyIsATree, Shelf!Acyclic
<1> QED BY <1>3, <1>4, <1>5

LEMMA CommitDepartmentsStep ==
  ASSUME ShelfInv, NEW w \in Workers, Shelf!CommitDepartments(w) PROVE ShelfInv'
<1>1. PICK q : q = task[w] OBVIOUS
<1>2. /\ stage[w] = "checked" /\ q.kind \in {"department", "close", "import"}
      /\ parent' = Shelf!Reparented(q)
      /\ Shelf!Commit(w)
      /\ UNCHANGED <<fields, options, items, typeSet, own, values, archived, member, aside>>
  BY <1>1 DEF Shelf!CommitDepartments, Shelf!At, Shelf!catalog
<1>3. /\ Shelf!Done(w) /\ TasksGiven' /\ PlansFit' /\ OneHolder' /\ (~outdated' => ~outdated)
      /\ q \in CatalogRequests /\ Shelf!WellFormed(q)
      /\ Covers(locked[w], q) /\ Stands(q)
      /\ \A v \in Workers : v # w =>
            task'[v] = task[v] /\ locked'[v] = locked[v] /\ locked[v] \cap locked[w] = {}
  BY <1>1, <1>2, CommitEnds
<1>4. /\ parent' \in [Departments -> Departments \cup {None, "gone"}]
      /\ Shelf!HierarchyIsATree'
  BY <1>2, <1>3, HierarchyStays
<1>5. ShelfTypes' BY <1>2, <1>4, CommitEnds DEF ShelfInv, ShelfTypes
<1>6. RowsAreLocked' /\ ChecksStand'
  <2>1. <<"settings">> \in locked[w] BY <1>2, <1>3 DEF Covers
  <2>2. ASSUME NEW v \in Workers, v # w, Before(v)
        PROVE  Covers(locked[v], task[v])' /\ <<"settings">> \notin locked[v]
    <3>1. Covers(locked[v], task[v]) BY <2>2 DEF ShelfInv, RowsAreLocked
    <3>2. Covers(locked[v], task[v])' BY <1>2, <1>3, <2>2, <3>1 DEF Covers, Shelf!Members
    <3> QED BY <1>3, <2>1, <2>2, <3>2
  <2> QED BY <1>2, <1>3, <2>2, OthersGoOn
<1> QED BY <1>2, <1>3, <1>4, <1>5, <1>6, DefinitionsSame, FitSame DEF ShelfInv

-----------------------------------------------------------------------------
(* Catalog: the theorem                                                      *)

\* A catalog that fits together at first.
LEMMA ShelfStart ==
  ASSUME Shelf!Init, Shelf!CatalogIsSound PROVE ShelfInv
<1>1. Shelf!CatalogKeys BY AdministrationConstants
<1>2. ShelfTypes
  BY <1>1 DEF Shelf!Init, Shelf!CatalogKeys, Shelf!CatalogIsSound, Shelf!DefinitionsAgree,
    Shelf!TypeOK, ShelfTypes
<1>3. \A w \in Workers : stage[w] = "idle" /\ locked[w] = {} BY DEF Shelf!Init
<1>4. TasksGiven /\ PlansFit /\ OneHolder /\ RowsAreLocked /\ ChecksStand
  BY <1>3 DEF TasksGiven, PlansFit, OneHolder, RowsAreLocked, ChecksStand, Before
<1>5. FilledAreThere
  BY <1>1 DEF FilledAreThere, Shelf!Init, Shelf!CatalogKeys, Shelf!FieldDefinition, Shelf!Filled
<1> QED BY <1>2, <1>4, <1>5 DEF ShelfInv, Shelf!CatalogIsSound

LEMMA ShelfNext == ASSUME ShelfInv, Shelf!Next PROVE ShelfInv'
<1>1. PICK w \in Workers :
        \/ Shelf!Begin(w) \/ Shelf!Lock(w) \/ Shelf!Check(w) \/ Shelf!Abort(w)
        \/ Shelf!CommitField(w) \/ Shelf!CommitOption(w) \/ Shelf!CommitItems(w)
        \/ Shelf!CommitModel(w) \/ Shelf!CommitType(w) \/ Shelf!CommitWrite(w)
        \/ Shelf!CommitArchive(w) \/ Shelf!CommitDepartments(w) \/ Shelf!CommitPerson(w)
  BY DEF Shelf!Next
<1> QED BY <1>1, EditBegins, EditLocks, EditChecked, EditAborts, CommitFieldStep, CommitOptionStep,
     CommitItemsStep, CommitModelStep, CommitTypeStep, CommitWriteStep, CommitArchiveStep,
     CommitDepartmentsStep, CommitPersonStep

\* What the catalog's variables show is also what they show a step later, if they
\* do not change.
LEMMA ShelfStays == ASSUME ShelfInv, UNCHANGED catalogVars PROVE ShelfInv'
<1>1. /\ UNCHANGED <<fields, options, items, typeSet, own, values, archived, parent, member>>
      /\ UNCHANGED <<task, stage, locked, plan, aside, outdated, edits>>
  BY DEF catalogVars
<1>2. ShelfTypes' BY <1>1 DEF ShelfInv, ShelfTypes
<1>3. TasksGiven' /\ PlansFit' /\ OneHolder' BY <1>1 DEF ShelfInv, TasksGiven, PlansFit, OneHolder
<1>4. Shelf!DefinitionsAgree' /\ Shelf!HierarchyIsATree' /\ FilledAreThere' /\ Shelf!MisfitsNeedARace'
  BY <1>1, <1>2, DefinitionsSame, TreeSame, FitSame
<1>5. RowsAreLocked' /\ ChecksStand'
  <2>1. CASE Workers = {} BY <2>1 DEF RowsAreLocked, ChecksStand
  <2>2. CASE Workers # {}
    <3>1. PICK w \in Workers : TRUE BY <2>2
    <3>2. Before(w)' => Covers(locked[w], task[w])'
      BY <1>1 DEF ShelfInv, RowsAreLocked, Before, Covers, Shelf!Members
    <3>3. stage'[w] = "checked" => Stands(task'[w]) BY <1>1 DEF ShelfInv, ChecksStand
    <3> QED BY <1>1, <3>1, <3>2, <3>3, OthersWait DEF Shelf!catalog, Shelf!staff
  <2> QED BY <2>1, <2>2
<1> QED BY <1>2, <1>3, <1>4, <1>5 DEF ShelfInv

\* Whatever fields, options, sets, models, types, values, departments and persons
\* there are, and whoever edits them at once: if the catalog fits together at
\* first, definitions keep agreeing, a value comes to misfit only by a race with a
\* change of its definition, and the departments remain a tree.
THEOREM CatalogStaysSound == Spec /\ CatalogIsSound => []CatalogIsSound
<1> DEFINE Inv == study = "catalog" => ShelfInv
<1>1. Init /\ CatalogIsSound => Inv
  BY ShelfStart DEF Init, CatalogIsSound
<1>2. Inv /\ [Next]_vars => Inv'
  <2>1. SUFFICES ASSUME Inv, [Next]_vars, study' = "catalog" PROVE ShelfInv' OBVIOUS
  <2>2. CASE CatalogStep BY <2>1, <2>2, ShelfNext DEF CatalogStep
  <2>3. CASE AccountStep \/ DoorStep \/ SettingStep
    BY <2>1, <2>3, ShelfStays DEF AccountStep, DoorStep, SettingStep
  <2>4. CASE UNCHANGED vars BY <2>1, <2>4, ShelfStays DEF vars
  <2> QED BY <2>1, <2>2, <2>3, <2>4 DEF Next
<1>3. Inv => CatalogIsSound BY DEF ShelfInv, CatalogIsSound, Shelf!CatalogIsSound
<1> QED BY <1>1, <1>2, <1>3, PTL DEF Spec

-----------------------------------------------------------------------------
(* Accounts: the invariant                                                   *)

Whole(r) ==
    /\ r = [f \in Staff!Columns |-> r[f]]
    /\ r.name \in Names /\ r.revision \in Nat /\ r.for \in People \cup {None}

\* Rows of accounts, of identities, of processes.
StaffTypes ==
    /\ account = [u \in Ids |-> account[u]]
    /\ \A u \in Ids : account[u] = Staff!Absent \/ account[u] = Staff!Gone \/ Whole(account[u])
    /\ \A i \in identity :
        /\ i = [entry |-> i.entry, attr |-> i.attr, user |-> i.user, login |-> i.login]
        /\ i.user \in Ids
    /\ person = [p \in People |-> person[p]]
    /\ job = [w \in Workers |-> job[w]] /\ held = [w \in Workers |-> held[w]]
    /\ pc \in [Workers -> {"idle", "begun", "checked", "asking", "provisioning", "inserting", "saving"}]

\* A form shows what an account was at a revision: what it is now, if that is
\* still its revision.
FormFits(shown) ==
    \A u \in DOMAIN shown :
        /\ u \in Ids
        /\ account[u] = Staff!Gone \/
            /\ Whole(account[u])
            /\ shown[u].revision \in Nat /\ shown[u].revision <= account[u].revision
            /\ shown[u].revision = account[u].revision => shown[u].content = Staff!Content(u)

\* The identities that a login expects are there, perhaps by another name, and it
\* has met their users.
ExpectedAreThere(q) ==
    \A i \in q.expected :
        /\ i.user \in q.met
        /\ \E j \in identity : j.user = i.user /\ j.entry = i.entry /\ j.attr = i.attr

\* What a process carries along.
Carries(w) ==
    LET q == job[w] IN
    /\ {"kind", "form"} \subseteq DOMAIN q /\ q = [f \in DOMAIN q |-> q[f]]
    /\ FormFits(q.form)
    /\ pc[w] = "begun" /\ q.kind \in {"edit", "profile"} => DOMAIN q.set \subseteq Staff!Editable
    /\ pc[w] = "begun" /\ q.kind = "create" => q.name \in Names /\ q.person \in People \cup {None}
    /\ pc[w] = "begun" /\ q.kind = "login" =>
        DOMAIN q = {"kind", "name", "form", "base"} /\ q.name \in Names
    /\ pc[w] = "checked" => q.name \in Names /\ q.person \in People \cup {None}
    /\ pc[w] \in {"asking", "provisioning", "inserting"} =>
        {"name", "attr", "met", "tries"} \subseteq DOMAIN q /\ q.name \in Names /\ q.tries \in {1, 2}
    /\ pc[w] = "asking" =>
        /\ {"expected", "endpoint"} \subseteq DOMAIN q /\ {"entry", "text"} \cap DOMAIN q = {}
        /\ ExpectedAreThere(q)
    /\ pc[w] \in {"provisioning", "inserting"} => {"entry", "text"} \subseteq DOMAIN q

ProcessesCarry == \A w \in Workers : pc[w] # "idle" => Carries(w)

\* A person for whom an account is created is locked, and has none.
PersonsAreLocked ==
    /\ \A w \in Workers : held[w] \subseteq People
    /\ \A v, w \in Workers : v # w => held[v] \cap held[w] = {}
    /\ \A w \in Workers : pc[w] = "checked" /\ job[w].person # None =>
        job[w].person \in held[w] /\ person[job[w].person] = None

StaffInv == StaffTypes /\ ProcessesCarry /\ PersonsAreLocked /\ Staff!AccountsHold

-----------------------------------------------------------------------------
(* Accounts: rows and forms                                                  *)

\* What a step may do to a row: nothing, remove it, insert it, or give it a new
\* revision.
Evolves(old, new) ==
    \/ new = old \/ new = Staff!Gone \/ old = Staff!Absent
    \/ Whole(old) /\ Whole(new) /\ new.revision = old.revision + 1

RowsEvolve == \A u \in Ids : Evolves(account[u], account'[u])

IdentitiesStay ==
    \A i \in identity : \E j \in identity' : j.user = i.user /\ j.entry = i.entry /\ j.attr = i.attr

LEMMA StaffConstants == Staff!AccountKeys BY AdministrationConstants

\* The three kinds of row.
LEMMA RowKinds ==
  ASSUME StaffTypes, NEW u \in Ids
  PROVE  /\ u \in Staff!There <=> Whole(account[u])
         /\ Whole(account[u]) => account[u] # Staff!Absent /\ account[u] # Staff!Gone
<1>1. None \notin Names /\ "gone" \notin Names BY StaffConstants DEF Staff!AccountKeys
<1>2. account[u] = Staff!Absent \/ account[u] = Staff!Gone \/ Whole(account[u]) BY DEF StaffTypes
<1>3. Staff!Absent.name = None /\ Staff!Gone.name = "gone" BY DEF Staff!Absent, Staff!Gone
<1>4. Whole(account[u]) => account[u].name \in Names BY DEF Whole
<1> QED BY <1>1, <1>2, <1>3, <1>4 DEF Staff!There

\* A form fits what becomes of the rows it shows.
LEMMA FormsFit ==
  ASSUME StaffTypes, RowsEvolve, NEW shown, FormFits(shown) PROVE FormFits(shown)'
<1>1. SUFFICES ASSUME NEW u \in DOMAIN shown
      PROVE  /\ u \in Ids
             /\ account'[u] = Staff!Gone \/
                  /\ Whole(account'[u])
                  /\ shown[u].revision \in Nat /\ shown[u].revision <= account'[u].revision
                  /\ shown[u].revision = account'[u].revision => shown[u].content = Staff!Content(u)'
  BY DEF FormFits, Whole, Staff!Gone
<1>2. /\ u \in Ids
      /\ account[u] = Staff!Gone \/
            /\ Whole(account[u])
            /\ shown[u].revision \in Nat /\ shown[u].revision <= account[u].revision
            /\ shown[u].revision = account[u].revision => shown[u].content = Staff!Content(u)
  BY DEF FormFits
<1>3. Evolves(account[u], account'[u]) BY <1>2 DEF RowsEvolve
<1>4. Staff!Gone # Staff!Absent
  <2>1. Staff!Absent.name = None /\ Staff!Gone.name = "gone" BY DEF Staff!Absent, Staff!Gone
  <2> QED BY <2>1, StaffConstants DEF Staff!AccountKeys
<1>5. ~Whole(Staff!Gone) /\ ~Whole(Staff!Absent)
  <2>1. Staff!Absent.name = None /\ Staff!Gone.name = "gone" BY DEF Staff!Absent, Staff!Gone
  <2> QED BY <2>1, StaffConstants DEF Staff!AccountKeys, Whole
<1>6. CASE account'[u] = Staff!Gone BY <1>2, <1>6
<1>7. CASE account'[u] = account[u] BY <1>2, <1>7 DEF Staff!Content
<1>8. CASE Whole(account[u]) /\ Whole(account'[u]) /\ account'[u].revision = account[u].revision + 1
  <2>1. account[u].revision \in Nat BY <1>8 DEF Whole
  <2>2. shown[u].revision \in Nat /\ shown[u].revision <= account[u].revision BY <1>2, <1>5, <1>8
  <2>3. shown[u].revision <= account'[u].revision /\ shown[u].revision # account'[u].revision
    BY <1>8, <2>1, <2>2
  <2> QED BY <1>2, <1>8, <2>2, <2>3
<1> QED BY <1>2, <1>3, <1>4, <1>5, <1>6, <1>7, <1>8 DEF Evolves

\* What the others carry along stands.
LEMMA OthersCarry ==
  ASSUME StaffTypes, ProcessesCarry, RowsEvolve, IdentitiesStay, NEW w \in Workers,
         \A v \in Workers : v # w => job'[v] = job[v] /\ pc'[v] = pc[v],
         pc'[w] # "idle" => Carries(w)'
  PROVE  ProcessesCarry'
<1>1. ASSUME NEW v \in Workers, v # w, pc[v] # "idle" PROVE Carries(v)'
  <2>1. Carries(v) BY <1>1 DEF ProcessesCarry
  <2>2. PICK q : q = job[v] OBVIOUS
  <2>3. job'[v] = q /\ pc'[v] = pc[v] BY <1>1, <2>2
  <2>4. FormFits(q.form)'
    <3>1. PICK shown : shown = q.form OBVIOUS
    <3>2. FormFits(shown) BY <2>1, <2>2, <3>1 DEF Carries
    <3>3. FormFits(shown)' BY <3>2, FormsFit
    <3> QED BY <3>1, <3>3 DEF FormFits
  <2>5. ExpectedAreThere(q) => ExpectedAreThere(q)'
    BY DEF ExpectedAreThere, IdentitiesStay
  <2>6. FormFits(job[v].form)' BY <2>3, <2>4 DEF FormFits
  <2>7. ExpectedAreThere(job[v]) => ExpectedAreThere(job[v])'
    BY <2>2, <2>3, <2>5 DEF ExpectedAreThere
  <2> QED BY <2>1, <2>2, <2>3, <2>6, <2>7 DEF Carries
<1> QED BY <1>1 DEF ProcessesCarry

\* The end of a request.
LEMMA StaffDone ==
  ASSUME StaffTypes, NEW w \in Workers, Staff!Done(w)
  PROVE  /\ job' = [v \in Workers |-> job'[v]] /\ held' = [v \in Workers |-> held'[v]]
         /\ pc' \in [Workers -> {"idle", "begun", "checked", "asking", "provisioning", "inserting", "saving"}]
         /\ pc'[w] = "idle" /\ held'[w] = {}
         /\ \A v \in Workers : v # w => job'[v] = job[v] /\ pc'[v] = pc[v] /\ held'[v] = held[v]
<1>1. /\ pc' = [pc EXCEPT ![w] = "idle"] /\ job' = [job EXCEPT ![w] = Staff!AccountIdle]
      /\ held' = [held EXCEPT ![w] = {}]
  BY DEF Staff!Done
<1> QED BY <1>1 DEF StaffTypes

\* Persons stay locked while no process gets to the second half of a creation.
LEMMA LocksStay ==
  ASSUME PersonsAreLocked, NEW w \in Workers,
         \A v \in Workers : v # w => job'[v] = job[v] /\ pc'[v] = pc[v] /\ held'[v] = held[v],
         held'[w] \subseteq held[w], pc'[w] # "checked",
         \A v \in Workers : v # w => \A p \in held[v] \cap People : person[p] = None => person'[p] = None
  PROVE  PersonsAreLocked'
BY DEF PersonsAreLocked

\* An account keeps its name and its person.
LEMMA RowIsReplaced ==
  ASSUME StaffTypes, Staff!AccountsAreSound, NEW u \in Staff!There, NEW new, Whole(new),
         new.name = account[u].name, new.for = account[u].for,
         account' = [account EXCEPT ![u] = new], person' = person
  PROVE  /\ account' = [v \in Ids |-> account'[v]]
         /\ \A v \in Ids : account'[v] = Staff!Absent \/ account'[v] = Staff!Gone \/ Whole(account'[v])
         /\ account'[u] = new /\ \A v \in Ids : v # u => account'[v] = account[v]
         /\ Staff!There' = Staff!There
         /\ \A n : Staff!Named(n)' = Staff!Named(n)
         /\ \A v \in Staff!There : Staff!Named(account'[v].name) = {v}
         /\ \A v \in Staff!There : account'[v].for # None => person[account'[v].for] = v
<1>1. u \in Ids BY DEF Staff!There
<1>2. account'[u] = new /\ \A v \in Ids : v # u => account'[v] = account[v]
  BY <1>1 DEF StaffTypes
<1>3. account' = [v \in Ids |-> account'[v]] BY <1>1 DEF StaffTypes
<1>4. \A v \in Ids : account'[v].name = account[v].name BY <1>2
<1>5. Staff!There' = Staff!There BY <1>4 DEF Staff!There
<1>6. \A n : Staff!Named(n)' = Staff!Named(n) BY <1>4, <1>5 DEF Staff!Named, Staff!There
<1>7. \A v \in Staff!There : v \in Ids /\ account'[v].name = account[v].name /\ account'[v].for = account[v].for
  BY <1>2, <1>4 DEF Staff!There
<1>8. /\ \A v \in Staff!There : Staff!Named(account[v].name) = {v}
      /\ \A v \in Staff!There : account[v].for # None => person[account[v].for] = v
  BY DEF Staff!AccountsAreSound
<1>9. \A v \in Staff!There : Staff!Named(account'[v].name) = {v}
  BY <1>7, <1>8
<1> QED BY <1>2, <1>3, <1>5, <1>6, <1>7, <1>8, <1>9 DEF StaffTypes

\* The row that is put has the next revision, or is the one that was there.
LEMMA RevisedIsWhole ==
  ASSUME StaffTypes, NEW u \in Staff!There, NEW new, Whole(new),
         new.revision = account[u].revision
  PROVE  LET put == Staff!Revised(account[u], new) IN
         /\ Whole(put) /\ put.name = new.name /\ put.for = new.for /\ put.password = new.password
         /\ Evolves(account[u], put)
<1> DEFINE put == Staff!Revised(account[u], new)
<1>1. Whole(account[u]) BY RowKinds DEF Staff!There
<1>2. DOMAIN new = Staff!Columns BY DEF Whole
<1>3. CASE new = account[u]
  <2>1. put = [new EXCEPT !.revision = new.revision] BY <1>3 DEF Staff!Revised
  <2>2. put = new BY <1>2, <2>1 DEF Whole, Staff!Columns
  <2> QED BY <1>3, <2>2 DEF Evolves
<1>4. CASE new # account[u]
  <2>1. put = [new EXCEPT !.revision = account[u].revision + 1] BY <1>4 DEF Staff!Revised
  <2>2. DOMAIN put = Staff!Columns /\ put = [f \in Staff!Columns |-> put[f]] BY <1>2, <2>1 DEF Whole
  <2>3. /\ put.revision = account[u].revision + 1
        /\ put.name = new.name /\ put.for = new.for /\ put.password = new.password
    BY <1>2, <2>1 DEF Staff!Columns
  <2>4. Whole(put) BY <1>1, <2>2, <2>3 DEF Whole
  <2> QED BY <1>1, <2>3, <2>4 DEF Evolves
<1> QED BY <1>3, <1>4

\* What remains true of accounts when a row is put.
LEMMA AccountIsPut ==
  ASSUME StaffTypes, Staff!AccountsAreSound, NEW u \in Staff!There, NEW new, Whole(new),
         new.name = account[u].name, new.for = account[u].for, new.revision = account[u].revision,
         Staff!Put(u, new), person' = person
  PROVE  /\ account' = [v \in Ids |-> account'[v]]
         /\ \A v \in Ids : account'[v] = Staff!Absent \/ account'[v] = Staff!Gone \/ Whole(account'[v])
         /\ RowsEvolve
         /\ account'[u].password = new.password /\ \A v \in Ids : v # u => account'[v] = account[v]
         /\ Staff!There' = Staff!There
         /\ \A n : Staff!Named(n)' = Staff!Named(n)
         /\ \A v \in Staff!There : Staff!Named(account'[v].name) = {v}
         /\ \A v \in Staff!There : account'[v].for # None => person[account'[v].for] = v
<1>1. PICK put : put = Staff!Revised(account[u], new) OBVIOUS
<1>2. /\ Whole(put) /\ put.name = new.name /\ put.for = new.for /\ put.password = new.password
      /\ Evolves(account[u], put)
  BY <1>1, RevisedIsWhole
<1>3. account' = [account EXCEPT ![u] = put] BY <1>1 DEF Staff!Put
<1>4. /\ account' = [v \in Ids |-> account'[v]]
      /\ \A v \in Ids : account'[v] = Staff!Absent \/ account'[v] = Staff!Gone \/ Whole(account'[v])
      /\ account'[u] = put /\ \A v \in Ids : v # u => account'[v] = account[v]
      /\ Staff!There' = Staff!There
      /\ \A n : Staff!Named(n)' = Staff!Named(n)
      /\ \A v \in Staff!There : Staff!Named(account'[v].name) = {v}
      /\ \A v \in Staff!There : account'[v].for # None => person[account'[v].for] = v
  BY <1>2, <1>3, RowIsReplaced
<1>5. RowsEvolve
  <2>1. ASSUME NEW v \in Ids PROVE Evolves(account[v], account'[v])
    <3>1. CASE v = u BY <1>2, <1>4, <3>1
    <3>2. CASE v # u BY <1>4, <3>2 DEF Evolves
    <3> QED BY <3>1, <3>2
  <2> QED BY <2>1 DEF RowsEvolve
<1> QED BY <1>2, <1>4, <1>5

\* The same when identities and persons stay as they are.
LEMMA SoundAfterPut ==
  ASSUME StaffTypes, Staff!AccountsAreSound, NEW u \in Staff!There, NEW new, Whole(new),
         new.name = account[u].name, new.for = account[u].for, new.revision = account[u].revision,
         (\E i \in identity : i.user = u) => new.password = "none",
         Staff!Put(u, new), person' = person, identity' = identity
  PROVE  Staff!AccountsAreSound'
<1>1. /\ account'[u].password = new.password /\ \A v \in Ids : v # u => account'[v] = account[v]
      /\ Staff!There' = Staff!There
      /\ \A n : Staff!Named(n)' = Staff!Named(n)
      /\ \A v \in Staff!There : Staff!Named(account'[v].name) = {v}
      /\ \A v \in Staff!There : account'[v].for # None => person[account'[v].for] = v
  BY AccountIsPut
<1>2. /\ \A i \in identity : i.user \in Staff!There /\ account[i.user].password = "none"
      /\ \A i, j \in identity : i # j =>
            i.user # j.user /\ <<i.entry, i.attr>> # <<j.entry, j.attr>>
      /\ \A p \in People : person[p] \in Staff!There \cup {None}
  BY DEF Staff!AccountsAreSound
<1>3. \A i \in identity : account'[i.user].password = "none"
  BY <1>1, <1>2 DEF Staff!There
<1>4. ASSUME NEW v \in Staff!There' PROVE Staff!Named(account[v].name)' = {v}
  <2>1. PICK n : n = account'[v].name OBVIOUS
  <2>2. Staff!Named(n)' = {v} BY <1>1, <2>1
  <2> QED BY <2>1, <2>2 DEF Staff!Named
<1> QED BY <1>1, <1>2, <1>3, <1>4 DEF Staff!AccountsAreSound

-----------------------------------------------------------------------------
(* Accounts: edits                                                           *)

\* Every step leaves these.
LEMMA StaffFrame ==
  ASSUME StaffInv, NEW w \in Workers,
         account' = [v \in Ids |-> account'[v]],
         \A v \in Ids : account'[v] = Staff!Absent \/ account'[v] = Staff!Gone \/ Whole(account'[v]),
         RowsEvolve, IdentitiesStay,
         \A i \in identity' :
            /\ i = [entry |-> i.entry, attr |-> i.attr, user |-> i.user, login |-> i.login]
            /\ i.user \in Ids,
         person' = [p \in People |-> person'[p]],
         job' = [v \in Workers |-> job'[v]] /\ held' = [v \in Workers |-> held'[v]],
         pc' \in [Workers -> {"idle", "begun", "checked", "asking", "provisioning", "inserting", "saving"}],
         \A v \in Workers : v # w => job'[v] = job[v] /\ pc'[v] = pc[v],
         pc'[w] # "idle" => Carries(w)',
         PersonsAreLocked', Staff!AccountsHold'
  PROVE  StaffInv'
<1>1. StaffTypes' BY DEF StaffTypes, Whole, Staff!Absent, Staff!Gone
<1>2. ProcessesCarry' BY OthersCarry DEF StaffInv
<1> QED BY <1>1, <1>2 DEF StaffInv

\* A step that changes no account, no identity and no person.
LEMMA StaffQuiet ==
  ASSUME StaffInv, NEW w \in Workers, UNCHANGED <<account, identity, person, blind>>,
         job' = [v \in Workers |-> job'[v]] /\ held' = [v \in Workers |-> held'[v]],
         pc' \in [Workers -> {"idle", "begun", "checked", "asking", "provisioning", "inserting", "saving"}],
         \A v \in Workers : v # w => job'[v] = job[v] /\ pc'[v] = pc[v],
         pc'[w] # "idle" => Carries(w)',
         PersonsAreLocked', ~unreal'
  PROVE  StaffInv'
<1>1. RowsEvolve /\ IdentitiesStay BY DEF RowsEvolve, Evolves, IdentitiesStay
<1>2. Staff!AccountsHold'
  BY DEF StaffInv, Staff!AccountsHold, Staff!AccountEditsSeeEveryChange, Staff!CollisionsAreReal,
    Staff!AccountsAreSound, Staff!There, Staff!Named
<1>3. /\ account' = [v \in Ids |-> account'[v]]
      /\ \A v \in Ids : account'[v] = Staff!Absent \/ account'[v] = Staff!Gone \/ Whole(account'[v])
      /\ \A i \in identity' :
            /\ i = [entry |-> i.entry, attr |-> i.attr, user |-> i.user, login |-> i.login]
            /\ i.user \in Ids
      /\ person' = [p \in People |-> person'[p]]
  BY DEF StaffInv, StaffTypes
<1> QED BY <1>1, <1>2, <1>3, StaffFrame

\* An edit that is accepted: its form showed what it replaces.
LEMMA AccountIsEdited ==
  ASSUME StaffInv, NEW w \in Workers, pc[w] # "idle", NEW u \in Staff!There, NEW set,
         DOMAIN set \subseteq Staff!Editable,
         Staff!Current(w, u), Staff!Put(u, Staff!Edited(u, set)), Staff!Overwrite(w, u),
         UNCHANGED <<identity, person, unreal>>
  PROVE  /\ account' = [v \in Ids |-> account'[v]]
         /\ \A v \in Ids : account'[v] = Staff!Absent \/ account'[v] = Staff!Gone \/ Whole(account'[v])
         /\ RowsEvolve /\ Staff!AccountsHold'
<1>1. StaffTypes /\ Staff!AccountsAreSound /\ ~blind /\ ~unreal
  BY DEF StaffInv, Staff!AccountsHold, Staff!AccountEditsSeeEveryChange, Staff!CollisionsAreReal
<1>2. u \in Ids /\ Whole(account[u]) BY <1>1, RowKinds DEF Staff!There
<1>3. PICK new : new = Staff!Edited(u, set) OBVIOUS
<1>4. DOMAIN account[u] = Staff!Columns BY <1>2 DEF Whole
<1>5. new = [f \in Staff!Columns |-> IF f \in DOMAIN set THEN set[f] ELSE account[u][f]]
  BY <1>3, <1>4 DEF Staff!Edited
<1>6. /\ new.name = account[u].name /\ new.for = account[u].for
      /\ new.revision = account[u].revision /\ new.password = account[u].password
  BY <1>5 DEF Staff!Columns, Staff!Editable
<1>7. Whole(new)
  <2>1. new = [f \in Staff!Columns |-> new[f]] BY <1>5
  <2> QED BY <1>2, <1>6, <2>1 DEF Whole
<1>8. (\E i \in identity : i.user = u) => new.password = "none"
  BY <1>1, <1>6 DEF Staff!AccountsAreSound
<1>9. Staff!AccountsAreSound' BY <1>1, <1>3, <1>6, <1>7, <1>8, SoundAfterPut
<1>10. ~blind'
  <2>1. FormFits(job[w].form) BY DEF StaffInv, ProcessesCarry, Carries
  <2>2. u \in DOMAIN job[w].form /\ job[w].form[u].revision = account[u].revision
    BY DEF Staff!Current
  <2>3. account[u] # Staff!Gone BY <1>1, <1>2, RowKinds
  <2>4. job[w].form[u].content = Staff!Content(u) BY <2>1, <2>2, <2>3 DEF FormFits
  <2> QED BY <1>1, <2>4 DEF Staff!Overwrite
<1>11. /\ account' = [v \in Ids |-> account'[v]]
       /\ \A v \in Ids : account'[v] = Staff!Absent \/ account'[v] = Staff!Gone \/ Whole(account'[v])
       /\ RowsEvolve
  BY <1>1, <1>3, <1>6, <1>7, AccountIsPut
<1> QED BY <1>1, <1>9, <1>10, <1>11
     DEF Staff!AccountsHold, Staff!AccountEditsSeeEveryChange, Staff!CollisionsAreReal

\* The same at the end of a request.
LEMMA EditEnds ==
  ASSUME StaffInv, NEW w \in Workers, Staff!Done(w), UNCHANGED <<identity, person>>,
         account' = [v \in Ids |-> account'[v]],
         \A v \in Ids : account'[v] = Staff!Absent \/ account'[v] = Staff!Gone \/ Whole(account'[v]),
         RowsEvolve, Staff!AccountsHold'
  PROVE  StaffInv'
<1>1. /\ job' = [v \in Workers |-> job'[v]] /\ held' = [v \in Workers |-> held'[v]]
      /\ pc' \in [Workers -> {"idle", "begun", "checked", "asking", "provisioning", "inserting", "saving"}]
      /\ pc'[w] = "idle" /\ held'[w] = {}
      /\ \A v \in Workers : v # w => job'[v] = job[v] /\ pc'[v] = pc[v] /\ held'[v] = held[v]
  BY StaffDone DEF StaffInv
<1>2. PersonsAreLocked' BY <1>1, LocksStay DEF StaffInv
<1>3. IdentitiesStay BY DEF IdentitiesStay
<1>4. /\ person' = [p \in People |-> person'[p]]
      /\ \A i \in identity' :
            /\ i = [entry |-> i.entry, attr |-> i.attr, user |-> i.user, login |-> i.login]
            /\ i.user \in Ids
  BY DEF StaffInv, StaffTypes
<1> QED BY <1>1, <1>2, <1>3, <1>4, StaffFrame

LEMMA EditAccountStep ==
  ASSUME StaffInv, NEW w \in Workers, Staff!EditAccount(w) PROVE StaffInv'
<1>1. PICK q : q = job[w] OBVIOUS
<1>2. /\ pc[w] = "begun" /\ q.kind = "edit"
      /\ q.user \in Staff!There /\ Staff!Current(w, q.user)
      /\ Staff!Put(q.user, Staff!Edited(q.user, q.set)) /\ Staff!Overwrite(w, q.user)
      /\ Staff!Done(w) /\ UNCHANGED <<identity, person, unreal>>
  BY <1>1 DEF Staff!EditAccount, Staff!At, Staff!MayEdit
<1>3. DOMAIN q.set \subseteq Staff!Editable BY <1>1, <1>2 DEF StaffInv, ProcessesCarry, Carries
<1>4. PICK u, set : u = q.user /\ set = q.set OBVIOUS
<1> QED BY <1>2, <1>3, <1>4, AccountIsEdited, EditEnds

LEMMA EditProfileStep ==
  ASSUME StaffInv, NEW w \in Workers, Staff!EditProfile(w) PROVE StaffInv'
<1>1. PICK q : q = job[w] OBVIOUS
<1>2. /\ pc[w] = "begun" /\ q.kind = "profile"
      /\ q.user \in Staff!There /\ Staff!Current(w, q.user)
      /\ Staff!Put(q.user, Staff!Edited(q.user, q.set)) /\ Staff!Overwrite(w, q.user)
      /\ Staff!Done(w) /\ UNCHANGED <<identity, person, unreal>>
  BY <1>1 DEF Staff!EditProfile, Staff!At
<1>3. DOMAIN q.set \subseteq Staff!Editable BY <1>1, <1>2 DEF StaffInv, ProcessesCarry, Carries
<1>4. PICK u, set : u = q.user /\ set = q.set OBVIOUS
<1> QED BY <1>2, <1>3, <1>4, AccountIsEdited, EditEnds

LEMMA BatchStep ==
  ASSUME StaffInv, NEW w \in Workers, Staff!BatchAccount(w) PROVE StaffInv'
<1>1. PICK q, u, set : q = job[w] /\ u = Head(q.users) /\ set = [active |-> q.active] OBVIOUS
<1>2. /\ pc[w] = "begun" /\ q.kind = "batch"
      /\ \/ /\ u \in Staff!There /\ Staff!Current(w, u)
            /\ Staff!Put(u, Staff!Edited(u, set)) /\ Staff!Overwrite(w, u)
         \/ UNCHANGED <<account, blind>>
      /\ \/ job' = [job EXCEPT ![w].users = Tail(@)] /\ UNCHANGED <<pc, held>>
         \/ Staff!Done(w)
      /\ UNCHANGED <<identity, person, unreal>>
  BY <1>1 DEF Staff!BatchAccount, Staff!At, Staff!MayEdit
<1>3. DOMAIN set \subseteq Staff!Editable BY <1>1 DEF Staff!Editable
<1>4. /\ account' = [v \in Ids |-> account'[v]]
      /\ \A v \in Ids : account'[v] = Staff!Absent \/ account'[v] = Staff!Gone \/ Whole(account'[v])
      /\ RowsEvolve /\ Staff!AccountsHold'
  <2>1. CASE UNCHANGED <<account, blind>>
    BY <1>2, <2>1 DEF StaffInv, StaffTypes, RowsEvolve, Evolves, Staff!AccountsHold,
      Staff!AccountEditsSeeEveryChange, Staff!CollisionsAreReal, Staff!AccountsAreSound,
      Staff!There, Staff!Named
  <2>2. CASE /\ u \in Staff!There /\ Staff!Current(w, u)
             /\ Staff!Put(u, Staff!Edited(u, set)) /\ Staff!Overwrite(w, u)
    <3>1. PICK v \in Staff!There : v = u BY <2>2
    <3> QED BY <1>2, <1>3, <2>2, <3>1, AccountIsEdited
  <2> QED BY <1>2, <2>1, <2>2
<1>5. CASE Staff!Done(w) BY <1>2, <1>4, <1>5, EditEnds
<1>6. CASE job' = [job EXCEPT ![w].users = Tail(@)] /\ UNCHANGED <<pc, held>>
  <2>1. /\ job' = [v \in Workers |-> job'[v]] /\ held' = [v \in Workers |-> held'[v]]
        /\ \A v \in Workers : v # w => job'[v] = job[v] /\ pc'[v] = pc[v]
        /\ job'[w] = [q EXCEPT !.users = Tail(q.users)]
    BY <1>1, <1>6 DEF StaffInv, StaffTypes
  <2>2. pc' \in [Workers -> {"idle", "begun", "checked", "asking", "provisioning", "inserting", "saving"}]
    BY <1>6 DEF StaffInv, StaffTypes
  <2>3. IdentitiesStay BY <1>2 DEF IdentitiesStay
  <2>4. Carries(w)'
    <3>1. Carries(w) BY <1>2 DEF StaffInv, ProcessesCarry
    <3>2. PICK shown : shown = q.form OBVIOUS
    <3>3. FormFits(shown)' BY <1>1, <1>4, <3>1, <3>2, FormsFit DEF StaffInv, Carries
    <3>4. PICK r : r = [q EXCEPT !.users = Tail(q.users)] OBVIOUS
    <3>5. {"kind", "form"} \subseteq DOMAIN q /\ q = [f \in DOMAIN q |-> q[f]]
      BY <1>1, <3>1 DEF Carries
    <3>6. /\ DOMAIN r = DOMAIN q /\ r = [f \in DOMAIN r |-> r[f]]
          /\ r.kind = "batch" /\ r.form = shown
      BY <1>2, <3>2, <3>4, <3>5
    <3>7. job'[w] = r /\ pc'[w] = "begun" BY <1>2, <1>6, <2>1, <3>4
    <3>8. FormFits(job[w].form)' BY <3>3, <3>6, <3>7 DEF FormFits
    <3> QED BY <3>5, <3>6, <3>7, <3>8 DEF Carries
  <2>5. PersonsAreLocked'
    BY <1>2, <1>6, <2>1 DEF StaffInv, PersonsAreLocked
  <2>6. /\ person' = [p \in People |-> person'[p]]
        /\ \A i \in identity' :
              /\ i = [entry |-> i.entry, attr |-> i.attr, user |-> i.user, login |-> i.login]
              /\ i.user \in Ids
    BY <1>2 DEF StaffInv, StaffTypes
  <2> QED BY <1>4, <2>1, <2>2, <2>3, <2>4, <2>5, <2>6, StaffFrame
<1> QED BY <1>2, <1>5, <1>6

LEMMA SetPasswordStep ==
  ASSUME StaffInv, NEW w \in Workers, Staff!SetPassword(w) PROVE StaffInv'
<1>1. PICK u, word :
        /\ u \in Staff!There /\ Staff!LocalPassword(u)
        /\ Staff!Put(u, [account[u] EXCEPT !.password = word])
        /\ Staff!Done(w) /\ UNCHANGED <<identity, person, blind, unreal>>
  <2>1. PICK q : q = job[w] OBVIOUS
  <2> QED BY <2>1 DEF Staff!SetPassword, Staff!seen
<1>2. StaffTypes /\ Staff!AccountsAreSound BY DEF StaffInv, Staff!AccountsHold
<1>3. PICK new : new = [account[u] EXCEPT !.password = word] OBVIOUS
<1>4. Whole(account[u]) BY <1>1, <1>2, RowKinds DEF Staff!There
<1>5. /\ Whole(new) /\ new.name = account[u].name /\ new.for = account[u].for
      /\ new.revision = account[u].revision
  <2>1. DOMAIN account[u] = Staff!Columns BY <1>4 DEF Whole
  <2>2. new = [f \in Staff!Columns |-> new[f]] BY <1>3, <2>1
  <2>3. /\ new.name = account[u].name /\ new.for = account[u].for
        /\ new.revision = account[u].revision
    BY <1>3, <2>1 DEF Staff!Columns
  <2> QED BY <1>4, <2>2, <2>3 DEF Whole
<1>6. ~\E i \in identity : i.user = u BY <1>1 DEF Staff!LocalPassword, Staff!Managed
<1>7. Staff!AccountsAreSound' BY <1>1, <1>2, <1>3, <1>5, <1>6, SoundAfterPut
<1>8. /\ account' = [v \in Ids |-> account'[v]]
      /\ \A v \in Ids : account'[v] = Staff!Absent \/ account'[v] = Staff!Gone \/ Whole(account'[v])
      /\ RowsEvolve
  BY <1>1, <1>2, <1>3, <1>5, AccountIsPut
<1>9. Staff!AccountsHold'
  BY <1>1, <1>7 DEF StaffInv, Staff!AccountsHold, Staff!AccountEditsSeeEveryChange, Staff!CollisionsAreReal
<1> QED BY <1>1, <1>8, <1>9, EditEnds

\* A removed account had no identity, and leaves no person behind that names it.
LEMMA DeleteAccountStep ==
  ASSUME StaffInv, NEW w \in Workers, Staff!DeleteAccount(w) PROVE StaffInv'
<1>1. PICK u :
        /\ u \in Staff!There /\ ~Staff!Managed(u)
        /\ account' = [account EXCEPT ![u] = Staff!Gone]
        /\ person' = [p \in People |-> IF person[p] = u THEN None ELSE person[p]]
        /\ Staff!Done(w) /\ UNCHANGED <<identity, blind, unreal>>
  BY DEF Staff!DeleteAccount, Staff!seen
<1>2. StaffTypes /\ Staff!AccountsAreSound BY DEF StaffInv, Staff!AccountsHold
<1>3. u \in Ids BY <1>1 DEF Staff!There
<1>4. account'[u] = Staff!Gone /\ \A v \in Ids : v # u => account'[v] = account[v]
  BY <1>1, <1>2, <1>3 DEF StaffTypes
<1>5. /\ account' = [v \in Ids |-> account'[v]]
      /\ \A v \in Ids : account'[v] = Staff!Absent \/ account'[v] = Staff!Gone \/ Whole(account'[v])
      /\ RowsEvolve
  BY <1>1, <1>2, <1>3, <1>4 DEF StaffTypes, RowsEvolve, Evolves
<1>6. Staff!There' = Staff!There \ {u}
  <2>1. Staff!Gone.name \notin Names BY StaffConstants DEF Staff!Gone, Staff!AccountKeys
  <2> QED BY <1>4, <2>1 DEF Staff!There
<1>7. Staff!AccountsAreSound'
  <2>1. \A i \in identity : i.user \in Staff!There /\ i.user # u /\ account[i.user].password = "none"
    BY <1>1, <1>2 DEF Staff!AccountsAreSound, Staff!Managed
  <2>2. \A i \in identity : i.user \in Staff!There' /\ account'[i.user].password = "none"
    BY <1>4, <1>6, <2>1 DEF Staff!There
  <2>3. \A i, j \in identity : i # j =>
            i.user # j.user /\ <<i.entry, i.attr>> # <<j.entry, j.attr>>
    BY <1>2 DEF Staff!AccountsAreSound
  <2>4. ASSUME NEW v \in Staff!There'
        PROVE  /\ Staff!Named(account[v].name)' = {v}
               /\ account'[v].for # None => person'[account'[v].for] = v
    <3>1. v \in Staff!There /\ v # u /\ v \in Ids /\ account'[v] = account[v]
      BY <1>4, <1>6, <2>4 DEF Staff!There
    <3>2. PICK n : n = account[v].name OBVIOUS
    <3>3. Staff!Named(n) = {v} BY <1>2, <3>1, <3>2 DEF Staff!AccountsAreSound
    <3>4. Staff!Named(n)' = {v}
      <4>1. \A x \in Staff!There' : x \in Staff!There /\ account'[x] = account[x]
        BY <1>4, <1>6 DEF Staff!There
      <4> QED BY <2>4, <3>1, <3>2, <3>3, <4>1 DEF Staff!Named
    <3>5. account[v].for # None => account[v].for \in People /\ person[account[v].for] = v
      <4>1. Whole(account[v]) BY <1>2, <3>1, RowKinds
      <4> QED BY <1>2, <3>1, <4>1 DEF Staff!AccountsAreSound, Whole
    <3>6. account'[v].for # None => person'[account'[v].for] = v BY <1>1, <3>1, <3>5
    <3> QED BY <3>1, <3>2, <3>4, <3>6 DEF Staff!Named
  <2>5. \A p \in People : person'[p] \in Staff!There' \cup {None}
    BY <1>1, <1>2, <1>6 DEF Staff!AccountsAreSound
  <2> QED BY <1>1, <2>2, <2>3, <2>4, <2>5 DEF Staff!AccountsAreSound
<1>8. Staff!AccountsHold'
  BY <1>1, <1>7 DEF StaffInv, Staff!AccountsHold, Staff!AccountEditsSeeEveryChange, Staff!CollisionsAreReal
<1>9. /\ job' = [v \in Workers |-> job'[v]] /\ held' = [v \in Workers |-> held'[v]]
      /\ pc' \in [Workers -> {"idle", "begun", "checked", "asking", "provisioning", "inserting", "saving"}]
      /\ pc'[w] = "idle" /\ held'[w] = {}
      /\ \A v \in Workers : v # w => job'[v] = job[v] /\ pc'[v] = pc[v] /\ held'[v] = held[v]
  BY <1>1, <1>2, StaffDone
<1>10. PersonsAreLocked'
  <2>1. \A p \in People : person[p] = None => person'[p] = None BY <1>1
  <2> QED BY <1>9, <2>1, LocksStay DEF StaffInv
<1>11. IdentitiesStay /\ person' = [p \in People |-> person'[p]]
  BY <1>1 DEF IdentitiesStay
<1>12. \A i \in identity' :
            /\ i = [entry |-> i.entry, attr |-> i.attr, user |-> i.user, login |-> i.login]
            /\ i.user \in Ids
  BY <1>1, <1>2 DEF StaffTypes
<1> QED BY <1>5, <1>8, <1>9, <1>10, <1>11, <1>12, StaffFrame

LEMMA CheckCreationStep ==
  ASSUME StaffInv, NEW w \in Workers, Staff!CheckCreation(w) PROVE StaffInv'
<1>1. PICK q : q = job[w] OBVIOUS
<1>2. /\ pc[w] = "begun" /\ q.kind = "create"
      /\ \A v \in Workers \ {w} : held[v] \cap Staff!PersonRow(q) = {}
      /\ q.person # None => person[q.person] = None
      /\ held' = [held EXCEPT ![w] = Staff!PersonRow(q)]
      /\ pc' = [pc EXCEPT ![w] = "checked"]
      /\ UNCHANGED <<account, identity, person, job, blind, unreal>>
  BY <1>1 DEF Staff!CheckCreation, Staff!At, Staff!Go, Staff!seen
<1>3. /\ job' = [v \in Workers |-> job'[v]] /\ held' = [v \in Workers |-> held'[v]]
      /\ pc' \in [Workers -> {"idle", "begun", "checked", "asking", "provisioning", "inserting", "saving"}]
      /\ pc'[w] = "checked" /\ held'[w] = Staff!PersonRow(q)
      /\ \A v \in Workers : v # w => pc'[v] = pc[v] /\ held'[v] = held[v]
  BY <1>2 DEF StaffInv, StaffTypes
<1>4. Carries(w) /\ q.name \in Names /\ q.person \in People \cup {None}
  BY <1>1, <1>2 DEF StaffInv, ProcessesCarry, Carries
<1>5. Carries(w)'
  <2>1. FormFits(job[w].form)' BY <1>2, <1>4 DEF Carries, FormFits, Whole, Staff!Content
  <2> QED BY <1>1, <1>2, <1>3, <1>4, <2>1 DEF Carries
<1>6. PersonsAreLocked'
  <2>1. Staff!PersonRow(q) \subseteq People /\ (q.person # None => q.person \in Staff!PersonRow(q))
    BY <1>4 DEF Staff!PersonRow
  <2> QED BY <1>1, <1>2, <1>3, <2>1 DEF StaffInv, PersonsAreLocked
<1>7. ~unreal' BY <1>2 DEF StaffInv, Staff!AccountsHold, Staff!CollisionsAreReal
<1> QED BY <1>2, <1>3, <1>5, <1>6, <1>7, StaffQuiet

-----------------------------------------------------------------------------
(* Accounts: new rows                                                        *)

LEMMA NewRowIsWhole ==
  ASSUME NEW name \in Names, NEW role, NEW text, NEW password, NEW for \in People \cup {None}
  PROVE  LET new == Staff!NewAccount(name, role, text, password, for) IN
         Whole(new) /\ new.name = name /\ new.for = for /\ new.password = password
<1> DEFINE new == Staff!NewAccount(name, role, text, password, for)
<1>1. new = [f \in Staff!Columns |-> new[f]] BY DEF Staff!NewAccount, Staff!Columns
<1>2. new.name = name /\ new.for = for /\ new.password = password /\ new.revision = 1
  BY DEF Staff!NewAccount
<1> QED BY <1>1, <1>2 DEF Whole

\* A row with a name that nobody has is inserted under a key that was not used.
LEMMA RowIsInserted ==
  ASSUME StaffTypes, Staff!AccountsAreSound, Staff!Fresh # {}, NEW u, u = Staff!NextId,
         NEW new, Whole(new), Staff!Named(new.name) = {},
         account' = [account EXCEPT ![u] = new]
  PROVE  /\ u \in Ids /\ u \notin Staff!There
         /\ account' = [v \in Ids |-> account'[v]]
         /\ \A v \in Ids : account'[v] = Staff!Absent \/ account'[v] = Staff!Gone \/ Whole(account'[v])
         /\ account'[u] = new /\ \A v \in Ids : v # u => account'[v] = account[v]
         /\ RowsEvolve
         /\ Staff!There' = Staff!There \cup {u}
         /\ \A v \in Staff!There' : Staff!Named(account[v].name)' = {v}
<1>1. u \in Ids /\ account[u].name = None BY DEF Staff!Fresh, Staff!NextId
<1>2. account[u] = Staff!Absent /\ u \notin Staff!There
  <2>1. None \notin Names /\ None # "gone" BY StaffConstants DEF Staff!AccountKeys
  <2>2. account[u] = Staff!Absent \/ account[u] = Staff!Gone \/ Whole(account[u])
    BY <1>1 DEF StaffTypes
  <2>3. Staff!Gone.name = "gone" BY DEF Staff!Gone
  <2> QED BY <1>1, <2>1, <2>2, <2>3 DEF Whole, Staff!There
<1>3. account'[u] = new /\ \A v \in Ids : v # u => account'[v] = account[v]
  BY <1>1 DEF StaffTypes
<1>4. account' = [v \in Ids |-> account'[v]] BY <1>1 DEF StaffTypes
<1>5. \A v \in Ids : account'[v] = Staff!Absent \/ account'[v] = Staff!Gone \/ Whole(account'[v])
  BY <1>3 DEF StaffTypes
<1>6. RowsEvolve BY <1>2, <1>3 DEF RowsEvolve, Evolves
<1>7. Staff!There' = Staff!There \cup {u}
  <2>1. new.name \in Names BY DEF Whole
  <2> QED BY <1>1, <1>3, <2>1 DEF Staff!There
<1>8. ASSUME NEW v \in Staff!There' PROVE Staff!Named(account[v].name)' = {v}
  <2>1. PICK n : n = account'[v].name OBVIOUS
  <2>2. \A x \in Staff!There : x \in Ids /\ x # u /\ account'[x] = account[x]
    BY <1>2, <1>3 DEF Staff!There
  <2>3. CASE v = u
    <3>1. n = new.name BY <1>3, <2>1, <2>3
    <3>2. \A x \in Staff!There : account[x].name # n BY <3>1 DEF Staff!Named
    <3> QED BY <1>3, <1>7, <2>1, <2>2, <2>3, <3>1, <3>2 DEF Staff!Named
  <2>4. CASE v # u
    <3>1. v \in Staff!There /\ account'[v] = account[v] BY <1>7, <1>8, <2>2, <2>4
    <3>2. Staff!Named(n) = {v} BY <2>1, <3>1 DEF Staff!AccountsAreSound
    <3>3. new.name # n BY <3>2
    <3> QED BY <1>3, <1>7, <2>1, <2>2, <3>1, <3>2, <3>3 DEF Staff!Named
  <2> QED BY <2>3, <2>4
<1> QED BY <1>1, <1>2, <1>3, <1>4, <1>5, <1>6, <1>7, <1>8

LEMMA CreateAccountStep ==
  ASSUME StaffInv, NEW w \in Workers, Staff!CreateAccount(w) PROVE StaffInv'
<1>1. PICK q, u : q = job[w] /\ u = Staff!NextId OBVIOUS
<1>2. PICK new : new = Staff!NewAccount(q.name, q.role, q.text, "given", q.person) OBVIOUS
<1>3. /\ pc[w] = "checked" /\ Staff!Fresh # {} /\ Staff!Named(q.name) = {}
      /\ account' = [account EXCEPT ![u] = new]
      /\ person' = [p \in People |-> IF p = q.person THEN u ELSE person[p]]
      /\ Staff!Done(w) /\ UNCHANGED <<identity, blind, unreal>>
  BY <1>1, <1>2 DEF Staff!CreateAccount, Staff!seen
<1>4. StaffTypes /\ Staff!AccountsAreSound /\ PersonsAreLocked
  BY DEF StaffInv, Staff!AccountsHold
<1>5. q.name \in Names /\ q.person \in People \cup {None}
  BY <1>1, <1>3 DEF StaffInv, ProcessesCarry, Carries
<1>6. Whole(new) /\ new.name = q.name /\ new.for = q.person
  BY <1>2, <1>5, NewRowIsWhole
<1>7. /\ u \in Ids /\ u \notin Staff!There
      /\ account' = [v \in Ids |-> account'[v]]
      /\ \A v \in Ids : account'[v] = Staff!Absent \/ account'[v] = Staff!Gone \/ Whole(account'[v])
      /\ account'[u] = new /\ \A v \in Ids : v # u => account'[v] = account[v]
      /\ RowsEvolve
      /\ Staff!There' = Staff!There \cup {u}
      /\ \A v \in Staff!There' : Staff!Named(account[v].name)' = {v}
  BY <1>1, <1>3, <1>4, <1>6, RowIsInserted
<1>8. q.person # None => q.person \in held[w] /\ person[q.person] = None
  BY <1>1, <1>3, <1>4 DEF PersonsAreLocked
<1>9. Staff!AccountsAreSound'
  <2>1. /\ \A i \in identity : i.user \in Staff!There /\ account[i.user].password = "none"
        /\ \A i, j \in identity : i # j =>
            i.user # j.user /\ <<i.entry, i.attr>> # <<j.entry, j.attr>>
        /\ \A v \in Staff!There : account[v].for # None => person[account[v].for] = v
        /\ \A p \in People : person[p] \in Staff!There \cup {None}
    BY <1>4 DEF Staff!AccountsAreSound
  <2>2. \A v \in Staff!There : v \in Ids /\ v # u /\ account'[v] = account[v]
    BY <1>7 DEF Staff!There
  <2>3. \A i \in identity : i.user \in Staff!There' /\ account'[i.user].password = "none"
    BY <1>7, <2>1, <2>2
  <2>4. ASSUME NEW v \in Staff!There', account'[v].for # None PROVE person'[account'[v].for] = v
    <3>1. CASE v = u
      <4>1. account'[v].for = q.person BY <1>6, <1>7, <3>1
      <4> QED BY <1>3, <1>5, <2>4, <3>1, <4>1
    <3>2. CASE v # u
      <4>1. v \in Staff!There /\ account'[v] = account[v] BY <1>7, <2>2, <2>4, <3>2
      <4>2. person[account[v].for] = v BY <2>1, <2>4, <4>1
      <4>3. account[v].for \in People
        <5>1. Whole(account[v]) BY <1>4, <2>2, <4>1, RowKinds
        <5> QED BY <2>4, <4>1, <5>1 DEF Whole
      <4>4. v # None BY <2>2, <4>1, StaffConstants DEF Staff!AccountKeys
      <4>5. account[v].for # q.person BY <1>8, <2>4, <4>1, <4>2, <4>4
      <4> QED BY <1>3, <4>1, <4>2, <4>3, <4>5
    <3> QED BY <3>1, <3>2
  <2>5. \A p \in People : person'[p] \in Staff!There' \cup {None} BY <1>3, <1>7, <2>1
  <2> QED BY <1>3, <1>7, <2>1, <2>3, <2>4, <2>5 DEF Staff!AccountsAreSound
<1>10. Staff!AccountsHold'
  BY <1>3, <1>9 DEF StaffInv, Staff!AccountsHold, Staff!AccountEditsSeeEveryChange, Staff!CollisionsAreReal
<1>11. /\ job' = [v \in Workers |-> job'[v]] /\ held' = [v \in Workers |-> held'[v]]
       /\ pc' \in [Workers -> {"idle", "begun", "checked", "asking", "provisioning", "inserting", "saving"}]
       /\ pc'[w] = "idle" /\ held'[w] = {}
       /\ \A v \in Workers : v # w => job'[v] = job[v] /\ pc'[v] = pc[v] /\ held'[v] = held[v]
  BY <1>3, <1>4, StaffDone
<1>12. PersonsAreLocked'
  <2>1. ASSUME NEW v \in Workers, v # w, NEW p \in held[v] \cap People, person[p] = None
        PROVE  person'[p] = None
    <3>1. p # q.person
      BY <1>4, <1>5, <1>8, <2>1, StaffConstants DEF PersonsAreLocked, Staff!AccountKeys
    <3> QED BY <1>3, <2>1, <3>1
  <2> QED BY <1>4, <1>11, <2>1, LocksStay
<1>13. IdentitiesStay /\ person' = [p \in People |-> person'[p]]
  BY <1>3 DEF IdentitiesStay
<1>14. \A i \in identity' :
            /\ i = [entry |-> i.entry, attr |-> i.attr, user |-> i.user, login |-> i.login]
            /\ i.user \in Ids
  BY <1>3, <1>4 DEF StaffTypes
<1> QED BY <1>7, <1>10, <1>11, <1>12, <1>13, <1>14, StaffFrame

LEMMA FirstLoginStep ==
  ASSUME StaffInv, NEW w \in Workers, Staff!FirstLogin(w) PROVE StaffInv'
<1>1. PICK q, u : q = job[w] /\ u = Staff!NextId OBVIOUS
<1>2. PICK new : new = Staff!NewAccount(q.name, "none", q.text, "none", None) OBVIOUS
<1>3. PICK mine : mine = [entry |-> q.entry, attr |-> q.attr, user |-> u, login |-> q.name] OBVIOUS
<1>4. /\ pc[w] = "inserting" /\ Staff!Fresh # {} /\ Staff!Named(q.name) = {} /\ Staff!Known(w) = {}
      /\ account' = [account EXCEPT ![u] = new]
      /\ identity' = identity \cup {mine}
      /\ Staff!Done(w) /\ UNCHANGED <<person, blind, unreal>>
  BY <1>1, <1>2, <1>3 DEF Staff!FirstLogin, Staff!seen
<1>5. StaffTypes /\ Staff!AccountsAreSound /\ PersonsAreLocked
  BY DEF StaffInv, Staff!AccountsHold
<1>6. q.name \in Names
  BY <1>1, <1>4 DEF StaffInv, ProcessesCarry, Carries
<1>7. Whole(new) /\ new.name = q.name /\ new.for = None /\ new.password = "none"
  BY <1>2, <1>6, NewRowIsWhole
<1>8. /\ u \in Ids /\ u \notin Staff!There
      /\ account' = [v \in Ids |-> account'[v]]
      /\ \A v \in Ids : account'[v] = Staff!Absent \/ account'[v] = Staff!Gone \/ Whole(account'[v])
      /\ account'[u] = new /\ \A v \in Ids : v # u => account'[v] = account[v]
      /\ RowsEvolve
      /\ Staff!There' = Staff!There \cup {u}
      /\ \A v \in Staff!There' : Staff!Named(account[v].name)' = {v}
  BY <1>1, <1>4, <1>5, <1>7, RowIsInserted
<1>9. Staff!AccountsAreSound'
  <2>1. /\ \A i \in identity : i.user \in Staff!There /\ account[i.user].password = "none"
        /\ \A i, j \in identity : i # j =>
            i.user # j.user /\ <<i.entry, i.attr>> # <<j.entry, j.attr>>
        /\ \A v \in Staff!There : account[v].for # None => person[account[v].for] = v
        /\ \A p \in People : person[p] \in Staff!There \cup {None}
    BY <1>5 DEF Staff!AccountsAreSound
  <2>2. \A v \in Staff!There : v \in Ids /\ v # u /\ account'[v] = account[v]
    BY <1>8 DEF Staff!There
  <2>3. mine.user = u /\ mine.entry = q.entry /\ mine.attr = q.attr BY <1>3
  <2>4. \A i \in identity' : i.user \in Staff!There' /\ account'[i.user].password = "none"
    BY <1>4, <1>7, <1>8, <2>1, <2>2, <2>3
  <2>5. \A i \in identity : i.user # mine.user /\ <<i.entry, i.attr>> # <<mine.entry, mine.attr>>
    BY <1>1, <1>4, <1>8, <2>1, <2>3 DEF Staff!Known
  <2>6. \A i, j \in identity' : i # j =>
            i.user # j.user /\ <<i.entry, i.attr>> # <<j.entry, j.attr>>
    BY <1>4, <2>1, <2>5
  <2>7. \A v \in Staff!There' : account'[v].for # None => person[account'[v].for] = v
    BY <1>7, <1>8, <2>1, <2>2
  <2>8. \A p \in People : person[p] \in Staff!There' \cup {None} BY <1>8, <2>1
  <2> QED BY <1>4, <1>8, <2>4, <2>6, <2>7, <2>8 DEF Staff!AccountsAreSound
<1>10. Staff!AccountsHold'
  BY <1>4, <1>9 DEF StaffInv, Staff!AccountsHold, Staff!AccountEditsSeeEveryChange, Staff!CollisionsAreReal
<1>11. /\ job' = [v \in Workers |-> job'[v]] /\ held' = [v \in Workers |-> held'[v]]
       /\ pc' \in [Workers -> {"idle", "begun", "checked", "asking", "provisioning", "inserting", "saving"}]
       /\ pc'[w] = "idle" /\ held'[w] = {}
       /\ \A v \in Workers : v # w => job'[v] = job[v] /\ pc'[v] = pc[v] /\ held'[v] = held[v]
  BY <1>4, <1>5, StaffDone
<1>12. PersonsAreLocked' BY <1>4, <1>5, <1>11, LocksStay
<1>13. IdentitiesStay /\ person' = [p \in People |-> person'[p]]
  BY <1>4, <1>5 DEF IdentitiesStay, StaffTypes
<1>14. \A i \in identity' :
            /\ i = [entry |-> i.entry, attr |-> i.attr, user |-> i.user, login |-> i.login]
            /\ i.user \in Ids
  BY <1>3, <1>4, <1>5, <1>8 DEF StaffTypes
<1> QED BY <1>8, <1>10, <1>11, <1>12, <1>13, <1>14, StaffFrame

-----------------------------------------------------------------------------
(* Accounts: logins                                                          *)

\* A request ends and leaves accounts as they are.
LEMMA QuietEnd ==
  ASSUME StaffInv, NEW w \in Workers, Staff!Done(w),
         UNCHANGED <<account, identity, person, blind>>, ~unreal'
  PROVE  StaffInv'
<1>1. /\ job' = [v \in Workers |-> job'[v]] /\ held' = [v \in Workers |-> held'[v]]
      /\ pc' \in [Workers -> {"idle", "begun", "checked", "asking", "provisioning", "inserting", "saving"}]
      /\ pc'[w] = "idle" /\ held'[w] = {}
      /\ \A v \in Workers : v # w => job'[v] = job[v] /\ pc'[v] = pc[v] /\ held'[v] = held[v]
  BY StaffDone DEF StaffInv
<1>2. PersonsAreLocked' BY <1>1, LocksStay DEF StaffInv
<1> QED BY <1>1, <1>2, StaffQuiet

\* A process goes on with its request, and leaves accounts as they are.
LEMMA QuietStep ==
  ASSUME StaffInv, NEW w \in Workers, NEW q, NEW to,
         to \in {"begun", "asking", "provisioning", "inserting", "saving"},
         job' = [job EXCEPT ![w] = q], pc' = [pc EXCEPT ![w] = to],
         UNCHANGED <<account, identity, person, blind, unreal, held>>,
         Carries(w)'
  PROVE  StaffInv'
<1>1. /\ job' = [v \in Workers |-> job'[v]] /\ held' = [v \in Workers |-> held'[v]]
      /\ pc' \in [Workers -> {"idle", "begun", "checked", "asking", "provisioning", "inserting", "saving"}]
      /\ pc'[w] = to
      /\ \A v \in Workers : v # w => job'[v] = job[v] /\ pc'[v] = pc[v] /\ held'[v] = held[v]
  BY DEF StaffInv, StaffTypes
<1>2. PersonsAreLocked' BY <1>1, LocksStay DEF StaffInv
<1>3. ~unreal' BY DEF StaffInv, Staff!AccountsHold, Staff!CollisionsAreReal
<1> QED BY <1>1, <1>2, <1>3, StaffQuiet

LEMMA BeginsStaff ==
  ASSUME StaffInv, NEW w \in Workers, Staff!Begin(w) PROVE StaffInv'
<1>1. PICK q \in AccountRequests :
        /\ job' = [job EXCEPT ![w] = Staff!With(q, [form |-> Staff!Form, base |-> config.revision])]
        /\ pc' = [pc EXCEPT ![w] = "begun"]
        /\ UNCHANGED <<account, identity, person, blind, unreal, held>>
  BY DEF Staff!Begin, Staff!Go, Staff!seen
<1>2. Staff!WellFormed(q) BY StaffConstants DEF Staff!AccountKeys
<1>3. PICK r : r = Staff!With(q, [form |-> Staff!Form, base |-> config.revision]) OBVIOUS
<1>4. /\ DOMAIN r = DOMAIN q \cup {"form", "base"} /\ r = [f \in DOMAIN r |-> r[f]]
      /\ r.form = Staff!Form /\ \A f \in DOMAIN q : r[f] = q[f]
  BY <1>2, <1>3 DEF Staff!With, Staff!WellFormed
<1>5. job'[w] = r /\ pc'[w] = "begun" BY <1>1, <1>3 DEF StaffInv, StaffTypes
<1>6. FormFits(Staff!Form)
  <2>1. \A u \in Staff!There : u \in Ids /\ Whole(account[u])
    BY RowKinds DEF StaffInv, Staff!There
  <2> QED BY <2>1 DEF FormFits, Staff!Form, Whole
<1>7. FormFits(job[w].form)'
  <2>1. PICK shown : shown = Staff!Form OBVIOUS
  <2>2. FormFits(shown) BY <1>6, <2>1
  <2>3. RowsEvolve BY <1>1 DEF RowsEvolve, Evolves
  <2>4. FormFits(shown)' BY <2>2, <2>3, FormsFit DEF StaffInv
  <2>5. job'[w].form = shown BY <1>4, <1>5, <2>1
  <2> QED BY <2>4, <2>5 DEF FormFits
<1>8. "kind" \in DOMAIN q BY <1>2 DEF Staff!WellFormed
<1>9. r.kind = q.kind BY <1>4, <1>8
<1>10. /\ r.kind \in {"edit", "profile"} => DOMAIN r.set \subseteq Staff!Editable
       /\ r.kind = "create" => r.name \in Names /\ r.person \in People \cup {None}
       /\ r.kind = "login" => DOMAIN r = {"kind", "name", "form", "base"} /\ r.name \in Names
  <2>1. ASSUME r.kind \in {"edit", "profile"} PROVE DOMAIN r.set \subseteq Staff!Editable
    <3>1. "set" \in DOMAIN q /\ DOMAIN q.set \subseteq Staff!Editable
      BY <1>2, <1>9, <2>1 DEF Staff!WellFormed
    <3>2. r["set"] = q["set"] BY <1>4, <3>1
    <3> QED BY <3>1, <3>2
  <2>2. ASSUME r.kind = "create" PROVE r.name \in Names /\ r.person \in People \cup {None}
    <3>1. /\ {"name", "person"} \subseteq DOMAIN q
          /\ q.name \in Names /\ q.person \in People \cup {None}
      BY <1>2, <1>9, <2>2 DEF Staff!WellFormed
    <3>2. r["name"] = q["name"] /\ r["person"] = q["person"] BY <1>4, <3>1
    <3> QED BY <3>1, <3>2
  <2>3. ASSUME r.kind = "login"
        PROVE  DOMAIN r = {"kind", "name", "form", "base"} /\ r.name \in Names
    <3>1. DOMAIN q = {"kind", "name"} /\ q.name \in Names
      BY <1>2, <1>9, <2>3 DEF Staff!WellFormed
    <3>2. r["name"] = q["name"] BY <1>4, <3>1
    <3> QED BY <1>4, <3>1, <3>2
  <2> QED BY <2>1, <2>2, <2>3
<1>11. Carries(w)' BY <1>4, <1>5, <1>7, <1>8, <1>10 DEF Carries
<1> QED BY <1>1, <1>11, QuietStep

LEMMA AbortsStaff ==
  ASSUME StaffInv, NEW w \in Workers, Staff!Abort(w) PROVE StaffInv'
<1>1. Staff!Done(w) /\ UNCHANGED <<account, identity, person, blind, unreal>>
  BY DEF Staff!Abort, Staff!seen
<1>2. ~unreal' BY <1>1 DEF StaffInv, Staff!AccountsHold, Staff!CollisionsAreReal
<1> QED BY <1>1, <1>2, QuietEnd

\* The identities that a login finds are there, and their users are met.
LEMMA LinkedAreMet ==
  ASSUME NEW n, NEW q, q.expected = Staff!Linked(n), q.met = Staff!Claimants(n)
  PROVE  ExpectedAreThere(q)
<1>1. ASSUME NEW i \in Staff!Linked(n) PROVE i.user \in Staff!Claimants(n) /\ i \in identity
  BY <1>1 DEF Staff!Linked, Staff!Claimants
<1> QED BY <1>1 DEF ExpectedAreThere

LEMMA RouteToDirectoryStep ==
  ASSUME StaffInv, NEW w \in Workers, Staff!RouteToDirectory(w) PROVE StaffInv'
<1>1. PICK q, n : q = job[w] /\ n = job[w].name OBVIOUS
<1>2. PICK found : found = [expected |-> Staff!Linked(n), attr |-> config.attr,
                            met |-> Staff!Claimants(n), endpoint |-> 1, tries |-> 1] OBVIOUS
<1>3. PICK r : r = Staff!With(q, found) OBVIOUS
<1>4. /\ pc[w] = "begun" /\ q.kind = "login"
      /\ job' = [job EXCEPT ![w] = r]
      /\ pc' = [pc EXCEPT ![w] = "asking"]
      /\ UNCHANGED <<account, identity, person, blind, unreal, held>>
  BY <1>1, <1>2, <1>3 DEF Staff!RouteToDirectory, Staff!At, Staff!Go, Staff!Quietly
<1>5. /\ DOMAIN q = {"kind", "name", "form", "base"} /\ q.name \in Names
      /\ FormFits(q.form)
  BY <1>1, <1>4 DEF StaffInv, ProcessesCarry, Carries
<1>6. /\ DOMAIN r = DOMAIN q \cup {"expected", "attr", "met", "endpoint", "tries"}
      /\ r = [f \in DOMAIN r |-> r[f]]
      /\ r.kind = "login" /\ r.name = q.name /\ r.form = q.form
      /\ r.expected = Staff!Linked(n) /\ r.met = Staff!Claimants(n) /\ r.tries = 1
  BY <1>2, <1>3, <1>4, <1>5 DEF Staff!With
<1>7. job'[w] = r /\ pc'[w] = "asking" BY <1>4 DEF StaffInv, StaffTypes
<1>8. ExpectedAreThere(r) BY <1>6, LinkedAreMet
<1>9. ExpectedAreThere(job[w])' BY <1>4, <1>7, <1>8 DEF ExpectedAreThere
<1>10. FormFits(job[w].form)' BY <1>4, <1>5, <1>6, <1>7 DEF FormFits, Whole, Staff!Content
<1>11. Carries(w)' BY <1>5, <1>6, <1>7, <1>9, <1>10 DEF Carries
<1> QED BY <1>4, <1>11, QuietStep

LEMMA RouteElsewhereStep ==
  ASSUME StaffInv, NEW w \in Workers, Staff!RouteElsewhere(w) PROVE StaffInv'
<1>1. Staff!Done(w) /\ UNCHANGED <<account, identity, person, blind, unreal>>
  BY DEF Staff!RouteElsewhere, Staff!Quietly
<1>2. ~unreal' BY <1>1 DEF StaffInv, Staff!AccountsHold, Staff!CollisionsAreReal
<1> QED BY <1>1, <1>2, QuietEnd

LEMMA NoAnswerStep ==
  ASSUME StaffInv, NEW w \in Workers, Staff!NoAnswer(w) PROVE StaffInv'
<1>1. PICK q, r : q = job[w] /\ r = [q EXCEPT !.endpoint = 2] OBVIOUS
<1>2. /\ pc[w] = "asking"
      /\ job' = [job EXCEPT ![w] = r] /\ pc' = pc
      /\ UNCHANGED <<account, identity, person, blind, unreal, held>>
  BY <1>1 DEF Staff!NoAnswer, Staff!Quietly
<1>3. Carries(w) BY <1>2 DEF StaffInv, ProcessesCarry
<1>4. q = [f \in DOMAIN q |-> q[f]]
      /\ {"kind", "form", "name", "attr", "met", "tries", "expected", "endpoint"} \subseteq DOMAIN q
      /\ {"entry", "text"} \cap DOMAIN q = {}
      /\ q.name \in Names /\ q.tries \in {1, 2} /\ ExpectedAreThere(q) /\ FormFits(q.form)
  BY <1>1, <1>2, <1>3 DEF Carries
<1>5. /\ DOMAIN r = DOMAIN q /\ r = [f \in DOMAIN r |-> r[f]]
      /\ r.kind = q.kind /\ r.name = q.name /\ r.form = q.form /\ r.tries = q.tries
      /\ r.expected = q.expected /\ r.met = q.met
  BY <1>1, <1>4
<1>6. job'[w] = r /\ pc'[w] = "asking" BY <1>2 DEF StaffInv, StaffTypes
<1>7. ExpectedAreThere(job[w])' BY <1>2, <1>4, <1>5, <1>6 DEF ExpectedAreThere
<1>8. FormFits(job[w].form)' BY <1>2, <1>4, <1>5, <1>6 DEF FormFits, Whole, Staff!Content
<1>9. Carries(w)' BY <1>4, <1>5, <1>6, <1>7, <1>8 DEF Carries
<1>10. pc' = [pc EXCEPT ![w] = "asking"] BY <1>2 DEF StaffInv, StaffTypes
<1> QED BY <1>2, <1>9, <1>10, QuietStep

\* Two identities of one user, or for one entry, are one.
LEMMA OneIdentity ==
  ASSUME StaffInv, NEW i \in identity, NEW j \in identity,
         i.user = j.user \/ (i.entry = j.entry /\ i.attr = j.attr)
  PROVE  i = j
BY DEF StaffInv, Staff!AccountsHold, Staff!AccountsAreSound

\* The answer is another entry than that of an identity which goes by the name:
\* the user of that identity has no other.
LEMMA AnswerCollides ==
  ASSUME StaffInv, NEW w \in Workers, pc[w] = "asking", NEW n, NEW e,
         \E i \in job[w].expected : i.entry # e \/ i.attr # job[w].attr
  PROVE  Staff!Real(w, n, e, job[w].attr, job[w].met)
<1>1. ExpectedAreThere(job[w]) BY DEF StaffInv, ProcessesCarry, Carries
<1>2. PICK i \in job[w].expected : i.entry # e \/ i.attr # job[w].attr OBVIOUS
<1>3. PICK j \in identity : j.user = i.user /\ j.entry = i.entry /\ j.attr = i.attr
  BY <1>1 DEF ExpectedAreThere
<1>4. i.user \in job[w].met BY <1>1 DEF ExpectedAreThere
<1>5. ~\E k \in identity : k.user = i.user /\ k.entry = e /\ k.attr = job[w].attr
  <2>1. SUFFICES ASSUME NEW k \in identity, k.user = i.user, k.entry = e, k.attr = job[w].attr
                 PROVE FALSE
    OBVIOUS
  <2>2. k = j BY <1>3, <2>1, OneIdentity
  <2> QED BY <1>2, <1>3, <2>1, <2>2
<1> QED BY <1>4, <1>5 DEF Staff!Real

\* A login that ends on a collision that is one.
LEMMA CollisionEnds ==
  ASSUME StaffInv, NEW w \in Workers, NEW n, NEW e, NEW attr, NEW met,
         Staff!Real(w, n, e, attr, met), Staff!Collide(w, n, e, attr, met)
  PROVE  StaffInv'
<1>1. /\ Staff!Done(w) /\ UNCHANGED <<account, identity, person, blind>>
      /\ unreal' = (unreal \/ ~Staff!Real(w, n, e, attr, met))
  BY DEF Staff!Collide, Staff!Quietly
<1>2. ~unreal' BY <1>1 DEF StaffInv, Staff!AccountsHold, Staff!CollisionsAreReal
<1> QED BY <1>1, <1>2, QuietEnd

LEMMA AnswerStep ==
  ASSUME StaffInv, NEW w \in Workers, Staff!Answer(w) PROVE StaffInv'
<1>1. PICK q : q = job[w] OBVIOUS
<1>2. pc[w] = "asking" BY DEF Staff!Answer
<1>3. PICK e \in Entries :
        \/ /\ \E i \in q.expected : i.entry # e \/ i.attr # q.attr
           /\ Staff!Collide(w, q.name, e, q.attr, q.met)
        \/ /\ job' = [job EXCEPT ![w] = Staff!With(q, [entry |-> e, text |-> directory[e].text])]
           /\ pc' = [pc EXCEPT ![w] = "provisioning"]
           /\ UNCHANGED <<account, identity, person, blind, unreal, held>>
  BY <1>1 DEF Staff!Answer, Staff!EntryOf, Staff!Go, Staff!Quietly
<1>4. CASE /\ \E i \in q.expected : i.entry # e \/ i.attr # q.attr
           /\ Staff!Collide(w, q.name, e, q.attr, q.met)
  BY <1>1, <1>2, <1>4, AnswerCollides, CollisionEnds
<1>5. CASE /\ job' = [job EXCEPT ![w] = Staff!With(q, [entry |-> e, text |-> directory[e].text])]
           /\ pc' = [pc EXCEPT ![w] = "provisioning"]
           /\ UNCHANGED <<account, identity, person, blind, unreal, held>>
  <2>1. PICK r : r = Staff!With(q, [entry |-> e, text |-> directory[e].text]) OBVIOUS
  <2>2. Carries(w) BY <1>2 DEF StaffInv, ProcessesCarry
  <2>3. /\ {"kind", "form", "name", "attr", "met", "tries"} \subseteq DOMAIN q
        /\ {"entry", "text"} \cap DOMAIN q = {}
        /\ q.name \in Names /\ q.tries \in {1, 2} /\ FormFits(q.form)
    BY <1>1, <1>2, <2>2 DEF Carries
  <2>4. /\ DOMAIN r = DOMAIN q \cup {"entry", "text"} /\ r = [f \in DOMAIN r |-> r[f]]
        /\ r.kind = q.kind /\ r.name = q.name /\ r.form = q.form /\ r.tries = q.tries
    BY <2>1, <2>3 DEF Staff!With
  <2>5. job'[w] = r /\ pc'[w] = "provisioning" BY <1>5, <2>1 DEF StaffInv, StaffTypes
  <2>6. FormFits(job[w].form)' BY <1>5, <2>3, <2>4, <2>5 DEF FormFits, Whole, Staff!Content
  <2>7. Carries(w)' BY <2>3, <2>4, <2>5, <2>6 DEF Carries
  <2> QED BY <1>5, <2>7, QuietStep
<1> QED BY <1>3, <1>4, <1>5

\* Whoever else has the name has not this entry.
LEMMA RefreshStep ==
  ASSUME StaffInv, NEW w \in Workers, Staff!Refresh(w) PROVE StaffInv'
<1>1. PICK q : q = job[w] OBVIOUS
<1>2. PICK i \in Staff!Known(w) :
        \/ /\ Staff!Named(q.name) \subseteq {i.user}
           /\ Staff!Put(i.user, [account[i.user] EXCEPT !.text = q.text, !.password = "none"])
           /\ identity' = (identity \ {i}) \cup {[i EXCEPT !.login = q.name]}
           /\ Staff!Done(w) /\ UNCHANGED <<person, blind, unreal>>
        \/ /\ ~(Staff!Named(q.name) \subseteq {i.user})
           /\ Staff!Collide(w, q.name, q.entry, q.attr, q.met)
  BY <1>1 DEF Staff!Refresh, Staff!seen
<1>3. i \in identity /\ i.entry = q.entry /\ i.attr = q.attr BY <1>1 DEF Staff!Known
<1>4. StaffTypes /\ Staff!AccountsAreSound /\ PersonsAreLocked
  BY DEF StaffInv, Staff!AccountsHold
<1>5. CASE /\ ~(Staff!Named(q.name) \subseteq {i.user})
           /\ Staff!Collide(w, q.name, q.entry, q.attr, q.met)
  <2>1. PICK u \in Staff!Named(q.name) : u # i.user BY <1>5
  <2>2. u \in Staff!Claimants(q.name) BY DEF Staff!Claimants
  <2>3. ~\E j \in identity : j.user = u /\ j.entry = q.entry /\ j.attr = q.attr
    <3>1. SUFFICES ASSUME NEW j \in identity, j.user = u, j.entry = q.entry, j.attr = q.attr
                   PROVE FALSE
      OBVIOUS
    <3>2. j = i BY <1>3, <3>1, OneIdentity
    <3> QED BY <2>1, <3>1, <3>2
  <2>4. Staff!Real(w, q.name, q.entry, q.attr, q.met) BY <2>2, <2>3 DEF Staff!Real
  <2> QED BY <1>5, <2>4, CollisionEnds
<1>6. CASE /\ Staff!Put(i.user, [account[i.user] EXCEPT !.text = q.text, !.password = "none"])
           /\ identity' = (identity \ {i}) \cup {[i EXCEPT !.login = q.name]}
           /\ Staff!Done(w) /\ UNCHANGED <<person, blind, unreal>>
  <2>1. PICK u \in Staff!There : u = i.user BY <1>3, <1>4 DEF Staff!AccountsAreSound
  <2>2. PICK new : new = [account[u] EXCEPT !.text = q.text, !.password = "none"] OBVIOUS
  <2>3. Whole(account[u]) /\ u \in Ids BY <1>4, RowKinds DEF Staff!There
  <2>4. /\ Whole(new) /\ new.name = account[u].name /\ new.for = account[u].for
        /\ new.revision = account[u].revision /\ new.password = "none"
    <3>1. account[u] = [f \in Staff!Columns |-> account[u][f]] BY <2>3 DEF Whole
    <3>2. new = [f \in Staff!Columns |-> new[f]] BY <2>2, <3>1
    <3>3. /\ new.name = account[u].name /\ new.for = account[u].for
          /\ new.revision = account[u].revision /\ new.password = "none"
      BY <2>2, <3>1 DEF Staff!Columns
    <3> QED BY <2>3, <3>2, <3>3 DEF Whole
  <2>5. Staff!Put(u, new) BY <1>6, <2>1, <2>2
  <2>6. /\ account' = [v \in Ids |-> account'[v]]
        /\ \A v \in Ids : account'[v] = Staff!Absent \/ account'[v] = Staff!Gone \/ Whole(account'[v])
        /\ RowsEvolve
        /\ account'[u].password = new.password /\ \A v \in Ids : v # u => account'[v] = account[v]
        /\ Staff!There' = Staff!There
        /\ \A n : Staff!Named(n)' = Staff!Named(n)
        /\ \A v \in Staff!There : Staff!Named(account'[v].name) = {v}
        /\ \A v \in Staff!There : account'[v].for # None => person[account'[v].for] = v
    BY <1>4, <1>6, <2>4, <2>5, AccountIsPut
  <2>7. PICK mine : mine = [i EXCEPT !.login = q.name] OBVIOUS
  <2>8. /\ mine = [entry |-> mine.entry, attr |-> mine.attr, user |-> mine.user, login |-> mine.login]
        /\ mine.user = u /\ mine.entry = i.entry /\ mine.attr = i.attr
    <3>1. i = [entry |-> i.entry, attr |-> i.attr, user |-> i.user, login |-> i.login]
      BY <1>3, <1>4 DEF StaffTypes
    <3> QED BY <2>1, <2>7, <3>1
  <2>9. identity' = (identity \ {i}) \cup {mine} BY <1>6, <2>7
  <2>10. Staff!AccountsAreSound'
    <3>1. /\ \A j \in identity : j.user \in Staff!There /\ account[j.user].password = "none"
          /\ \A j, k \in identity : j # k =>
                j.user # k.user /\ <<j.entry, j.attr>> # <<k.entry, k.attr>>
          /\ \A p \in People : person[p] \in Staff!There \cup {None}
      BY <1>4 DEF Staff!AccountsAreSound
    <3>2. \A v \in Staff!There : v \in Ids BY DEF Staff!There
    <3>3. \A j \in identity' : j.user \in Staff!There /\ account'[j.user].password = "none"
      BY <2>4, <2>6, <2>8, <2>9, <3>1, <3>2
    <3>4. \A j, k \in identity' : j # k =>
              j.user # k.user /\ <<j.entry, j.attr>> # <<k.entry, k.attr>>
      <4>1. \A j \in identity \ {i} : j.user # mine.user /\ <<j.entry, j.attr>> # <<mine.entry, mine.attr>>
        BY <1>3, <2>1, <2>8, <3>1
      <4> QED BY <2>9, <3>1, <4>1
    <3>5. ASSUME NEW v \in Staff!There' PROVE Staff!Named(account[v].name)' = {v}
      <4>1. PICK n : n = account'[v].name OBVIOUS
      <4>2. Staff!Named(n)' = {v} BY <2>6, <4>1
      <4> QED BY <4>1, <4>2 DEF Staff!Named
    <3> QED BY <1>6, <2>6, <3>1, <3>3, <3>4, <3>5 DEF Staff!AccountsAreSound
  <2>11. Staff!AccountsHold'
    BY <1>6, <2>10 DEF StaffInv, Staff!AccountsHold, Staff!AccountEditsSeeEveryChange, Staff!CollisionsAreReal
  <2>12. /\ job' = [v \in Workers |-> job'[v]] /\ held' = [v \in Workers |-> held'[v]]
         /\ pc' \in [Workers -> {"idle", "begun", "checked", "asking", "provisioning", "inserting", "saving"}]
         /\ pc'[w] = "idle" /\ held'[w] = {}
         /\ \A v \in Workers : v # w => job'[v] = job[v] /\ pc'[v] = pc[v] /\ held'[v] = held[v]
    BY <1>4, <1>6, StaffDone
  <2>13. PersonsAreLocked' BY <1>4, <1>6, <2>12, LocksStay
  <2>14. IdentitiesStay
    <3>1. ASSUME NEW j \in identity
          PROVE \E k \in identity' : k.user = j.user /\ k.entry = j.entry /\ k.attr = j.attr
      <4>1. CASE j = i BY <2>1, <2>8, <2>9, <4>1
      <4>2. CASE j # i BY <2>9, <4>2
      <4> QED BY <4>1, <4>2
    <3> QED BY <3>1 DEF IdentitiesStay
  <2>15. person' = [p \in People |-> person'[p]] BY <1>4, <1>6 DEF StaffTypes
  <2>16. \A j \in identity' :
            /\ j = [entry |-> j.entry, attr |-> j.attr, user |-> j.user, login |-> j.login]
            /\ j.user \in Ids
    BY <1>4, <2>3, <2>8, <2>9 DEF StaffTypes
  <2> QED BY <2>6, <2>11, <2>12, <2>13, <2>14, <2>15, <2>16, StaffFrame
<1> QED BY <1>2, <1>5, <1>6

\* Nobody is known and the name is taken: by somebody else.
LEMMA UnknownCollides ==
  ASSUME StaffInv, NEW w \in Workers, Staff!Known(w) = {}, Staff!Named(job[w].name) # {}
  PROVE  Staff!Real(w, job[w].name, job[w].entry, job[w].attr, job[w].met)
<1>1. PICK u : u \in Staff!Named(job[w].name) OBVIOUS
<1>2. u \in Staff!Claimants(job[w].name) BY <1>1 DEF Staff!Claimants
<1>3. ~\E i \in identity : i.user = u /\ i.entry = job[w].entry /\ i.attr = job[w].attr
  BY DEF Staff!Known
<1> QED BY <1>2, <1>3 DEF Staff!Real

LEMMA CheckFirstLoginStep ==
  ASSUME StaffInv, NEW w \in Workers, Staff!CheckFirstLogin(w) PROVE StaffInv'
<1>1. PICK q : q = job[w] OBVIOUS
<1>2. /\ pc[w] = "provisioning"
      /\ \/ Staff!Known(w) = {} /\ Staff!Named(q.name) # {} /\ Staff!Collide(w, q.name, q.entry, q.attr, q.met)
         \/ pc' = [pc EXCEPT ![w] = "inserting"] /\ UNCHANGED <<account, identity, person, blind, unreal, job, held>>
  BY <1>1 DEF Staff!CheckFirstLogin, Staff!Go, Staff!Quietly
<1>3. CASE Staff!Known(w) = {} /\ Staff!Named(q.name) # {} /\ Staff!Collide(w, q.name, q.entry, q.attr, q.met)
  BY <1>1, <1>3, UnknownCollides, CollisionEnds
<1>4. CASE pc' = [pc EXCEPT ![w] = "inserting"] /\ UNCHANGED <<account, identity, person, blind, unreal, job, held>>
  <2>1. Carries(w) BY <1>2 DEF StaffInv, ProcessesCarry
  <2>2. /\ {"kind", "form", "name", "attr", "met", "tries", "entry", "text"} \subseteq DOMAIN q
        /\ q = [f \in DOMAIN q |-> q[f]]
        /\ q.name \in Names /\ q.tries \in {1, 2} /\ FormFits(q.form)
    BY <1>1, <1>2, <2>1 DEF Carries
  <2>3. job' = [job EXCEPT ![w] = q] BY <1>1, <1>4 DEF StaffInv, StaffTypes
  <2>4. job'[w] = q /\ pc'[w] = "inserting" BY <1>1, <1>4 DEF StaffInv, StaffTypes
  <2>5. FormFits(job[w].form)' BY <1>4, <2>2, <2>4 DEF FormFits, Whole, Staff!Content
  <2>6. Carries(w)' BY <2>2, <2>4, <2>5 DEF Carries
  <2> QED BY <1>4, <2>3, <2>6, QuietStep
<1> QED BY <1>2, <1>3, <1>4

LEMMA LoseFirstLoginStep ==
  ASSUME StaffInv, NEW w \in Workers, Staff!LoseFirstLogin(w) PROVE StaffInv'
<1>1. PICK q, r : q = job[w] /\ r = [q EXCEPT !.tries = q.tries + 1] OBVIOUS
<1>2. /\ pc[w] = "inserting"
      /\ \/ /\ q.tries < 2
            /\ job' = [job EXCEPT ![w] = r] /\ pc' = [pc EXCEPT ![w] = "provisioning"]
            /\ UNCHANGED <<account, identity, person, blind, unreal, held>>
         \/ ~(q.tries < 2) /\ Staff!Collide(w, q.name, q.entry, q.attr, q.met)
  BY <1>1 DEF Staff!LoseFirstLogin, Staff!MaxTries, Staff!Go, Staff!Quietly
<1>3. Carries(w) BY <1>2 DEF StaffInv, ProcessesCarry
<1>4. /\ {"kind", "form", "name", "attr", "met", "tries", "entry", "text"} \subseteq DOMAIN q
      /\ q = [f \in DOMAIN q |-> q[f]]
      /\ q.name \in Names /\ q.tries \in {1, 2} /\ FormFits(q.form)
  BY <1>1, <1>2, <1>3 DEF Carries
<1>5. CASE ~(q.tries < 2) /\ Staff!Collide(w, q.name, q.entry, q.attr, q.met)
  <2>1. q.tries = 2 BY <1>4, <1>5
  <2>2. Staff!Real(w, q.name, q.entry, q.attr, q.met) BY <1>1, <2>1 DEF Staff!Real
  <2> QED BY <1>5, <2>2, CollisionEnds
<1>6. CASE /\ q.tries < 2
           /\ job' = [job EXCEPT ![w] = r] /\ pc' = [pc EXCEPT ![w] = "provisioning"]
           /\ UNCHANGED <<account, identity, person, blind, unreal, held>>
  <2>1. /\ DOMAIN r = DOMAIN q /\ r = [f \in DOMAIN r |-> r[f]]
        /\ r.kind = q.kind /\ r.name = q.name /\ r.form = q.form /\ r.tries = 2
    BY <1>1, <1>4, <1>6
  <2>2. job'[w] = r /\ pc'[w] = "provisioning" BY <1>6 DEF StaffInv, StaffTypes
  <2>3. FormFits(job[w].form)' BY <1>4, <1>6, <2>1, <2>2 DEF FormFits, Whole, Staff!Content
  <2>4. Carries(w)' BY <1>4, <2>1, <2>2, <2>3 DEF Carries
  <2> QED BY <1>6, <2>4, QuietStep
<1> QED BY <1>2, <1>5, <1>6

-----------------------------------------------------------------------------
(* Accounts: the rest, and the theorem                                       *)

\* update of the configuration of the directory
LEMMA CheckConfigurationStep ==
  ASSUME StaffInv, NEW w \in Workers, Staff!CheckConfiguration(w) PROVE StaffInv'
<1>1. PICK q : q = job[w] OBVIOUS
<1>2. /\ pc[w] = "begun" /\ q.kind = "directory"
      /\ pc' = [pc EXCEPT ![w] = "saving"]
      /\ UNCHANGED <<account, identity, person, blind, unreal, job, held>>
  BY <1>1 DEF Staff!CheckConfiguration, Staff!At, Staff!Go, Staff!seen
<1>3. /\ {"kind", "form"} \subseteq DOMAIN q /\ q = [f \in DOMAIN q |-> q[f]] /\ FormFits(q.form)
  BY <1>1, <1>2 DEF StaffInv, ProcessesCarry, Carries
<1>4. job' = [job EXCEPT ![w] = q] BY <1>1, <1>2 DEF StaffInv, StaffTypes
<1>5. job'[w] = q /\ pc'[w] = "saving" BY <1>1, <1>2 DEF StaffInv, StaffTypes
<1>6. FormFits(job[w].form)' BY <1>2, <1>3, <1>5 DEF FormFits, Whole, Staff!Content
<1>7. Carries(w)' BY <1>3, <1>5, <1>6 DEF Carries
<1> QED BY <1>2, <1>4, <1>7, QuietStep

LEMMA SaveConfigurationStep ==
  ASSUME StaffInv, NEW w \in Workers, Staff!SaveConfiguration(w) PROVE StaffInv'
<1>1. Staff!Done(w) /\ UNCHANGED <<account, identity, person, blind, unreal>>
  BY DEF Staff!SaveConfiguration, Staff!seen
<1>2. ~unreal' BY <1>1 DEF StaffInv, Staff!AccountsHold, Staff!CollisionsAreReal
<1> QED BY <1>1, <1>2, QuietEnd

\* Neither the directory, nor its configuration, nor the bounds matter.
LEMMA StaffStays ==
  ASSUME StaffInv, UNCHANGED <<account, identity, person, job, pc, held, blind, unreal>>
  PROVE  StaffInv'
<1>1. StaffTypes' BY DEF StaffInv, StaffTypes, Whole, Staff!Absent, Staff!Gone
<1>2. RowsEvolve /\ IdentitiesStay BY DEF RowsEvolve, Evolves, IdentitiesStay
<1>3. ASSUME NEW w \in Workers, pc'[w] # "idle" PROVE Carries(w)'
  <2>1. Carries(w) BY <1>3 DEF StaffInv, ProcessesCarry
  <2>2. FormFits(job[w].form)' BY <2>1 DEF Carries, FormFits, Whole, Staff!Content
  <2>3. ExpectedAreThere(job[w])' <=> ExpectedAreThere(job[w]) BY DEF ExpectedAreThere
  <2> QED BY <2>1, <2>2, <2>3 DEF Carries
<1>4. PersonsAreLocked' BY DEF StaffInv, PersonsAreLocked
<1>5. Staff!AccountsHold'
  BY DEF StaffInv, Staff!AccountsHold, Staff!AccountEditsSeeEveryChange, Staff!CollisionsAreReal,
    Staff!AccountsAreSound, Staff!There, Staff!Named
<1> QED BY <1>1, <1>3, <1>4, <1>5 DEF StaffInv, ProcessesCarry

LEMMA StaffStart == Staff!Init => StaffInv
<1> SUFFICES ASSUME Staff!Init PROVE StaffInv OBVIOUS
<1>1. /\ account = [u \in Ids |-> IF u \in DOMAIN FirstAccounts THEN FirstAccounts[u] ELSE Staff!Absent]
      /\ identity = {} /\ person = [p \in People |-> None]
      /\ job = [w \in Workers |-> Staff!AccountIdle] /\ pc = [w \in Workers |-> "idle"]
      /\ held = [w \in Workers |-> {}] /\ blind = FALSE /\ unreal = FALSE
  BY DEF Staff!Init
<1>2. ASSUME NEW u \in DOMAIN FirstAccounts
      PROVE  /\ Whole(FirstAccounts[u]) /\ FirstAccounts[u].for = None
             /\ \A v \in DOMAIN FirstAccounts : FirstAccounts[u].name = FirstAccounts[v].name => u = v
  BY StaffConstants DEF Staff!AccountKeys, Whole
<1>3. StaffTypes BY <1>1, <1>2 DEF StaffTypes
<1>4. ProcessesCarry /\ PersonsAreLocked BY <1>1 DEF ProcessesCarry, PersonsAreLocked
<1>5. ASSUME NEW u \in Staff!There
      PROVE u \in Ids /\ u \in DOMAIN FirstAccounts /\ account[u] = FirstAccounts[u]
  <2>1. Staff!Absent.name = None /\ None \notin Names
    BY StaffConstants DEF Staff!Absent, Staff!AccountKeys
  <2> QED BY <1>1, <2>1 DEF Staff!There
<1>6. Staff!AccountsAreSound
  <2>1. ASSUME NEW u \in Staff!There PROVE Staff!Named(account[u].name) = {u}
    BY <1>2, <1>5 DEF Staff!Named
  <2>2. \A u \in Staff!There : account[u].for = None BY <1>2, <1>5
  <2> QED BY <1>1, <2>1, <2>2 DEF Staff!AccountsAreSound
<1> QED BY <1>1, <1>3, <1>4, <1>6
     DEF StaffInv, Staff!AccountsHold, Staff!AccountEditsSeeEveryChange, Staff!CollisionsAreReal

LEMMA StaffNext == ASSUME StaffInv, Staff!Next PROVE StaffInv'
<1>1. CASE Staff!DirectoryChanges
  BY <1>1, StaffStays DEF Staff!DirectoryChanges, Staff!server, Staff!seen
<1>2. ASSUME NEW w \in Workers,
        \/ Staff!Begin(w) \/ Staff!Abort(w)
        \/ Staff!EditAccount(w) \/ Staff!BatchAccount(w) \/ Staff!EditProfile(w)
        \/ Staff!SetPassword(w) \/ Staff!DeleteAccount(w)
        \/ Staff!CheckCreation(w) \/ Staff!CreateAccount(w)
        \/ Staff!RouteToDirectory(w) \/ Staff!RouteElsewhere(w) \/ Staff!NoAnswer(w) \/ Staff!Answer(w)
        \/ Staff!Refresh(w) \/ Staff!CheckFirstLogin(w) \/ Staff!FirstLogin(w) \/ Staff!LoseFirstLogin(w)
        \/ Staff!CheckConfiguration(w) \/ Staff!SaveConfiguration(w)
      PROVE StaffInv'
  BY <1>2, BeginsStaff, AbortsStaff, EditAccountStep, BatchStep, EditProfileStep, SetPasswordStep,
    DeleteAccountStep, CheckCreationStep, CreateAccountStep, RouteToDirectoryStep,
    RouteElsewhereStep, NoAnswerStep, AnswerStep, RefreshStep, CheckFirstLoginStep, FirstLoginStep,
    LoseFirstLoginStep, CheckConfigurationStep, SaveConfigurationStep
<1> QED BY <1>1, <1>2 DEF Staff!Next

\* Accounts: whatever happens at once, no edit replaces what its form did not show,
\* no login is refused for a collision that is none, and accounts, identities and
\* persons fit together.
THEOREM AccountsStaySound == Spec => []AccountsHold
<1> DEFINE Inv == study = "accounts" => StaffInv
<1>1. Init => Inv BY StaffStart DEF Init
<1>2. Inv /\ [Next]_vars => Inv'
  <2>1. SUFFICES ASSUME Inv, [Next]_vars, study' = "accounts" PROVE StaffInv' OBVIOUS
  <2>2. CASE AccountStep BY <2>1, <2>2, StaffNext DEF AccountStep
  <2>3. CASE DoorStep \/ SettingStep \/ CatalogStep
    BY <2>1, <2>3, StaffStays DEF DoorStep, SettingStep, CatalogStep, accountVars
  <2>4. CASE UNCHANGED vars BY <2>1, <2>4, StaffStays DEF vars, accountVars
  <2> QED BY <2>1, <2>2, <2>3, <2>4 DEF Next
<1>3. Inv => AccountsHold BY DEF StaffInv, AccountsHold
<1> QED BY <1>1, <1>2, <1>3, PTL DEF Spec
=============================================================================
