-------------------------------- MODULE Settings --------------------------------
(***************************************************************************)
(* The singleton row of the system settings (system_settings.py): patches  *)
(* of the settings and of the branding under its lock and its revision,    *)
(* and the reset, which reads the row without the lock and saves the       *)
(* columns that it found changed.                                          *)
(*                                                                         *)
(* A column is filled or not, or has one of two values; the others of the  *)
(* row go the same ways.  Definitions marked "Mutant" are wrong on purpose *)
(* and nothing uses them.                                                  *)
(***************************************************************************)
EXTENDS Naturals, FiniteSets

CONSTANTS
    Clients,        \* administrators with the form open
    MaxSaves        \* bound: patches and resets

VARIABLES
    row,            \* SystemSetting
    revision,
    form,           \* what a client has read: [revision, row], or NoForm
    stale,          \* columns the reset has found changed, or NotResetting
    raced,          \* a patch was saved between the two steps of a reset
    blind,          \* a patch was saved over a change its form did not show
    saves

vars == <<row, revision, form, stale, raced, blind, saves>>

Smtp == {"smtp_enabled", "smtp_host", "smtp_from_email", "smtp_username"}
Digest == {"email_digest_enabled", "email_digest_recipients", "application_url"}
Branding == {"branding_display_name"}
\* SETTING_METADATA; "default_locale" stands for all that nothing depends on.
Public == Smtp \cup Digest \cup {"default_locale"}
Secret == {"smtp_password_encrypted"}
ResetKeys == Public \cup Secret
Columns == ResetKeys \cup Branding

Default == [c \in Columns |-> FALSE]
NoForm == [revision |-> 0]
NotResetting == {"no reset"}

-----------------------------------------------------------------------------
(* Patches                                                                   *)

\* Mutant: an enabled service is not checked again when its address changes.
ValidWhenTurnedOn(candidate) ==
    /\ candidate["email_digest_enabled"] /\ ~row["email_digest_enabled"] =>
        candidate["email_digest_recipients"] /\ candidate["application_url"]
    /\ candidate["smtp_enabled"] /\ ~row["smtp_enabled"] =>
        /\ candidate["smtp_host"] /\ candidate["smtp_from_email"]
        /\ candidate["smtp_username"] <=> candidate["smtp_password_encrypted"]

\* _validate_candidate_values
Valid(candidate) ==
    /\ candidate["email_digest_enabled"] => candidate["email_digest_recipients"] /\ candidate["application_url"]
    /\ candidate["smtp_enabled"] =>
        /\ candidate["smtp_host"] /\ candidate["smtp_from_email"]
        /\ candidate["smtp_username"] <=> candidate["smtp_password_encrypted"]

Read(c) ==
    /\ form' = [form EXCEPT ![c] = [revision |-> revision, row |-> row]]
    /\ UNCHANGED <<row, revision, stale, raced, blind, saves>>

\* RevisionedModel.save: the revision is counted by the database.
Save(new) ==
    /\ row' = new
    /\ revision' = IF new = row THEN revision ELSE revision + 1

\* check_resource_revision under the lock of the row
Current(c) == form[c] # NoForm /\ form[c].revision = revision

Accepted(c) ==
    /\ saves < MaxSaves /\ saves' = saves + 1
    /\ Current(c)
    /\ blind' = (blind \/ form[c].row # row)
    /\ raced' = (raced \/ stale # NotResetting)
    /\ form' = [form EXCEPT ![c] = NoForm]
    /\ UNCHANGED stale

\* The columns of one group, flattened, and with "smtp" a new password; a stored
\* password is never sent and never cleared (that it may be replaced shows nowhere).
Groups == {Smtp, Smtp \cup Secret, Digest, {"default_locale"}}
Candidates ==
    UNION {{[c \in Columns |-> IF c \in changed THEN ~row[c] ELSE row[c]] :
               changed \in {x \in SUBSET g : ~\E s \in Secret : s \in x /\ row[s]}} : g \in Groups}

\* apply_system_settings_patch
Patch(c) ==
    /\ Accepted(c)
    /\ \E candidate \in Candidates : Valid(candidate) /\ Save(candidate)

\* apply_branding_patch from the form: what was submitted is saved, changed or not.
PatchBranding(c) ==
    /\ Accepted(c)
    /\ \E values \in [Branding -> BOOLEAN] :
        row' = [x \in Columns |-> IF x \in Branding THEN values[x] ELSE row[x]]
    /\ revision' = revision + 1

-----------------------------------------------------------------------------
(* The reset of the application                                              *)

\* ensure_system_settings: a plain read.
ReadForReset ==
    /\ stale = NotResetting /\ saves < MaxSaves /\ saves' = saves + 1
    /\ stale' = {c \in ResetKeys : row[c] # Default[c]}
    /\ UNCHANGED <<row, revision, form, raced, blind>>

\* reset_system_settings saves what it found changed, reset_branding_settings all
\* of the branding; the lock of the row is held to the end of the transaction.
SaveReset ==
    /\ stale # NotResetting /\ stale' = NotResetting
    /\ row' = [c \in Columns |-> IF c \in stale \cup Branding THEN Default[c] ELSE row[c]]
    /\ revision' = revision + (IF stale = {} THEN 1 ELSE 2)
    /\ UNCHANGED <<form, raced, blind, saves>>

-----------------------------------------------------------------------------
Init ==
    /\ row = Default /\ revision = 1
    /\ form = [c \in Clients |-> NoForm]
    /\ stale = NotResetting /\ raced = FALSE /\ blind = FALSE /\ saves = 0

Next == ReadForReset \/ SaveReset \/ \E c \in Clients : Read(c) \/ Patch(c) \/ PatchBranding(c)

Spec == Init /\ [][Next]_vars

-----------------------------------------------------------------------------
(* Properties *)

\* What is switched on can be used: the digest has recipients and an address for
\* its links, the mail service has its host and its sender, and both parts of its
\* credentials or none.
EnabledIsComplete ==
    /\ row["email_digest_enabled"] => row["email_digest_recipients"] /\ row["application_url"]
    /\ row["smtp_enabled"] => row["smtp_host"] /\ row["smtp_from_email"]
    /\ row["smtp_enabled"] => (row["smtp_username"] = row["smtp_password_encrypted"])

\* However patches of two administrators, of the branding and resets follow each
\* other, none is saved over a change its author has not seen, and what is switched
\* on can be used unless a patch came between the two steps of a reset.
SettingsAreSound == ~blind /\ (EnabledIsComplete \/ raced)
=============================================================================
