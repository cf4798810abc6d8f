-------------------------- MODULE NotificationDigest --------------------------
(***************************************************************************)
(* The daily e-mail digest of assets/notification_delivery.py: one durable *)
(* row per recipient and day, claimed before the SMTP server is contacted, *)
(* by runs of the timer and of administrators that may overlap, die in the *)
(* middle, or find a database restored to an earlier time of the day.      *)
(* Definitions marked "Mutant" are wrong on purpose and nothing uses them. *)
(***************************************************************************)
EXTENDS Integers

CONSTANTS
    Recipients,
    Runs,               \* processes that call send_digest
    Hours,              \* hours of a day, of which a few are enough
    LastDay,            \* bound: days
    MaxStarts           \* bound: runs that start

MaxAttempts == 3
Never == -1

DigestConstants ==
    /\ Hours \in Nat \ {0} /\ LastDay \in Nat /\ MaxStarts \in Nat

Days == 0..LastDay

VARIABLES
    clock,              \* hours gone
    rows,               \* NotificationDelivery by day and recipient
    saved,              \* the rows in the last backup
    suppressed,         \* digest-suppressed-date, outside the database
    pc, day, todo,      \* of each run: place, window_date, recipients to come
    current,            \* and the recipient that it has claimed
    accepted, tries,    \* history: mails accepted and contacts made
    starts

runVars == <<pc, day, todo, current>>
vars == <<clock, rows, saved, suppressed, runVars, accepted, tries, starts>>

NoRow == [status |-> "pending", attempts |-> 0, at |-> Never]
Nobody == "nobody"

Today == clock \div Hours
Quiet == \A p \in Runs : pc[p] = "idle"
Row(p) == rows[day[p]][current[p]]

Go(p, to) == pc' = [pc EXCEPT ![p] = to]
SetRow(p, r, row) == rows' = [rows EXCEPT ![day[p]][r] = row]

-----------------------------------------------------------------------------
(* A run of send_digest                                                      *)

\* The suppression date is compared with today ...
Start(p) ==
    /\ pc[p] = "idle" /\ starts < MaxStarts
    /\ suppressed # Today
    /\ Go(p, "prepare") /\ starts' = starts + 1
    /\ UNCHANGED <<clock, rows, saved, suppressed, day, todo, current, accepted, tries>>

\* ... and, when alerts and recipients are read, today is asked for again.
Prepare(p) ==
    /\ pc[p] = "prepare"
    /\ day' = [day EXCEPT ![p] = Today] /\ todo' = [todo EXCEPT ![p] = Recipients]
    /\ Go(p, "next")
    /\ UNCHANGED <<clock, rows, saved, suppressed, current, accepted, tries, starts>>

\* Not sent, in flight or unclear; at most three times, an hour apart.
MayClaim(row) ==
    /\ row.status \notin {"sent", "sending", "unknown"} /\ row.attempts < MaxAttempts
    /\ row.at # Never => clock - row.at >= 1

\* One transaction with the row locked.
Claim(p) == \E r \in todo[p] :
    LET row == rows[day[p]][r] IN
    /\ pc[p] = "next"
    /\ todo' = [todo EXCEPT ![p] = @ \ {r}]
    /\ \/ /\ MayClaim(row)
          /\ SetRow(p, r, [status |-> "sending", attempts |-> row.attempts + 1, at |-> clock])
          /\ current' = [current EXCEPT ![p] = r]
          /\ Go(p, "send")
       \/ /\ ~MayClaim(row)
          /\ UNCHANGED <<rows, current, pc>>
    /\ UNCHANGED <<clock, saved, suppressed, day, accepted, tries, starts>>

\* send_smtp_message: the server takes the mail or refuses it, and the answer
\* arrives or is lost (delivery_failed that is not retry_safe).
Contact(p) ==
    LET d == day[p] r == current[p] IN
    /\ pc[p] = "send"
    /\ tries' = [tries EXCEPT ![d][r] = @ + 1]
    /\ \/ Go(p, "sent") /\ accepted' = [accepted EXCEPT ![d][r] = @ + 1]
       \/ Go(p, "refused") /\ UNCHANGED accepted
       \/ Go(p, "lost") /\ accepted' \in {accepted, [accepted EXCEPT ![d][r] = @ + 1]}
    /\ UNCHANGED <<clock, rows, saved, suppressed, day, todo, current, starts>>

\* Mutant: an answer that is lost counts as a failure.
OutcomeOptimistic(result) == IF result = "sent" THEN "sent" ELSE "failed"

Outcome(result) ==
    CASE result = "sent" -> "sent" [] result = "refused" -> "failed" [] result = "lost" -> "unknown"

\* row.save() after the contact, without the lock
Save(p) ==
    /\ pc[p] \in {"sent", "refused", "lost"}
    /\ SetRow(p, current[p], [Row(p) EXCEPT !.status = Outcome(pc[p])])
    /\ current' = [current EXCEPT ![p] = Nobody]
    /\ Go(p, "next")
    /\ UNCHANGED <<clock, saved, suppressed, day, todo, accepted, tries, starts>>

\* Done, or killed.
End(p) ==
    /\ pc[p] # "idle"
    /\ Go(p, "idle")
    /\ current' = [current EXCEPT ![p] = Nobody] /\ todo' = [todo EXCEPT ![p] = {}]
    /\ UNCHANGED <<clock, rows, saved, suppressed, day, accepted, tries, starts>>

-----------------------------------------------------------------------------
(* Its surroundings.  A run holds business_access, so that backups and       *)
(* restores have none beside them.                                           *)

Tick ==
    /\ clock + 1 < Hours * (LastDay + 1)
    /\ clock' = clock + 1
    /\ UNCHANGED <<rows, saved, suppressed, runVars, accepted, tries, starts>>

Backup ==
    /\ Quiet
    /\ saved' = rows
    /\ UNCHANGED <<clock, rows, suppressed, runVars, accepted, tries, starts>>

\* Mutant: the restore does not leave a date.
RestoreSilently ==
    /\ Quiet
    /\ rows' = saved
    /\ UNCHANGED <<clock, saved, suppressed, runVars, accepted, tries, starts>>

\* _post_restore and suppress_restored_notifications: mails cannot be recalled,
\* but their rows may be gone.
Restore ==
    /\ Quiet
    /\ rows' = saved
    /\ suppressed' = Today
    /\ UNCHANGED <<clock, saved, runVars, accepted, tries, starts>>

-----------------------------------------------------------------------------

Counts == [Days -> [Recipients -> Nat]]
NoCounts == [d \in Days |-> [r \in Recipients |-> 0]]

Init ==
    /\ clock = 0
    /\ rows = [d \in Days |-> [r \in Recipients |-> NoRow]] /\ saved = rows
    /\ suppressed = Never
    /\ pc = [p \in Runs |-> "idle"] /\ day = [p \in Runs |-> 0]
    /\ todo = [p \in Runs |-> {}] /\ current = [p \in Runs |-> Nobody]
    /\ accepted = NoCounts /\ tries = NoCounts
    /\ starts = 0

RunStep(p) == Start(p) \/ Prepare(p) \/ Claim(p) \/ Contact(p) \/ Save(p) \/ End(p)

Next == Tick \/ Backup \/ Restore \/ \E p \in Runs : RunStep(p)

Spec == Init /\ [][Next]_vars

-----------------------------------------------------------------------------
(* Properties                                                                *)

RowType == [status : {"pending", "sending", "sent", "failed", "unknown"},
            attempts : 0..MaxAttempts, at : Nat \cup {Never}]

\* Types of rows and runs.
TypeOK ==
    /\ clock \in Nat /\ suppressed \in Days \cup {Never}
    /\ {rows, saved} \subseteq [Days -> [Recipients -> RowType]]
    /\ pc \in [Runs -> {"idle", "prepare", "next", "send", "sent", "refused", "lost"}]
    /\ day \in [Runs -> Days] /\ todo \in [Runs -> SUBSET Recipients]
    /\ current \in [Runs -> Recipients \cup {Nobody}]
    /\ {accepted, tries} \subseteq Counts

\* Nobody gets the digest of a day twice: not from overlapping runs, not after
\* a lost answer or a crash between mail and row, not from a restored database
\* that has forgotten the mail ("never a blind automatic resend"); and the server
\* is contacted at most three times for it, also when a restore has reset the
\* counter.
AtMostOneDigest ==
    /\ TypeOK
    /\ \A d \in Days, r \in Recipients : accepted[d][r] <= 1 /\ tries[d][r] <= MaxAttempts
=============================================================================
