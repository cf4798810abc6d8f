------------------------- MODULE AssetRegisterProofs --------------------------
(***************************************************************************)
(* Proofs about the asset register, for any assets, racks, people, rules,  *)
(* requests and server processes.                                          *)
(***************************************************************************)
EXTENDS AssetRegister, SequenceTheorems, TLAPS

RowNames == {AssetRow(a) : a \in Assets} \cup {RackRow(k) : k \in Racks} \cup {PersonRow(p) : p \in People}
Events == [from : People \cup {Nowhere}, to : People \cup {Nowhere}]
Stages == {"idle", "begun", "answering", "locked", "checked"}

ServerTypes ==
    /\ job \in [Workers -> Requests \cup {Idle}] /\ pc \in [Workers -> Stages]
    /\ scope \in [Workers -> SUBSET Rules] /\ base \in [Workers -> AssetRows]
    /\ todo \in [Workers -> Seq(Assets)] /\ held \in [Workers -> SUBSET RowNames]
    /\ shown \in [Workers -> SUBSET ((Centers \cup {Nowhere}) \X (Departments \cup {Nowhere}))]

Types ==
    /\ grant \in [Users \ Managers -> [rules : Grants, rev : Nat]]
    /\ assets \in [Assets -> AssetRows] /\ center \in [Racks -> Centers]
    /\ person \in [People -> {"active", "inactive", "gone"}]
    /\ history \in [Assets -> Seq(Events)] /\ disposals \subseteq Assets
    /\ requests \in 0 .. MaxRequests /\ ServerTypes

Exclusive == \A v, w \in Workers : v # w => held[v] \cap held[w] = {}

\* One asset: its row, its events and its disposal fit together.
RecordFits(a) ==
    LET row == assets[a]  events == history[a] IN
    /\ row.in \/ (row = Missing /\ a \notin disposals)
    /\ row.holder = LastHolder(a)
    /\ \A i \in 2 .. Len(events) : events[i].from = events[i - 1].to
    /\ row.holder # Nowhere => person[row.holder] = "active"
    /\ (row.status = "retired") = (a \in disposals)
    /\ row.status = "retired" \/ row.archived => row.holder = Nowhere /\ row.rack = Nowhere
    /\ row.rack # Nowhere => row.center = center[row.rack]

\* A request works under the present grant of its user.
RequestFits(w) ==
    /\ pc[w] = "idle" => job[w] = Idle /\ shown[w] = {} /\ held[w] = {}
    /\ pc[w] # "idle" =>
        /\ job[w] \in Requests /\ scope[w] = ScopeOf(job[w].user)
        /\ job[w].kind \in AssetKinds => todo[w] # <<>>
    /\ pc[w] \in {"locked", "checked"} => job[w].kind \notin {"read", "grant"}

\* What its client had read is a version of the record.
BaseFits(w) ==
    pc[w] # "idle" /\ job[w].kind \in {"edit", "place"} /\ job[w].match =>
        LET row == assets[Head(todo[w])] IN
        /\ Len(todo[w]) = 1
        /\ base[w].rev <= row.rev
        /\ base[w].rev = row.rev => base[w] = row

\* Once a transaction has its locks they cover what it asks for now, and what
\* it has checked stays true until it commits.
Protected(w) ==
    /\ pc[w] \in {"locked", "checked"} => LockedRows(w) \subseteq held[w]
    /\ pc[w] = "checked" => Allowed(w)

RegisterInv ==
    /\ Types /\ Exclusive
    /\ \A a \in Assets : RecordFits(a)
    /\ \A w \in Workers : RequestFits(w) /\ BaseFits(w) /\ Protected(w)

-----------------------------------------------------------------------------
(* Requests and the rows they lock                                           *)

\* What the fields of a request are.
LEMMA RequestFields ==
  ASSUME NEW q \in Requests
  PROVE  /\ q.kind \in AssetKinds \cup {"read", "create", "rack", "person", "grant"} /\ q.user \in Users
         /\ q.kind \in AssetKinds => q.assets \in Seq(Assets) /\ q.assets # <<>>
         /\ q.kind = "edit" =>
              /\ q.center \in Centers \cup {Nowhere, Keep} /\ q.department \in Departments \cup {Nowhere, Keep}
              /\ q.note \in Int
         /\ q.kind = "place" => q.rack \in Racks \cup {Nowhere}
         /\ q.kind \in {"assign", "transfer"} => q.person \in People
         /\ q.kind = "create" => q.rows \subseteq NewAssets
         /\ q.kind = "rack" => q.rack \in Racks /\ q.to \in Centers
         /\ q.kind = "person" => q.person \in People /\ q.to \in {"active", "inactive", "gone"}
         /\ q.kind = "grant" => q.of \in Users \ Managers /\ q.rules \in Grants
         /\ q.kind \in {"edit", "place"} /\ q.match => Len(q.assets) = 1
<1>1. q \in AllRequests /\ (q.kind \in {"edit", "place"} /\ q.match => Len(q.assets) = 1) BY RequestForms
<1>2. CASE q \in [kind : {"read"}, user : Users] BY <1>1, <1>2 DEF AssetKinds
<1>3. CASE q \in [kind : {"edit"}, user : Users, assets : Batches, match : BOOLEAN,
                  center : Centers \cup {Nowhere, Keep}, department : Departments \cup {Nowhere, Keep}, note : Int]
  BY <1>1, <1>3 DEF AssetKinds, Batches
<1>4. CASE q \in [kind : {"place"}, user : Users, assets : Batches, match : BOOLEAN, rack : Racks \cup {Nowhere}]
  BY <1>1, <1>4 DEF AssetKinds, Batches
<1>5. CASE q \in [kind : {"clear", "return", "dispose", "archive", "restore"}, user : Users, assets : Batches]
  BY <1>1, <1>5 DEF AssetKinds, Batches
<1>6. CASE q \in [kind : {"assign", "transfer"}, user : Users, assets : Batches, person : People]
  BY <1>1, <1>6 DEF AssetKinds, Batches
<1>7. CASE q \in [kind : {"create"}, user : Users, rows : SUBSET NewAssets] BY <1>1, <1>7 DEF AssetKinds
<1>8. CASE q \in [kind : {"rack"}, user : Users, rack : Racks, to : Centers] BY <1>1, <1>8 DEF AssetKinds
<1>9. CASE q \in [kind : {"person"}, user : Users, person : People, to : {"active", "inactive", "gone"}]
  BY <1>1, <1>9 DEF AssetKinds
<1>10. CASE q \in [kind : {"grant"}, user : Users, of : Users \ Managers, rules : Grants]
  BY <1>1, <1>10 DEF AssetKinds
<1> QED BY <1>1, <1>2, <1>3, <1>4, <1>5, <1>6, <1>7, <1>8, <1>9, <1>10 DEF AllRequests

\* A place in the register: an asset with the racks it leaves and goes to.
LEMMA PlaceRowsAre ==
  ASSUME Types, NEW a \in Assets, NEW k \in Racks \cup {Nowhere}
  PROVE  /\ PlaceRows(a, k) \subseteq RowNames /\ AssetRow(a) \in PlaceRows(a, k)
         /\ \A j \in {assets[a].rack, k} \cap Racks :
              RackRow(j) \in PlaceRows(a, k) /\ \A b \in On(j) : AssetRow(b) \in PlaceRows(a, k)
<1> DEFINE racks == {assets[a].rack, k} \ {Nowhere}
           there == UNION {On(j) : j \in racks}
<1>1. PlaceRows(a, k) = {AssetRow(a)} \cup {RackRow(j) : j \in racks} \cup {AssetRow(b) : b \in there}
  BY DEF PlaceRows
<1>2. assets[a].rack \in Racks \cup {Nowhere} BY DEF Types, AssetRows
<1>3. racks \subseteq Racks BY <1>2
<1>4. there \subseteq Assets BY DEF On
<1>5. \A j \in {assets[a].rack, k} \cap Racks : j \in racks
  BY RegisterKeys DEF Nowhere
<1>6. \A j \in racks : On(j) \subseteq there OBVIOUS
<1> HIDE DEF racks, there
<1>7. PlaceRows(a, k) \subseteq RowNames BY <1>1, <1>3, <1>4 DEF RowNames
<1> QED BY <1>1, <1>5, <1>6, <1>7

\* The person, the asset and the racks that a request is about are among the
\* rows it locks.
LEMMA LockedRowsAre ==
  ASSUME Types, NEW w \in Workers, job[w] \in Requests,
         job[w].kind \in AssetKinds => todo[w] # <<>>
  PROVE  LET q == job[w]  a == Head(todo[w]) IN
         /\ q.kind \in AssetKinds => a \in Assets /\ AssetRow(a) \in LockedRows(w)
         /\ q.kind \in {"place", "clear", "dispose", "archive", "restore"} =>
              (assets[a].rack \in Racks => RackRow(assets[a].rack) \in LockedRows(w))
         /\ q.kind = "place" =>
              (q.rack \in Racks => RackRow(q.rack) \in LockedRows(w))
         /\ q.kind \in {"assign", "transfer"} => PersonRow(q.person) \in LockedRows(w)
         /\ q.kind = "create" => \A new \in q.rows :
              /\ AssetRow(new.asset) \in LockedRows(w)
              /\ new.rack \in Racks => RackRow(new.rack) \in LockedRows(w)
              /\ new.holder \in People => PersonRow(new.holder) \in LockedRows(w)
         /\ q.kind = "rack" => RackRow(q.rack) \in LockedRows(w)
                               /\ \A b \in On(q.rack) : AssetRow(b) \in LockedRows(w)
         /\ q.kind = "person" => PersonRow(q.person) \in LockedRows(w)
         /\ q.kind \notin {"read", "grant"} => LockedRows(w) \subseteq RowNames
<1>1. PICK q : q = job[w] OBVIOUS
<1>2. PICK a : a = Head(todo[w]) OBVIOUS
<1>3. q \in Requests BY <1>1
<1>4. q.kind \in AssetKinds => a \in Assets BY <1>1, <1>2, HeadTailProperties DEF Types, ServerTypes
<1>5. PICK people : people = {PersonRow(p) : p \in PeopleLocked(q)} OBVIOUS
<1>6. People \cap {Nowhere} = {} /\ Racks \cap {Nowhere} = {} BY RegisterKeys DEF Nowhere
<1>7. people \subseteq RowNames
  <2>1. q.kind \in {"assign", "transfer"} => PeopleLocked(q) \subseteq People
    BY <1>3, RequestFields DEF PeopleLocked
  <2>2. q.kind = "create" => PeopleLocked(q) \subseteq People
    BY <1>3, RequestFields DEF PeopleLocked, NewAssets
  <2>3. q.kind \notin {"assign", "transfer", "create"} => PeopleLocked(q) \subseteq People
    BY DEF PeopleLocked
  <2> QED BY <1>5, <2>1, <2>2, <2>3 DEF RowNames
<1>8. CASE q.kind \in {"place", "clear", "dispose", "archive", "restore"}
  <2>1. q.kind \in AssetKinds BY <1>8 DEF AssetKinds
  <2>2. PICK k \in Racks \cup {Nowhere} :
          /\ k = IF q.kind = "place" THEN q.rack ELSE Nowhere
          /\ LockedRows(w) = people \cup PlaceRows(a, k)
    BY <1>1, <1>2, <1>3, <1>5, <1>8, RequestFields DEF LockedRows
  <2>3. a \in Assets BY <1>4, <2>1
  <2> QED BY <1>1, <1>2, <1>7, <1>8, <2>1, <2>2, <2>3, PlaceRowsAre
<1>9. CASE q.kind = "edit"
  <2>1. q.kind \in AssetKinds BY <1>9 DEF AssetKinds
  <2>2. LockedRows(w) = people \cup PlaceRows(a, Nowhere) \/ LockedRows(w) = people \cup {AssetRow(a)}
    BY <1>1, <1>2, <1>5, <1>9 DEF LockedRows
  <2>3. a \in Assets BY <1>4, <2>1
  <2>4. AssetRow(a) \in RowNames BY <2>3 DEF RowNames
  <2> QED BY <1>1, <1>2, <1>7, <1>9, <2>1, <2>2, <2>3, <2>4, PlaceRowsAre
<1>10. CASE q.kind \in {"assign", "return", "transfer"}
  <2>1. q.kind \in AssetKinds BY <1>10 DEF AssetKinds
  <2>2. LockedRows(w) = people \cup {AssetRow(a)} BY <1>1, <1>2, <1>5, <1>10 DEF LockedRows
  <2>3. a \in Assets BY <1>4, <2>1
  <2>4. AssetRow(a) \in RowNames BY <2>3 DEF RowNames
  <2>5. q.kind \in {"assign", "transfer"} => PersonRow(q.person) \in people
    BY <1>3, <1>5, <1>6, RequestFields DEF PeopleLocked
  <2> QED BY <1>1, <1>2, <1>7, <1>10, <2>1, <2>2, <2>3, <2>4, <2>5
<1>11. CASE q.kind = "create"
  <2>1. PICK places : places = UNION {PlaceRows(row.asset, row.rack) : row \in q.rows} OBVIOUS
  <2>2. LockedRows(w) = people \cup places BY <1>1, <1>5, <1>11, <2>1 DEF LockedRows
  <2>3. \A row \in q.rows : row.asset \in Assets /\ row.rack \in Racks \cup {Nowhere}
    BY <1>3, <1>11, RequestFields DEF NewAssets
  <2>4. \A row \in q.rows : PlaceRows(row.asset, row.rack) \subseteq places BY <2>1
  <2>5. places \subseteq RowNames BY <2>1, <2>3, PlaceRowsAre
  <2>6. \A row \in q.rows :
          AssetRow(row.asset) \in places /\ (row.rack \in Racks => RackRow(row.rack) \in places)
    BY <2>3, <2>4, PlaceRowsAre
  <2>7. \A row \in q.rows : row.holder \in People => PersonRow(row.holder) \in people
    BY <1>5, <1>6, <1>11 DEF PeopleLocked
  <2>8. q.kind \notin AssetKinds BY <1>11 DEF AssetKinds
  <2> QED BY <1>1, <1>7, <1>11, <2>2, <2>5, <2>6, <2>7, <2>8
<1>12. CASE q.kind = "rack"
  <2>1. LockedRows(w) = people \cup {RackRow(q.rack)} \cup {AssetRow(b) : b \in On(q.rack)}
    BY <1>1, <1>5, <1>12 DEF LockedRows
  <2>2. q.rack \in Racks /\ On(q.rack) \subseteq Assets BY <1>3, <1>12, RequestFields DEF On
  <2>3. LockedRows(w) \subseteq RowNames BY <1>7, <2>1, <2>2 DEF RowNames
  <2> QED BY <1>1, <1>12, <2>1, <2>3 DEF AssetKinds
<1>13. CASE q.kind = "person"
  <2>1. LockedRows(w) = people \cup {PersonRow(q.person)} BY <1>1, <1>5, <1>13 DEF LockedRows
  <2>2. q.person \in People BY <1>3, <1>13, RequestFields
  <2>3. LockedRows(w) \subseteq RowNames BY <1>7, <2>1, <2>2 DEF RowNames
  <2> QED BY <1>1, <1>13, <2>1, <2>3 DEF AssetKinds
<1>14. CASE q.kind \in {"read", "grant"} BY <1>1, <1>14 DEF AssetKinds
<1> QED BY <1>3, <1>8, <1>9, <1>10, <1>11, <1>12, <1>13, <1>14, RequestFields DEF AssetKinds

-----------------------------------------------------------------------------
(* Writes of one record                                                      *)

\* A request that is checked holds the rows it is about, and is allowed.
LEMMA CheckedHolds ==
  ASSUME RegisterInv, NEW w \in Workers, pc[w] = "checked"
  PROVE  LET q == job[w]  a == Head(todo[w]) IN
         /\ q \in Requests /\ q.kind \notin {"read", "grant"} /\ Allowed(w)
         /\ q.kind \in AssetKinds => a \in Assets /\ AssetRow(a) \in held[w]
         /\ q.kind \in {"place", "clear", "dispose", "archive", "restore"} =>
              (assets[a].rack \in Racks => RackRow(assets[a].rack) \in held[w])
         /\ q.kind = "place" =>
              (q.rack \in Racks => RackRow(q.rack) \in held[w])
         /\ q.kind \in {"assign", "transfer"} => PersonRow(q.person) \in held[w]
         /\ q.kind = "create" => \A new \in q.rows :
              /\ AssetRow(new.asset) \in held[w]
              /\ new.rack \in Racks => RackRow(new.rack) \in held[w]
              /\ new.holder \in People => PersonRow(new.holder) \in held[w]
         /\ q.kind = "rack" => RackRow(q.rack) \in held[w]
                               /\ \A b \in On(q.rack) : AssetRow(b) \in held[w]
         /\ q.kind = "person" => PersonRow(q.person) \in held[w]
<1>1. Types /\ RequestFits(w) /\ Protected(w) BY DEF RegisterInv
<1>2. /\ job[w] \in Requests /\ job[w].kind \notin {"read", "grant"} /\ Allowed(w)
      /\ LockedRows(w) \subseteq held[w]
      /\ job[w].kind \in AssetKinds => todo[w] # <<>>
  BY <1>1 DEF RequestFits, Protected
<1> QED BY <1>1, <1>2, LockedRowsAre

SameRecord(b) == assets'[b] = assets[b] /\ history'[b] = history[b] /\ (b \in disposals' <=> b \in disposals)

\* What a commit does that writes one record: it holds what the record had and
\* gets, may write the record as it was and as it is, and leaves it fitting.
OneRecord(w, a) ==
    /\ a \in Assets /\ assets[a].in /\ assets'[a].in /\ AssetRow(a) \in held[w]
    /\ assets' \in [Assets -> AssetRows] /\ history' \in [Assets -> Seq(Events)] /\ disposals' \subseteq Assets
    /\ \A b \in Assets \ {a} : SameRecord(b)
    /\ assets'[a] = assets[a] \/ assets'[a].rev = assets[a].rev + 1
    /\ RecordFits(a)'
    /\ assets'[a].rack # assets[a].rack =>
         \A k \in {assets[a].rack, assets'[a].rack} \cap Racks : RackRow(k) \in held[w]
    /\ assets'[a].holder \notin {assets[a].holder, Nowhere} => PersonRow(assets'[a].holder) \in held[w]
    /\ Mine(w, assets[a]) /\ Mine(w, assets'[a])
    /\ UNCHANGED <<grant, center, person, requests>> /\ NextItem(w)

\* The row of an asset is typed, and fits.
LEMMA RowOf ==
  ASSUME RegisterInv, NEW a \in Assets
  PROVE  assets[a] \in AssetRows /\ RecordFits(a)
BY DEF RegisterInv, Types

\* A record that is saved under its locks, without an event.
LEMMA SavedRecord ==
  ASSUME RegisterInv, NEW w \in Workers, NEW a \in Assets, NEW new \in AssetRows,
         assets[a].in, new.in, AssetRow(a) \in held[w], new = assets[a] \/ new.rev = assets[a].rev + 1,
         assets' = [assets EXCEPT ![a] = new], UNCHANGED <<grant, center, person, history, requests>>,
         disposals' \subseteq Assets, \A b \in Assets \ {a} : b \in disposals' <=> b \in disposals,
         new.holder = assets[a].holder, (new.status = "retired") = (a \in disposals'),
         new.status = "retired" \/ new.archived => new.holder = Nowhere /\ new.rack = Nowhere,
         new.rack # Nowhere => new.center = center[new.rack],
         new.rack # assets[a].rack =>
             \A k \in {assets[a].rack, new.rack} \cap Racks : RackRow(k) \in held[w],
         Mine(w, assets[a]), Mine(w, new), NextItem(w)
  PROVE  OneRecord(w, a)
<1>1. assets'[a] = new BY DEF RegisterInv, Types
<1>2. assets' \in [Assets -> AssetRows] /\ \A b \in Assets \ {a} : assets'[b] = assets[b]
  BY DEF RegisterInv, Types
<1>3. history' \in [Assets -> Seq(Events)] BY DEF RegisterInv, Types
<1>4. \A b \in Assets \ {a} : SameRecord(b) BY <1>2 DEF SameRecord
<1>5. RecordFits(a) BY RowOf
<1>6. LastHolder(a)' = LastHolder(a) BY DEF LastHolder
<1>7. PICK r : r = assets[a] OBVIOUS
<1>8. RecordFits(a)'
  <2>1. new.holder = LastHolder(a)' BY <1>5, <1>6 DEF RecordFits
  <2>2. \A i \in 2 .. Len(history'[a]) : history'[a][i].from = history'[a][i - 1].to
    BY <1>5 DEF RecordFits
  <2>3. new.holder # Nowhere => person'[new.holder] = "active" BY <1>5 DEF RecordFits
  <2>4. new.rack # Nowhere => new.center = center'[new.rack] OBVIOUS
  <2> QED BY <1>1, <2>1, <2>2, <2>3, <2>4 DEF RecordFits
<1>9. new.holder \notin {assets[a].holder, Nowhere} => PersonRow(new.holder) \in held[w] OBVIOUS
<1> QED BY <1>1, <1>2, <1>3, <1>4, <1>8, <1>9 DEF OneRecord

\* The record an edit leaves.
LEMMA EditedRow ==
  ASSUME NEW r \in AssetRows, NEW q
  PROVE  LET c == IF q.center = Keep THEN r.center ELSE q.center
             d == IF q.department = Keep THEN r.department ELSE q.department
         IN Edited(r, q)
              = [in |-> r.in, archived |-> r.archived, center |-> c, rack |-> r.rack, department |-> d,
                 holder |-> r.holder, status |-> r.status, note |-> q.note, rev |-> r.rev + 1]
<1>1. PICK c : c = IF q.center = Keep THEN r.center ELSE q.center OBVIOUS
<1>2. PICK d : d = IF q.department = Keep THEN r.department ELSE q.department OBVIOUS
<1>3. PICK x1 : x1 = [r EXCEPT !.center = c] OBVIOUS
<1>4. PICK x2 : x2 = [x1 EXCEPT !.department = d] OBVIOUS
<1>5. PICK x3 : x3 = [x2 EXCEPT !.note = q.note] OBVIOUS
<1>6. x1 = [in |-> r.in, archived |-> r.archived, center |-> c, rack |-> r.rack, department |-> r.department,
            holder |-> r.holder, status |-> r.status, note |-> r.note, rev |-> r.rev]
  BY <1>3 DEF AssetRows
<1>7. x2 = [in |-> r.in, archived |-> r.archived, center |-> c, rack |-> r.rack, department |-> d,
            holder |-> r.holder, status |-> r.status, note |-> r.note, rev |-> r.rev]
  BY <1>4, <1>6
<1>8. x3 = [in |-> r.in, archived |-> r.archived, center |-> c, rack |-> r.rack, department |-> d,
            holder |-> r.holder, status |-> r.status, note |-> q.note, rev |-> r.rev]
  BY <1>5, <1>7
<1>9. Edited(r, q) = [x3 EXCEPT !.rev = @ + 1] BY <1>1, <1>2, <1>3, <1>4, <1>5 DEF Edited
<1> QED BY <1>1, <1>2, <1>8, <1>9

\* An edit.
LEMMA EditRecord ==
  ASSUME RegisterInv, NEW w \in Workers, CommitEdit(w)
  PROVE  OneRecord(w, Head(todo[w]))
<1>1. PICK a : a = Head(todo[w]) OBVIOUS
<1>2. PICK q : q = job[w] OBVIOUS
<1>3. pc[w] = "checked" /\ q.kind = "edit" BY <1>2 DEF CommitEdit, At
<1>4. a \in Assets /\ AssetRow(a) \in held[w] /\ Allowed(w) /\ q \in Requests
  BY <1>1, <1>2, <1>3, CheckedHolds DEF AssetKinds
<1>5. MayEdit(w, a) BY <1>1, <1>2, <1>3, <1>4 DEF Allowed
<1>6. PICK r : r = assets[a] OBVIOUS
<1>7. r \in AssetRows /\ RecordFits(a) BY <1>4, <1>6, RowOf
<1>8. /\ r.in /\ ~r.archived /\ Mine(w, r) /\ Mine(w, Edited(r, q))
      /\ r.rack # Nowhere /\ q.center # Keep => q.center = center[r.rack]
  BY <1>2, <1>5, <1>6 DEF MayEdit, Active
<1>9. PICK c : c = IF q.center = Keep THEN r.center ELSE q.center OBVIOUS
<1>10. PICK d : d = IF q.department = Keep THEN r.department ELSE q.department OBVIOUS
<1>11. c \in Centers \cup {Nowhere} /\ d \in Departments \cup {Nowhere} /\ q.note \in Int
  BY <1>3, <1>4, <1>7, <1>9, <1>10, RequestFields DEF AssetRows
<1>12. PICK e : e = Edited(r, q) OBVIOUS
<1>13. e = [in |-> r.in, archived |-> r.archived, center |-> c, rack |-> r.rack, department |-> d,
            holder |-> r.holder, status |-> r.status, note |-> q.note, rev |-> r.rev + 1]
  BY <1>7, <1>9, <1>10, <1>12, EditedRow
<1>14. PICK new : new = [e EXCEPT !.rev = r.rev + 1] OBVIOUS
<1>15. new = e BY <1>13, <1>14
<1>16. assets' = [assets EXCEPT ![a] = new] /\ NextItem(w)
       /\ UNCHANGED <<grant, center, person, history, disposals, requests>>
  BY <1>1, <1>2, <1>6, <1>12, <1>14 DEF CommitEdit, Save
<1>17. new \in AssetRows BY <1>7, <1>11, <1>13, <1>15 DEF AssetRows
<1>18. /\ new.in /\ new.holder = r.holder /\ new.status = r.status /\ new.archived = r.archived
       /\ new.rack = r.rack /\ new.center = c /\ new.rev = r.rev + 1
  BY <1>8, <1>13, <1>15
<1>19. new.rack # Nowhere => new.center = center[new.rack]
  BY <1>6, <1>7, <1>8, <1>9, <1>18 DEF RecordFits
<1>20. r.status = "retired" \/ r.archived => r.holder = Nowhere /\ r.rack = Nowhere
  BY <1>6, <1>7 DEF RecordFits
<1>21. disposals' = disposals /\ disposals \subseteq Assets /\ (r.status = "retired") = (a \in disposals)
  BY <1>6, <1>7, <1>16 DEF RecordFits, RegisterInv, Types
<1>22. Mine(w, new) BY <1>8, <1>12, <1>15
<1>23. OneRecord(w, a)
  BY <1>4, <1>6, <1>8, <1>16, <1>17, <1>18, <1>19, <1>20, <1>21, <1>22, SavedRecord
<1> QED BY <1>1, <1>23

\* A record that is moved.
LEMMA MovedRow ==
  ASSUME NEW r \in AssetRows, NEW k, NEW c, NEW n
  PROVE  [[r EXCEPT !.rack = k, !.center = c] EXCEPT !.rev = n]
           = [in |-> r.in, archived |-> r.archived, center |-> c, rack |-> k, department |-> r.department,
              holder |-> r.holder, status |-> r.status, note |-> r.note, rev |-> n]
<1>1. PICK x1 : x1 = [r EXCEPT !.rack = k] OBVIOUS
<1>2. PICK x2 : x2 = [x1 EXCEPT !.center = c] OBVIOUS
<1>3. x1 = [in |-> r.in, archived |-> r.archived, center |-> r.center, rack |-> k, department |-> r.department,
            holder |-> r.holder, status |-> r.status, note |-> r.note, rev |-> r.rev]
  BY <1>1 DEF AssetRows
<1>4. x2 = [in |-> r.in, archived |-> r.archived, center |-> c, rack |-> k, department |-> r.department,
            holder |-> r.holder, status |-> r.status, note |-> r.note, rev |-> r.rev]
  BY <1>2, <1>3
<1>5. [r EXCEPT !.rack = k, !.center = c] = x2 BY <1>1, <1>2
<1>6. [x2 EXCEPT !.rev = n]
        = [in |-> r.in, archived |-> r.archived, center |-> c, rack |-> k, department |-> r.department,
           holder |-> r.holder, status |-> r.status, note |-> r.note, rev |-> n]
  BY <1>4
<1> QED BY ONLY <1>5, <1>6

\* A placement: under its locks the asset takes the center of the rack.
LEMMA PlaceRecord ==
  ASSUME RegisterInv, NEW w \in Workers, CommitPlace(w)
  PROVE  OneRecord(w, Head(todo[w]))
<1>1. PICK a : a = Head(todo[w]) OBVIOUS
<1>2. PICK q : q = job[w] OBVIOUS
<1>3. pc[w] = "checked" /\ q.kind = "place" BY <1>2 DEF CommitPlace, At
<1>4. /\ a \in Assets /\ AssetRow(a) \in held[w] /\ Allowed(w) /\ q \in Requests
      /\ assets[a].rack \in Racks => RackRow(assets[a].rack) \in held[w]
      /\ q.rack \in Racks => RackRow(q.rack) \in held[w]
  BY <1>1, <1>2, <1>3, CheckedHolds DEF AssetKinds
<1>5. MayPlace(w, a) BY <1>1, <1>2, <1>3, <1>4 DEF Allowed
<1>6. PICK r : r = assets[a] OBVIOUS
<1>7. r \in AssetRows /\ RecordFits(a) BY <1>4, <1>6, RowOf
<1>8. PICK k : k = q.rack OBVIOUS
<1>9. PICK c : c = IF k = Nowhere THEN r.center ELSE center[k] OBVIOUS
<1>10. /\ r.in /\ ~r.archived /\ Mine(w, r)
       /\ k # Nowhere => /\ Covers(scope[w], center[k], r.department)
                         /\ r.status = "retired" => r.rack = k
  BY <1>2, <1>5, <1>6, <1>8 DEF MayPlace, Active
<1>11. k \in Racks \cup {Nowhere} BY <1>3, <1>4, <1>8, RequestFields
<1>12. c \in Centers \cup {Nowhere}
  BY <1>7, <1>9, <1>11 DEF AssetRows, RegisterInv, Types
<1>13. PICK new : new = IF r.rack = k THEN r
         ELSE [[r EXCEPT !.rack = k, !.center = c] EXCEPT !.rev = r.rev + 1]
  OBVIOUS
<1>14. /\ NextItem(w) /\ UNCHANGED <<grant, center, person, history, disposals, requests>>
       /\ IF r.rack = k THEN assets' = assets ELSE assets' = [assets EXCEPT ![a] = new]
  BY <1>1, <1>2, <1>6, <1>8, <1>9, <1>13 DEF CommitPlace, Save
<1>15. assets' = [assets EXCEPT ![a] = new]
  BY <1>4, <1>6, <1>13, <1>14 DEF RegisterInv, Types
<1>16. r.rack # k => new = [in |-> r.in, archived |-> r.archived, center |-> c, rack |-> k,
         department |-> r.department, holder |-> r.holder, status |-> r.status, note |-> r.note, rev |-> r.rev + 1]
  BY <1>7, <1>13, MovedRow
<1>17. /\ new.in /\ new.holder = r.holder /\ new.status = r.status /\ new.archived = r.archived
       /\ new.rack = k /\ new.department = r.department /\ (new = r \/ new.rev = r.rev + 1)
       /\ r.rack # k => new.center = c
       /\ r.rack = k => new = r
  BY <1>10, <1>13, <1>16
<1>18. new \in AssetRows BY <1>7, <1>11, <1>12, <1>13, <1>16 DEF AssetRows
<1>19. r.rack # Nowhere => r.center = center[r.rack] BY <1>6, <1>7 DEF RecordFits
<1>20. new.rack # Nowhere => new.center = center[new.rack] BY <1>9, <1>17, <1>19
<1>21. /\ r.status = "retired" \/ r.archived => r.holder = Nowhere /\ r.rack = Nowhere
       /\ (r.status = "retired") = (a \in disposals)
  BY <1>6, <1>7 DEF RecordFits
<1>22. new.status = "retired" \/ new.archived => new.holder = Nowhere /\ new.rack = Nowhere
  BY <1>10, <1>17, <1>21
<1>23. disposals' = disposals /\ disposals \subseteq Assets BY <1>14 DEF RegisterInv, Types
<1>24. Mine(w, new)
  <2>1. CASE r.rack = k BY <1>10, <1>17, <2>1
  <2>2. CASE r.rack # k /\ k # Nowhere BY <1>10, <1>17, <2>2 DEF Mine, CenterOf
  <2>3. CASE r.rack # k /\ k = Nowhere
    <3>1. CenterOf(new) = r.center BY <1>9, <1>17, <2>3 DEF CenterOf
    <3>2. CenterOf(r) = r.center BY <1>19, <2>3 DEF CenterOf
    <3> QED BY <1>10, <1>17, <3>1, <3>2 DEF Mine
  <2> QED BY <2>1, <2>2, <2>3
<1>25. new.rack # r.rack => \A j \in {r.rack, new.rack} \cap Racks : RackRow(j) \in held[w]
  BY <1>4, <1>6, <1>8, <1>17
<1>26. OneRecord(w, a)
  BY <1>4, <1>6, <1>10, <1>14, <1>15, <1>17, <1>18, <1>20, <1>21, <1>22, <1>23, <1>24, <1>25, SavedRecord
<1> QED BY <1>1, <1>26

\* The location is taken from the record.
LEMMA ClearRecord ==
  ASSUME RegisterInv, NEW w \in Workers, CommitClear(w)
  PROVE  OneRecord(w, Head(todo[w]))
<1>1. PICK a : a = Head(todo[w]) OBVIOUS
<1>2. PICK q : q = job[w] OBVIOUS
<1>3. pc[w] = "checked" /\ q.kind = "clear" BY <1>2 DEF CommitClear, At
<1>4. /\ a \in Assets /\ AssetRow(a) \in held[w] /\ Allowed(w) /\ q \in Requests
      /\ assets[a].rack \in Racks => RackRow(assets[a].rack) \in held[w]
  BY <1>1, <1>2, <1>3, CheckedHolds DEF AssetKinds
<1>5. MayClear(w, a) BY <1>1, <1>2, <1>3, <1>4 DEF Allowed
<1>6. PICK r : r = assets[a] OBVIOUS
<1>7. r \in AssetRows /\ RecordFits(a) BY <1>4, <1>6, RowOf
<1>8. r.in /\ ~r.archived /\ Mine(w, r) /\ Covers(scope[w], Nowhere, r.department)
  BY <1>5, <1>6 DEF MayClear, Active
<1>9. PICK new : new = [[r EXCEPT !.rack = Nowhere, !.center = Nowhere] EXCEPT !.rev = r.rev + 1]
  OBVIOUS
<1>10. /\ NextItem(w) /\ UNCHANGED <<grant, center, person, history, disposals, requests>>
       /\ assets' = [assets EXCEPT ![a] = new]
  BY <1>1, <1>6, <1>9 DEF CommitClear, Save
<1>11. new = [in |-> r.in, archived |-> r.archived, center |-> Nowhere, rack |-> Nowhere,
         department |-> r.department, holder |-> r.holder, status |-> r.status, note |-> r.note, rev |-> r.rev + 1]
  BY <1>7, <1>9, MovedRow
<1>12. new \in AssetRows BY <1>7, <1>11 DEF AssetRows
<1>13. /\ new.in /\ new.holder = r.holder /\ new.status = r.status /\ new.archived = r.archived
       /\ new.rack = Nowhere /\ new.center = Nowhere /\ new.department = r.department /\ new.rev = r.rev + 1
  BY <1>8, <1>11
<1>14. /\ r.status = "retired" \/ r.archived => r.holder = Nowhere /\ r.rack = Nowhere
       /\ (r.status = "retired") = (a \in disposals)
  BY <1>6, <1>7 DEF RecordFits
<1>15. disposals' = disposals /\ disposals \subseteq Assets BY <1>10 DEF RegisterInv, Types
<1>16. Mine(w, new) BY <1>8, <1>13 DEF Mine, CenterOf
<1>17. \A j \in {r.rack, new.rack} \cap Racks : RackRow(j) \in held[w]
  BY <1>4, <1>6, <1>13, RegisterKeys DEF Nowhere
<1>18. OneRecord(w, a)
  BY <1>4, <1>6, <1>8, <1>10, <1>12, <1>13, <1>14, <1>15, <1>16, <1>17, SavedRecord
<1> QED BY <1>1, <1>18

\* A record whose status or whose archival alone changes.
LEMMA RemarkedRow ==
  ASSUME NEW r \in AssetRows, NEW s, NEW x, NEW n
  PROVE  /\ [[r EXCEPT !.status = s] EXCEPT !.rev = n]
              = [in |-> r.in, archived |-> r.archived, center |-> r.center, rack |-> r.rack,
                 department |-> r.department, holder |-> r.holder, status |-> s, note |-> r.note, rev |-> n]
         /\ [[r EXCEPT !.archived = x] EXCEPT !.rev = n]
              = [in |-> r.in, archived |-> x, center |-> r.center, rack |-> r.rack,
                 department |-> r.department, holder |-> r.holder, status |-> r.status, note |-> r.note, rev |-> n]
<1>1. PICK x1 : x1 = [r EXCEPT !.status = s] OBVIOUS
<1>2. PICK x2 : x2 = [r EXCEPT !.archived = x] OBVIOUS
<1>3. x1 = [in |-> r.in, archived |-> r.archived, center |-> r.center, rack |-> r.rack, department |-> r.department,
            holder |-> r.holder, status |-> s, note |-> r.note, rev |-> r.rev]
  BY <1>1 DEF AssetRows
<1>4. x2 = [in |-> r.in, archived |-> x, center |-> r.center, rack |-> r.rack, department |-> r.department,
            holder |-> r.holder, status |-> r.status, note |-> r.note, rev |-> r.rev]
  BY <1>2 DEF AssetRows
<1>5. [x1 EXCEPT !.rev = n]
        = [in |-> r.in, archived |-> r.archived, center |-> r.center, rack |-> r.rack, department |-> r.department,
           holder |-> r.holder, status |-> s, note |-> r.note, rev |-> n]
  BY <1>3
<1>6. [x2 EXCEPT !.rev = n]
        = [in |-> r.in, archived |-> x, center |-> r.center, rack |-> r.rack, department |-> r.department,
           holder |-> r.holder, status |-> r.status, note |-> r.note, rev |-> n]
  BY <1>4
<1> QED BY ONLY <1>1, <1>2, <1>5, <1>6

\* A disposal, with the event that records it.
LEMMA DisposeRecord ==
  ASSUME RegisterInv, NEW w \in Workers, CommitDispose(w)
  PROVE  OneRecord(w, Head(todo[w]))
<1>1. PICK a : a = Head(todo[w]) OBVIOUS
<1>2. PICK q : q = job[w] OBVIOUS
<1>3. pc[w] = "checked" /\ q.kind = "dispose" BY <1>2 DEF CommitDispose, At
<1>4. a \in Assets /\ AssetRow(a) \in held[w] /\ Allowed(w) /\ q \in Requests
  BY <1>1, <1>2, <1>3, CheckedHolds DEF AssetKinds
<1>5. MayDispose(w, a) BY <1>1, <1>2, <1>3, <1>4 DEF Allowed
<1>6. PICK r : r = assets[a] OBVIOUS
<1>7. r \in AssetRows BY <1>4, <1>6, RowOf
<1>8. r.in /\ Mine(w, r) /\ r.holder = Nowhere /\ r.rack = Nowhere
  BY <1>5, <1>6 DEF MayDispose, Active
<1>9. PICK new : new = [[r EXCEPT !.status = "retired"] EXCEPT !.rev = r.rev + 1] OBVIOUS
<1>10. /\ NextItem(w) /\ UNCHANGED <<grant, center, person, history, requests>>
       /\ assets' = [assets EXCEPT ![a] = new] /\ disposals' = disposals \cup {a}
  BY <1>1, <1>6, <1>9 DEF CommitDispose, Save
<1>11. new = [in |-> r.in, archived |-> r.archived, center |-> r.center, rack |-> r.rack,
         department |-> r.department, holder |-> r.holder, status |-> "retired", note |-> r.note, rev |-> r.rev + 1]
  BY <1>7, <1>9, RemarkedRow
<1>12. new \in AssetRows BY <1>7, <1>11 DEF AssetRows, Statuses
<1>13. /\ new.in /\ new.holder = r.holder /\ new.status = "retired" /\ new.center = r.center
       /\ new.rack = r.rack /\ new.department = r.department /\ new.rev = r.rev + 1
  BY <1>8, <1>11
<1>14. disposals' \subseteq Assets /\ (\A b \in Assets \ {a} : b \in disposals' <=> b \in disposals) /\ a \in disposals'
  BY <1>4, <1>10 DEF RegisterInv, Types
<1>15. Mine(w, new) BY <1>8, <1>13 DEF Mine, CenterOf
<1>16. OneRecord(w, a)
  BY <1>4, <1>6, <1>8, <1>10, <1>12, <1>13, <1>14, <1>15, SavedRecord
<1> QED BY <1>1, <1>16

\* An archival or a restoration.
LEMMA ArchiveRecord ==
  ASSUME RegisterInv, NEW w \in Workers, CommitArchive(w)
  PROVE  OneRecord(w, Head(todo[w]))
<1>1. PICK a : a = Head(todo[w]) OBVIOUS
<1>2. PICK q : q = job[w] OBVIOUS
<1>3. pc[w] = "checked" /\ q.kind \in {"archive", "restore"} BY <1>2 DEF CommitArchive, At
<1>4. a \in Assets /\ AssetRow(a) \in held[w] /\ Allowed(w) /\ q \in Requests
  BY <1>1, <1>2, <1>3, CheckedHolds DEF AssetKinds
<1>5. q.kind = "archive" => MayArchive(w, a) BY <1>1, <1>2, <1>4 DEF Allowed
<1>6. q.kind = "restore" => MayRestore(w, a) BY <1>1, <1>2, <1>4 DEF Allowed
<1>7. PICK r : r = assets[a] OBVIOUS
<1>8. r \in AssetRows /\ RecordFits(a) BY <1>4, <1>7, RowOf
<1>9. /\ r.in /\ Mine(w, r)
      /\ q.kind = "archive" => r.holder = Nowhere /\ r.rack = Nowhere
  BY <1>3, <1>5, <1>6, <1>7 DEF MayArchive, MayRestore, Active
<1>10. PICK wanted : wanted = (q.kind = "archive") OBVIOUS
<1>11. PICK new : new = IF r.archived = wanted THEN r ELSE [[r EXCEPT !.archived = wanted] EXCEPT !.rev = r.rev + 1]
  OBVIOUS
<1>12. /\ NextItem(w) /\ UNCHANGED <<grant, center, person, history, disposals, requests>>
       /\ IF r.archived = wanted THEN assets' = assets ELSE assets' = [assets EXCEPT ![a] = new]
  BY <1>1, <1>2, <1>7, <1>10, <1>11 DEF CommitArchive, Save
<1>13. assets' = [assets EXCEPT ![a] = new] BY <1>4, <1>7, <1>11, <1>12 DEF RegisterInv, Types
<1>14. r.archived # wanted => new = [in |-> r.in, archived |-> wanted, center |-> r.center, rack |-> r.rack,
         department |-> r.department, holder |-> r.holder, status |-> r.status, note |-> r.note, rev |-> r.rev + 1]
  BY <1>8, <1>11, RemarkedRow
<1>15. new \in AssetRows
  <2>1. wanted \in BOOLEAN BY <1>10
  <2>2. CASE r.archived = wanted BY <1>8, <1>11, <2>2
  <2>3. CASE r.archived # wanted BY <1>8, <1>14, <2>1, <2>3 DEF AssetRows
  <2> QED BY <2>2, <2>3
<1>16. /\ new.in /\ new.holder = r.holder /\ new.status = r.status /\ new.center = r.center
       /\ new.rack = r.rack /\ new.department = r.department /\ (new = r \/ new.rev = r.rev + 1)
       /\ new.archived = wanted
  BY <1>9, <1>11, <1>14
<1>17. /\ r.status = "retired" \/ r.archived => r.holder = Nowhere /\ r.rack = Nowhere
       /\ (r.status = "retired") = (a \in disposals)
       /\ r.rack # Nowhere => r.center = center[r.rack]
  BY <1>7, <1>8 DEF RecordFits
<1>18. new.status = "retired" \/ new.archived => new.holder = Nowhere /\ new.rack = Nowhere
  BY <1>9, <1>10, <1>16, <1>17
<1>19. disposals' = disposals /\ disposals \subseteq Assets BY <1>12 DEF RegisterInv, Types
<1>20. Mine(w, new) BY <1>9, <1>16 DEF Mine, CenterOf
<1>21. OneRecord(w, a)
  BY <1>4, <1>7, <1>9, <1>12, <1>13, <1>15, <1>16, <1>17, <1>18, <1>19, <1>20, SavedRecord
<1> QED BY <1>1, <1>21

\* An assignment, a return or a transfer, with its event.
LEMMA AssignRecord ==
  ASSUME RegisterInv, NEW w \in Workers, CommitAssign(w)
  PROVE  OneRecord(w, Head(todo[w]))
<1>1. PICK a : a = Head(todo[w]) OBVIOUS
<1>2. PICK q : q = job[w] OBVIOUS
<1>3. pc[w] = "checked" /\ q.kind \in {"assign", "return", "transfer"} BY <1>2 DEF CommitAssign, At
<1>4. /\ a \in Assets /\ AssetRow(a) \in held[w] /\ Allowed(w) /\ q \in Requests
      /\ q.kind \in {"assign", "transfer"} => PersonRow(q.person) \in held[w]
  BY <1>1, <1>2, <1>3, CheckedHolds DEF AssetKinds
<1>5. MayAssign(w, a) BY <1>1, <1>2, <1>3, <1>4 DEF Allowed
<1>6. PICK r : r = assets[a] OBVIOUS
<1>7. r \in AssetRows /\ RecordFits(a) BY <1>4, <1>6, RowOf
<1>8. /\ r.in /\ ~r.archived /\ Mine(w, r)
      /\ q.kind \in {"assign", "transfer"} => r.status # "retired" /\ person[q.person] = "active"
      /\ (r.holder = Nowhere) = (q.kind = "assign")
  BY <1>2, <1>5, <1>6 DEF MayAssign, Active, MayHold
<1>9. /\ r.status = "retired" \/ r.archived => r.holder = Nowhere /\ r.rack = Nowhere
      /\ (r.status = "retired") = (a \in disposals)
      /\ r.rack # Nowhere => r.center = center[r.rack]
      /\ r.holder = LastHolder(a)
      /\ \A i \in 2 .. Len(history[a]) : history[a][i].from = history[a][i - 1].to
  BY <1>6, <1>7 DEF RecordFits
<1>10. r.status # "retired" /\ a \notin disposals BY <1>3, <1>8, <1>9
<1>11. PICK to : to = IF q.kind = "return" THEN Nowhere ELSE q.person OBVIOUS
<1>12. /\ to \in People \cup {Nowhere}
       /\ to # Nowhere => person[to] = "active" /\ PersonRow(to) \in held[w]
  BY <1>3, <1>4, <1>8, <1>11, RequestFields
<1>13. PICK s : s = StatusAfter(r, q.kind) OBVIOUS
<1>14. s \in Statuses /\ s # "retired"
  <2>1. CASE q.kind = "assign" BY <1>13, <2>1 DEF StatusAfter, Statuses
  <2>2. CASE q.kind = "return" BY <1>10, <1>13, <2>2 DEF StatusAfter, Statuses
  <2>3. CASE q.kind = "transfer"
    <3>1. s = r.status BY <1>13, <2>3 DEF StatusAfter
    <3> QED BY <1>7, <1>10, <3>1 DEF AssetRows
  <2> QED BY <1>3, <2>1, <2>2, <2>3
<1>15. PICK new : new = [[r EXCEPT !.holder = to, !.status = s] EXCEPT !.rev = r.rev + 1] OBVIOUS
<1>16. new = [in |-> r.in, archived |-> r.archived, center |-> r.center, rack |-> r.rack,
              department |-> r.department, holder |-> to, status |-> s, note |-> r.note, rev |-> r.rev + 1]
  <2>1. PICK x1 : x1 = [r EXCEPT !.holder = to] OBVIOUS
  <2>2. PICK x2 : x2 = [x1 EXCEPT !.status = s] OBVIOUS
  <2>3. x1 = [in |-> r.in, archived |-> r.archived, center |-> r.center, rack |-> r.rack, department |-> r.department,
              holder |-> to, status |-> r.status, note |-> r.note, rev |-> r.rev]
    BY <1>7, <2>1 DEF AssetRows
  <2>4. x2 = [in |-> r.in, archived |-> r.archived, center |-> r.center, rack |-> r.rack, department |-> r.department,
              holder |-> to, status |-> s, note |-> r.note, rev |-> r.rev]
    BY <2>2, <2>3
  <2>5. [r EXCEPT !.holder = to, !.status = s] = x2 BY <2>1, <2>2
  <2>6. [x2 EXCEPT !.rev = r.rev + 1]
          = [in |-> r.in, archived |-> r.archived, center |-> r.center, rack |-> r.rack,
             department |-> r.department, holder |-> to, status |-> s, note |-> r.note, rev |-> r.rev + 1]
    BY <2>4
  <2> QED BY ONLY <1>15, <2>5, <2>6
<1>17. PICK e : e = Event(r.holder, to) OBVIOUS
<1>18. e \in Events /\ e.from = r.holder /\ e.to = to
  <2>1. r.holder \in People \cup {Nowhere} BY <1>7 DEF AssetRows
  <2> QED BY <1>12, <1>17, <2>1 DEF Events, Event
<1>19. /\ NextItem(w) /\ UNCHANGED <<grant, center, person, disposals, requests>>
       /\ assets' = [assets EXCEPT ![a] = new]
       /\ history' = [history EXCEPT ![a] = Append(@, e)]
  BY <1>1, <1>2, <1>6, <1>11, <1>13, <1>15, <1>17 DEF CommitAssign, Save
<1>20. new \in AssetRows BY <1>7, <1>12, <1>14, <1>16 DEF AssetRows
<1>21. /\ new.in /\ ~new.archived /\ new.holder = to /\ new.status = s /\ new.center = r.center
       /\ new.rack = r.rack /\ new.department = r.department /\ new.rev = r.rev + 1
  BY <1>8, <1>16
<1>22. assets'[a] = new /\ assets' \in [Assets -> AssetRows] /\ \A b \in Assets \ {a} : assets'[b] = assets[b]
  BY <1>4, <1>19, <1>20 DEF RegisterInv, Types
<1>23. PICK h : h = history[a] OBVIOUS
<1>24. h \in Seq(Events) BY <1>4, <1>23 DEF RegisterInv, Types
<1>25. /\ Append(h, e) \in Seq(Events) /\ Len(Append(h, e)) = Len(h) + 1
       /\ \A i \in 1 .. Len(h) : Append(h, e)[i] = h[i]
       /\ Append(h, e)[Len(h) + 1] = e
  BY <1>18, <1>24, AppendProperties
<1>26. history'[a] = Append(h, e) /\ \A b \in Assets \ {a} : history'[b] = history[b]
  BY <1>4, <1>19, <1>23 DEF RegisterInv, Types
<1>27. history' \in [Assets -> Seq(Events)]
  BY <1>4, <1>19, <1>23, <1>25 DEF RegisterInv, Types
<1>28. LastHolder(a)' = to
  <2>1. Append(h, e) # <<>> BY <1>18, <1>24, AppendProperties
  <2> QED BY <1>18, <1>25, <1>26, <2>1 DEF LastHolder
<1>29. \A i \in 2 .. Len(history'[a]) : history'[a][i].from = history'[a][i - 1].to
  <2> SUFFICES ASSUME NEW i \in 2 .. Len(h) + 1 PROVE Append(h, e)[i].from = Append(h, e)[i - 1].to
    BY <1>25, <1>26
  <2>1. Len(h) \in Nat BY <1>24
  <2>2. CASE i \in 2 .. Len(h)
    <3>1. i \in 1 .. Len(h) /\ i - 1 \in 1 .. Len(h) BY <2>1, <2>2
    <3>2. h[i].from = h[i - 1].to BY <1>9, <1>23, <2>2
    <3> QED BY <1>25, <3>1, <3>2
  <2>3. CASE i = Len(h) + 1
    <3>1. Len(h) >= 1 /\ i - 1 = Len(h) /\ Len(h) \in 1 .. Len(h) BY <2>1, <2>3
    <3>2. h # <<>> BY <1>24, <3>1
    <3>3. r.holder = h[Len(h)].to BY <1>9, <1>23, <3>2 DEF LastHolder
    <3> QED BY <1>18, <1>25, <2>3, <3>1, <3>3
  <2> QED BY <2>1, <2>2, <2>3
<1>30. \A b \in Assets \ {a} : SameRecord(b) BY <1>19, <1>22, <1>26 DEF SameRecord
<1>31. RecordFits(a)'
  <2>1. new.holder # Nowhere => person'[new.holder] = "active" BY <1>12, <1>19, <1>21
  <2>2. a \notin disposals' /\ new.status # "retired" BY <1>10, <1>14, <1>19, <1>21
  <2>3. new.rack # Nowhere => new.center = center'[new.rack] BY <1>9, <1>19, <1>21
  <2> QED BY <1>21, <1>22, <1>28, <1>29, <2>1, <2>2, <2>3 DEF RecordFits
<1>32. Mine(w, new) BY <1>8, <1>21 DEF Mine, CenterOf
<1>33. disposals' \subseteq Assets BY <1>19 DEF RegisterInv, Types
<1>34. new.holder \notin {r.holder, Nowhere} => PersonRow(new.holder) \in held[w] BY <1>12, <1>21
<1>35. OneRecord(w, a)
  BY <1>4, <1>6, <1>8, <1>19, <1>21, <1>22, <1>27, <1>30, <1>31, <1>32, <1>33, <1>34 DEF OneRecord
<1> QED BY <1>1, <1>35

\* The commits that write one record.
LEMMA RecordCommits ==
  ASSUME RegisterInv, NEW w \in Workers,
         CommitEdit(w) \/ CommitPlace(w) \/ CommitClear(w) \/ CommitAssign(w) \/ CommitDispose(w) \/ CommitArchive(w)
  PROVE  OneRecord(w, Head(todo[w]))
BY EditRecord, PlaceRecord, ClearRecord, AssignRecord, DisposeRecord, ArchiveRecord

-----------------------------------------------------------------------------
(* What any commit may do                                                    *)

\* A record that a commit writes: under its lock, with the rows it is moved
\* between and the person it is given to, as a new version, and within the
\* scope of the request before and after.
Written(w, a) ==
    /\ AssetRow(a) \in held[w] /\ assets'[a].in
    /\ assets'[a].rack # assets[a].rack =>
         \A k \in {assets[a].rack, assets'[a].rack} \cap Racks : RackRow(k) \in held[w]
    /\ assets'[a].holder \notin {assets[a].holder, Nowhere} => PersonRow(assets'[a].holder) \in held[w]
    /\ assets[a].in => Mine(w, assets[a])
    /\ Covers(scope[w], CenterOf(assets[a])', assets'[a].department)

Effect(w) ==
    /\ assets' \in [Assets -> AssetRows] /\ history' \in [Assets -> Seq(Events)] /\ disposals' \subseteq Assets
    /\ center' \in [Racks -> Centers] /\ person' \in [People -> {"active", "inactive", "gone"}]
    /\ \A a \in Assets :
         /\ RecordFits(a)'
         /\ assets'[a] = assets[a] \/ assets'[a].rev = assets[a].rev + 1
         /\ (SameRecord(a) /\ CenterOf(assets[a])' = CenterOf(assets[a])) \/ Written(w, a)
    /\ \A k \in Racks : center'[k] = center[k] \/ RackRow(k) \in held[w]
    /\ \A p \in People : person'[p] = person[p] \/ PersonRow(p) \in held[w]

\* A step that leaves the records alone.
LEMMA QuietEffect ==
  ASSUME RegisterInv, NEW w \in Workers, UNCHANGED records
  PROVE  Effect(w)
<1>1. UNCHANGED <<assets, center, person, history, disposals>> BY DEF records
<1>2. \A a \in Assets : RecordFits(a)'
  <2> SUFFICES ASSUME NEW a \in Assets PROVE RecordFits(a)' OBVIOUS
  <2>1. RecordFits(a) BY RowOf
  <2>2. LastHolder(a)' = LastHolder(a) BY <1>1 DEF LastHolder
  <2> QED BY <1>1, <2>1, <2>2 DEF RecordFits
<1>3. \A a \in Assets : SameRecord(a) /\ CenterOf(assets[a])' = CenterOf(assets[a])
  BY <1>1 DEF SameRecord, CenterOf
<1> QED BY <1>1, <1>2, <1>3 DEF Effect, RegisterInv, Types

\* A commit of one record.
LEMMA OneEffect ==
  ASSUME RegisterInv, NEW w \in Workers, NEW a \in Assets, OneRecord(w, a)
  PROVE  Effect(w)
<1>1. center' = center /\ person' = person BY DEF OneRecord
<1>2. \A b \in Assets \ {a} : SameRecord(b) /\ CenterOf(assets[b])' = CenterOf(assets[b])
  BY <1>1 DEF OneRecord, SameRecord, CenterOf
<1>3. ASSUME NEW b \in Assets \ {a} PROVE RecordFits(b)'
  <2>1. RecordFits(b) BY RowOf
  <2>2. SameRecord(b) BY <1>2
  <2>3. LastHolder(b)' = LastHolder(b) BY <2>2 DEF LastHolder, SameRecord
  <2> QED BY <1>1, <2>1, <2>2, <2>3 DEF RecordFits, SameRecord
<1>4. Written(w, a)
  <2>1. CenterOf(assets[a])' = CenterOf(assets'[a]) BY <1>1 DEF CenterOf
  <2>2. Covers(scope[w], CenterOf(assets[a])', assets'[a].department)
    BY <2>1 DEF OneRecord, Mine
  <2> QED BY <2>2 DEF Written, OneRecord
<1>5. \A b \in Assets : RecordFits(b)' BY <1>3 DEF OneRecord
<1>6. \A b \in Assets : assets'[b] = assets[b] \/ assets'[b].rev = assets[b].rev + 1
  BY DEF OneRecord, SameRecord
<1>7. \A b \in Assets : (SameRecord(b) /\ CenterOf(assets[b])' = CenterOf(assets[b])) \/ Written(w, b)
  BY <1>2, <1>4
<1>8. center' \in [Racks -> Centers] /\ person' \in [People -> {"active", "inactive", "gone"}]
  BY <1>1 DEF RegisterInv, Types
<1> QED BY <1>1, <1>5, <1>6, <1>7, <1>8 DEF Effect, OneRecord

\* A row that is created.
LEMMA CreatedRow ==
  ASSUME Types, NEW new \in NewAssets
  PROVE  LET c == IF new.rack = Nowhere THEN new.center ELSE center[new.rack] IN
         /\ Created(new) = [in |-> TRUE, archived |-> FALSE, center |-> c, rack |-> new.rack,
              department |-> new.department, holder |-> new.holder,
              status |-> IF new.holder = Nowhere THEN "in_stock" ELSE "in_use", note |-> 0, rev |-> 1]
         /\ Created(new) \in AssetRows
<1>1. PICK c : c = IF new.rack = Nowhere THEN new.center ELSE center[new.rack] OBVIOUS
<1>2. PICK s : s = IF new.holder = Nowhere THEN "in_stock" ELSE "in_use" OBVIOUS
<1>3. PICK x1 : x1 = [Missing EXCEPT !.in = TRUE] OBVIOUS
<1>4. PICK x2 : x2 = [x1 EXCEPT !.rack = new.rack] OBVIOUS
<1>5. PICK x3 : x3 = [x2 EXCEPT !.department = new.department] OBVIOUS
<1>6. PICK x4 : x4 = [x3 EXCEPT !.rev = 1] OBVIOUS
<1>7. PICK x5 : x5 = [x4 EXCEPT !.center = c] OBVIOUS
<1>8. PICK x6 : x6 = [x5 EXCEPT !.holder = new.holder] OBVIOUS
<1>9. PICK x7 : x7 = [x6 EXCEPT !.status = s] OBVIOUS
<1>10. x2 = [in |-> TRUE, archived |-> FALSE, center |-> Nowhere, rack |-> new.rack, department |-> Nowhere,
             holder |-> Nowhere, status |-> "in_stock", note |-> 0, rev |-> 0]
  BY <1>3, <1>4 DEF Missing
<1>11. x4 = [in |-> TRUE, archived |-> FALSE, center |-> Nowhere, rack |-> new.rack, department |-> new.department,
             holder |-> Nowhere, status |-> "in_stock", note |-> 0, rev |-> 1]
  BY <1>5, <1>6, <1>10
<1>12. x6 = [in |-> TRUE, archived |-> FALSE, center |-> c, rack |-> new.rack, department |-> new.department,
             holder |-> new.holder, status |-> "in_stock", note |-> 0, rev |-> 1]
  BY <1>7, <1>8, <1>11
<1>13. x7 = [in |-> TRUE, archived |-> FALSE, center |-> c, rack |-> new.rack, department |-> new.department,
             holder |-> new.holder, status |-> s, note |-> 0, rev |-> 1]
  BY <1>9, <1>12
<1>14. Created(new) = [x6 EXCEPT !.status = IF new.holder = Nowhere THEN @ ELSE "in_use"]
  BY <1>1, <1>3, <1>4, <1>5, <1>6, <1>7, <1>8 DEF Created
<1>15. x6.status = "in_stock" BY <1>12
<1>16. Created(new) = x7 BY <1>2, <1>9, <1>14, <1>15
<1>17. c \in Centers \cup {Nowhere} BY <1>1 DEF Types, NewAssets
<1>18. s \in Statuses BY <1>2 DEF Statuses
<1>19. x7 \in AssetRows BY <1>13, <1>17, <1>18 DEF AssetRows, NewAssets
<1> QED BY <1>1, <1>2, <1>13, <1>16, <1>19

\* Creation, of one asset or of all the rows of an import.
LEMMA CreateEffect ==
  ASSUME RegisterInv, NEW w \in Workers, CommitCreate(w)
  PROVE  Effect(w)
<1>1. PICK q : q = job[w] OBVIOUS
<1>2. pc[w] = "checked" /\ q.kind = "create" BY <1>1 DEF CommitCreate, At
<1>3. /\ Allowed(w) /\ q \in Requests
      /\ \A new \in q.rows :
              /\ AssetRow(new.asset) \in held[w]
              /\ new.rack \in Racks => RackRow(new.rack) \in held[w]
              /\ new.holder \in People => PersonRow(new.holder) \in held[w]
  BY <1>1, <1>2, CheckedHolds
<1>4. MayCreate(w) BY <1>1, <1>2, <1>3 DEF Allowed
<1>5. q.rows \subseteq NewAssets BY <1>2, <1>3, RequestFields
<1> DEFINE rowsOf(a) == {row \in q.rows : row.asset = a}
           made(a) == CHOOSE row \in rowsOf(a) : TRUE
<1>6. /\ assets' = [a \in Assets |-> IF rowsOf(a) = {} THEN assets[a] ELSE Created(made(a))]
      /\ history' = [a \in Assets |->
           IF assets'[a] = assets[a] \/ assets'[a].holder = Nowhere THEN history[a]
           ELSE <<Event(Nowhere, assets'[a].holder)>>]
      /\ UNCHANGED <<grant, center, person, disposals, requests>>
  BY <1>1 DEF CommitCreate
<1>7. \A a \in Assets : rowsOf(a) # {} => made(a) \in q.rows /\ made(a).asset = a OBVIOUS
<1> HIDE DEF rowsOf, made
<1>8. ASSUME NEW a \in Assets, rowsOf(a) = {}
      PROVE  assets'[a] \in AssetRows /\ history'[a] \in Seq(Events) /\ RecordFits(a)' /\ SameRecord(a)
             /\ CenterOf(assets[a])' = CenterOf(assets[a])
  <2>1. assets'[a] = assets[a] BY <1>6, <1>8
  <2>2. SameRecord(a) BY <1>6, <2>1 DEF SameRecord
  <2>3. assets[a] \in AssetRows /\ RecordFits(a) BY RowOf
  <2>4. LastHolder(a)' = LastHolder(a) BY <2>2 DEF LastHolder, SameRecord
  <2>5. RecordFits(a)' BY <1>6, <2>2, <2>3, <2>4 DEF RecordFits, SameRecord
  <2>6. history'[a] \in Seq(Events) BY <2>2 DEF SameRecord, RegisterInv, Types
  <2> QED BY <1>6, <2>1, <2>2, <2>3, <2>5, <2>6 DEF CenterOf
<1>9. ASSUME NEW a \in Assets, rowsOf(a) # {}
      PROVE  assets'[a] \in AssetRows /\ history'[a] \in Seq(Events) /\ RecordFits(a)' /\ Written(w, a)
             /\ assets'[a].rev = assets[a].rev + 1
  <2>1. PICK new \in NewAssets : new = made(a) /\ new \in q.rows /\ new.asset = a BY <1>5, <1>7, <1>9
  <2>2. PICK c : c = IF new.rack = Nowhere THEN new.center ELSE center[new.rack] OBVIOUS
  <2>3. /\ ~assets[a].in /\ Covers(scope[w], c, new.department)
        /\ new.holder # Nowhere => person[new.holder] = "active"
    BY <1>1, <1>4, <2>1, <2>2 DEF MayCreate, MayHold
  <2>4. RecordFits(a) BY RowOf
  <2>5. assets[a] = Missing /\ a \notin disposals /\ LastHolder(a) = Nowhere
    BY <2>3, <2>4 DEF RecordFits, Missing
  <2>6. assets[a].rack = Nowhere /\ assets[a].holder = Nowhere /\ assets[a].rev = 0 /\ ~assets[a].in
    BY <2>5 DEF Missing
  <2>7. PICK r : r = assets'[a] OBVIOUS
  <2>8. r = Created(new) BY <1>6, <1>9, <2>1, <2>7
  <2>9. Types BY DEF RegisterInv
  <2>10. /\ r \in AssetRows
         /\ r = [in |-> TRUE, archived |-> FALSE, center |-> c, rack |-> new.rack,
              department |-> new.department, holder |-> new.holder,
              status |-> IF new.holder = Nowhere THEN "in_stock" ELSE "in_use", note |-> 0, rev |-> 1]
    BY <2>2, <2>8, <2>9, CreatedRow
  <2>11. /\ r.in /\ ~r.archived /\ r.center = c /\ r.rack = new.rack /\ r.department = new.department
         /\ r.holder = new.holder /\ r.status # "retired" /\ r.rev = 1
    BY <2>10
  <2>12. r # assets[a] BY <2>6, <2>11
  <2>13. PICK e : e = Event(Nowhere, new.holder) OBVIOUS
  <2>14. history'[a] = IF new.holder = Nowhere THEN history[a] ELSE <<e>>
    BY <1>6, <2>7, <2>11, <2>12, <2>13
  <2>15. e \in Events /\ e.to = new.holder BY <2>13 DEF Events, Event, NewAssets
  <2>16. history[a] \in Seq(Events) BY DEF RegisterInv, Types
  <2>17. history'[a] \in Seq(Events) BY <2>14, <2>15, <2>16
  <2>18. LastHolder(a)' = new.holder
    <3>1. CASE new.holder = Nowhere
      <4>1. LastHolder(a)' = LastHolder(a) BY <2>14, <3>1 DEF LastHolder
      <4> QED BY <2>5, <3>1, <4>1
    <3>2. CASE new.holder # Nowhere
      <4>1. history'[a] = <<e>> BY <2>14, <3>2
      <4>2. <<e>> # <<>> /\ Len(<<e>>) = 1 /\ <<e>>[1] = e OBVIOUS
      <4> QED BY <2>15, <4>1, <4>2 DEF LastHolder
    <3> QED BY <3>1, <3>2
  <2>19. \A i \in 2 .. Len(history'[a]) : history'[a][i].from = history'[a][i - 1].to
    <3>1. CASE new.holder = Nowhere BY <2>4, <2>14, <3>1 DEF RecordFits
    <3>2. CASE new.holder # Nowhere
      <4>1. Len(history'[a]) = 1 BY <2>14, <3>2
      <4> QED BY <4>1
    <3> QED BY <3>1, <3>2
  <2>20. RecordFits(a)'
    <3>1. r.holder # Nowhere => person'[r.holder] = "active" BY <1>6, <2>3, <2>11
    <3>2. a \notin disposals' BY <1>6, <2>5
    <3>3. r.rack # Nowhere => r.center = center'[r.rack] BY <1>6, <2>2, <2>11
    <3> QED BY <2>7, <2>11, <2>18, <2>19, <3>1, <3>2, <3>3 DEF RecordFits
  <2>21. Written(w, a)
    <3>1. CenterOf(assets[a])' = c BY <1>6, <2>2, <2>7, <2>11 DEF CenterOf
    <3>2. Covers(scope[w], CenterOf(assets[a])', r.department) BY <2>3, <2>11, <3>1
    <3>3. AssetRow(a) \in held[w] /\ (new.rack \in Racks => RackRow(new.rack) \in held[w])
          /\ (new.holder \in People => PersonRow(new.holder) \in held[w])
      BY <1>3, <2>1
    <3>4. Nowhere \notin Racks BY RegisterKeys DEF Nowhere
    <3>5. \A k \in {assets[a].rack, r.rack} \cap Racks : RackRow(k) \in held[w] BY <2>6, <2>11, <3>3, <3>4
    <3>6. r.holder \notin {assets[a].holder, Nowhere} => PersonRow(r.holder) \in held[w]
      BY <2>6, <2>11, <3>3 DEF NewAssets
    <3> QED BY <2>3, <2>7, <2>11, <3>2, <3>3, <3>5, <3>6 DEF Written
  <2> QED BY <2>6, <2>7, <2>10, <2>11, <2>17, <2>20, <2>21
<1>10. assets' \in [Assets -> AssetRows] /\ history' \in [Assets -> Seq(Events)]
  <2>1. DOMAIN assets' = Assets /\ DOMAIN history' = Assets
        /\ assets' = [a \in Assets |-> assets'[a]] /\ history' = [a \in Assets |-> history'[a]]
    BY <1>6
  <2>2. \A a \in Assets : assets'[a] \in AssetRows /\ history'[a] \in Seq(Events) BY <1>8, <1>9
  <2> QED BY <2>1, <2>2
<1>11. center' \in [Racks -> Centers] /\ person' \in [People -> {"active", "inactive", "gone"}] /\ disposals' \subseteq Assets
  BY <1>6 DEF RegisterInv, Types
<1>12. \A a \in Assets :
         /\ RecordFits(a)'
         /\ assets'[a] = assets[a] \/ assets'[a].rev = assets[a].rev + 1
         /\ (SameRecord(a) /\ CenterOf(assets[a])' = CenterOf(assets[a])) \/ Written(w, a)
  <2> SUFFICES ASSUME NEW a \in Assets
      PROVE  /\ RecordFits(a)'
             /\ assets'[a] = assets[a] \/ assets'[a].rev = assets[a].rev + 1
             /\ (SameRecord(a) /\ CenterOf(assets[a])' = CenterOf(assets[a])) \/ Written(w, a)
    OBVIOUS
  <2>1. CASE rowsOf(a) = {} BY <1>8, <2>1 DEF SameRecord
  <2>2. CASE rowsOf(a) # {} BY <1>9, <2>2
  <2> QED BY <2>1, <2>2
<1> QED BY <1>6, <1>10, <1>11, <1>12 DEF Effect

\* A rack that is moved, with what is mounted on it.
LEMMA MoveEffect ==
  ASSUME RegisterInv, NEW w \in Workers, CommitMoveRack(w)
  PROVE  Effect(w)
<1>1. PICK q : q = job[w] OBVIOUS
<1>2. pc[w] = "checked" /\ q.kind = "rack" BY <1>1 DEF CommitMoveRack, At
<1>3. /\ Allowed(w) /\ q \in Requests /\ RackRow(q.rack) \in held[w]
      /\ \A b \in On(q.rack) : AssetRow(b) \in held[w]
  BY <1>1, <1>2, CheckedHolds
<1>4. MayMoveRack(w) BY <1>1, <1>2, <1>3 DEF Allowed
<1>5. PICK k \in Racks : k = q.rack BY <1>2, <1>3, RequestFields
<1>6. PICK c \in Centers : c = q.to BY <1>2, <1>3, RequestFields
<1>7. /\ center' = [center EXCEPT ![k] = c]
      /\ assets' = [a \in Assets |->
           IF a \in On(k) /\ assets[a].center # c THEN Recentred(assets[a], c) ELSE assets[a]]
      /\ UNCHANGED <<grant, person, history, disposals, requests>>
  BY <1>1, <1>5, <1>6 DEF CommitMoveRack
<1>8. \A a \in On(k) : Mine(w, assets[a]) /\ Covers(scope[w], c, assets[a].department)
  BY <1>1, <1>4, <1>5, <1>6 DEF MayMoveRack
<1>9. Types BY DEF RegisterInv
<1>10. center' \in [Racks -> Centers] /\ center'[k] = c /\ \A j \in Racks \ {k} : center'[j] = center[j]
  BY <1>7, <1>9 DEF Types
<1>11. k # Nowhere BY RegisterKeys DEF Nowhere
<1>12. ASSUME NEW a \in Assets
       PROVE  /\ assets'[a] \in AssetRows /\ RecordFits(a)'
              /\ assets'[a] = assets[a] \/ assets'[a].rev = assets[a].rev + 1
              /\ (SameRecord(a) /\ CenterOf(assets[a])' = CenterOf(assets[a])) \/ Written(w, a)
  <2>1. PICK r : r = assets[a] OBVIOUS
  <2>2. r \in AssetRows /\ RecordFits(a) BY <2>1, RowOf
  <2>3. /\ r.in \/ (r = Missing /\ a \notin disposals)
        /\ r.holder = LastHolder(a)
        /\ \A i \in 2 .. Len(history[a]) : history[a][i].from = history[a][i - 1].to
        /\ r.holder # Nowhere => person[r.holder] = "active"
        /\ (r.status = "retired") = (a \in disposals)
        /\ r.status = "retired" \/ r.archived => r.holder = Nowhere /\ r.rack = Nowhere
        /\ r.rack # Nowhere => r.center = center[r.rack]
    BY <2>1, <2>2 DEF RecordFits
  <2>4. LastHolder(a)' = LastHolder(a) /\ history'[a] = history[a] BY <1>7 DEF LastHolder
  <2>5. Missing.rack = Nowhere BY DEF Missing
  <2>6. r.rack = k <=> a \in On(k) BY <1>11, <2>1, <2>3, <2>5 DEF On
  <2>7. CASE r.rack # k
    <3>1. assets'[a] = r BY <1>7, <2>1, <2>6, <2>7
    <3>2. r.rack # Nowhere => r.rack \in Racks \ {k} BY <2>2, <2>7 DEF AssetRows
    <3>3. r.rack # Nowhere => center'[r.rack] = center[r.rack] BY <1>10, <3>2
    <3>4. RecordFits(a)' BY <1>7, <2>3, <2>4, <3>1, <3>3 DEF RecordFits
    <3>5. SameRecord(a) BY <1>7, <2>1, <3>1 DEF SameRecord
    <3>6. CenterOf(assets[a])' = CenterOf(assets[a]) BY <2>1, <3>1, <3>3 DEF CenterOf
    <3> QED BY <2>1, <2>2, <3>1, <3>4, <3>5, <3>6
  <2>8. CASE r.rack = k /\ r.center = c
    <3>1. assets'[a] = r BY <1>7, <2>1, <2>8
    <3>2. center'[k] = center[k] BY <1>10, <1>11, <2>3, <2>8
    <3>3. RecordFits(a)' BY <1>7, <2>3, <2>4, <2>8, <3>1, <3>2 DEF RecordFits
    <3>4. SameRecord(a) BY <1>7, <2>1, <3>1 DEF SameRecord
    <3>5. CenterOf(assets[a])' = CenterOf(assets[a]) BY <2>1, <2>8, <3>1, <3>2 DEF CenterOf
    <3> QED BY <2>1, <2>2, <3>1, <3>3, <3>4, <3>5
  <2>9. CASE r.rack = k /\ r.center # c
    <3>1. PICK new : new = Recentred(r, c) OBVIOUS
    <3>2. assets'[a] = new BY <1>7, <2>1, <2>6, <2>9, <3>1
    <3>3. new = [in |-> r.in, archived |-> r.archived, center |-> c, rack |-> r.rack, department |-> r.department,
                 holder |-> r.holder, status |-> r.status, note |-> r.note, rev |-> r.rev + 1]
      <4>1. PICK x1 : x1 = [r EXCEPT !.center = c] OBVIOUS
      <4>2. x1 = [in |-> r.in, archived |-> r.archived, center |-> c, rack |-> r.rack, department |-> r.department,
                  holder |-> r.holder, status |-> r.status, note |-> r.note, rev |-> r.rev]
        BY <2>2, <4>1 DEF AssetRows
      <4>3. new = [x1 EXCEPT !.rev = @ + 1] BY <3>1, <4>1 DEF Recentred
      <4> QED BY <4>2, <4>3
    <3>4. new \in AssetRows BY <2>2, <3>3 DEF AssetRows
    <3>5. /\ new.in = r.in /\ new.archived = r.archived /\ new.holder = r.holder /\ new.status = r.status
          /\ new.center = c /\ new.rack = k /\ new.department = r.department /\ new.rev = r.rev + 1
      BY <2>9, <3>3
    <3>6. r.in BY <2>3, <2>5, <2>9, <1>11
    <3>7. RecordFits(a)'
      <4>1. new.in BY <3>5, <3>6
      <4>2. new.holder = LastHolder(a)' BY <2>3, <2>4, <3>5
      <4>3. new.holder # Nowhere => person'[new.holder] = "active" BY <1>7, <2>3, <3>5
      <4>4. (new.status = "retired") = (a \in disposals') BY <1>7, <2>3, <3>5
      <4>5. new.status = "retired" \/ new.archived => new.holder = Nowhere /\ new.rack = Nowhere
        BY <2>3, <2>9, <3>5
      <4>6. new.center = center'[new.rack] BY <1>10, <3>5
      <4> QED BY <2>3, <2>4, <3>2, <4>1, <4>2, <4>3, <4>4, <4>5, <4>6 DEF RecordFits
    <3>8. Written(w, a)
      <4>1. CenterOf(assets[a])' = c BY <1>10, <1>11, <3>2, <3>5 DEF CenterOf
      <4>2. a \in On(k) BY <2>6, <2>9
      <4>3. Covers(scope[w], CenterOf(assets[a])', new.department) BY <1>8, <2>1, <3>5, <4>1, <4>2
      <4>4. AssetRow(a) \in held[w] BY <1>3, <1>5, <4>2
      <4>5. Mine(w, assets[a]) BY <1>8, <4>2
      <4> QED BY <2>1, <2>9, <3>2, <3>5, <3>6, <4>3, <4>4, <4>5 DEF Written
    <3> QED BY <2>1, <3>2, <3>4, <3>5, <3>7, <3>8
  <2> QED BY <2>7, <2>8, <2>9
<1>13. assets' \in [Assets -> AssetRows]
  <2>1. assets' = [a \in Assets |-> assets'[a]] BY <1>7
  <2> QED BY <1>12, <2>1
<1>14. \A j \in Racks : center'[j] = center[j] \/ RackRow(j) \in held[w] BY <1>3, <1>5, <1>10
<1>15. /\ history' \in [Assets -> Seq(Events)] /\ disposals' \subseteq Assets
       /\ person' \in [People -> {"active", "inactive", "gone"}]
  BY <1>7, <1>9 DEF Types
<1>16. person' = person BY <1>7
<1> QED BY <1>10, <1>12, <1>13, <1>14, <1>15, <1>16 DEF Effect

\* A person who is changed holds no asset.
LEMMA PersonEffect ==
  ASSUME RegisterInv, NEW w \in Workers, CommitPerson(w)
  PROVE  Effect(w)
<1>1. PICK q : q = job[w] OBVIOUS
<1>2. pc[w] = "checked" /\ q.kind = "person" BY <1>1 DEF CommitPerson, At
<1>3. Allowed(w) /\ q \in Requests /\ PersonRow(q.person) \in held[w]
  BY <1>1, <1>2, CheckedHolds
<1>4. MaySetPerson(w) BY <1>1, <1>2, <1>3 DEF Allowed
<1>5. q.person \in People /\ q.to \in {"active", "inactive", "gone"} BY <1>2, <1>3, RequestFields
<1>6. person' = [person EXCEPT ![q.person] = q.to] /\ UNCHANGED <<grant, assets, center, history, disposals, requests>>
  BY <1>1 DEF CommitPerson
<1>7. Types BY DEF RegisterInv
<1>8. /\ person' \in [People -> {"active", "inactive", "gone"}] /\ person'[q.person] = q.to
      /\ \A p \in People \ {q.person} : person'[p] = person[p]
  BY <1>5, <1>6, <1>7 DEF Types
<1>9. ASSUME NEW a \in Assets PROVE RecordFits(a)'
  <2>1. assets[a] \in AssetRows /\ RecordFits(a) BY RowOf
  <2>2. assets[a].holder \in People \cup {Nowhere} BY <2>1 DEF AssetRows
  <2>3. q.to # "active" => assets[a].holder # q.person
    <3> SUFFICES ASSUME q.to # "active", assets[a].holder = q.person PROVE FALSE OBVIOUS
    <3>1. assets[a].archived BY <1>1, <1>4 DEF MaySetPerson
    <3>2. assets[a].holder = Nowhere BY <2>1, <3>1 DEF RecordFits
    <3> QED BY <1>5, <3>2, RegisterKeys DEF Nowhere
  <2>4. assets[a].holder # Nowhere => person'[assets[a].holder] = "active"
    BY <1>8, <2>1, <2>2, <2>3 DEF RecordFits
  <2>5. LastHolder(a)' = LastHolder(a) BY <1>6 DEF LastHolder
  <2> QED BY <1>6, <2>1, <2>4, <2>5 DEF RecordFits
<1>10. \A a \in Assets : SameRecord(a) /\ CenterOf(assets[a])' = CenterOf(assets[a])
  BY <1>6 DEF SameRecord, CenterOf
<1>11. \A p \in People : person'[p] = person[p] \/ PersonRow(p) \in held[w] BY <1>3, <1>8
<1> QED BY <1>6, <1>7, <1>8, <1>9, <1>10, <1>11 DEF Effect, Types

-----------------------------------------------------------------------------
(* What a lock protects                                                      *)

\* What the rows that a request holds say stays as it is.
Steady(v) ==
    /\ \A a \in Assets : AssetRow(a) \in held[v] => SameRecord(a) /\ CenterOf(assets[a])' = CenterOf(assets[a])
    /\ \A k \in Racks : RackRow(k) \in held[v] => center'[k] = center[k] /\ On(k)' = On(k)
    /\ \A p \in People : PersonRow(p) \in held[v] =>
         /\ person'[p] = person[p]
         /\ \A b \in Assets : assets'[b].holder = p => assets[b].holder = p

\* Whatever one request commits, the rows that another holds stay.
LEMMA HeldRowsStay ==
  ASSUME RegisterInv, NEW v \in Workers, NEW w \in Workers \ {v}, Effect(w)
  PROVE  Steady(v)
<1>1. held[v] \cap held[w] = {} BY DEF RegisterInv, Exclusive
<1>2. \A a \in Assets : AssetRow(a) \in held[v] => SameRecord(a) /\ CenterOf(assets[a])' = CenterOf(assets[a])
  BY <1>1 DEF Effect, Written
<1>3. \A a \in Assets : assets[a] \in AssetRows /\ assets'[a] \in AssetRows BY DEF RegisterInv, Types, Effect
<1>4. ASSUME NEW k \in Racks, RackRow(k) \in held[v]
      PROVE  center'[k] = center[k] /\ On(k)' = On(k)
  <2>1. RackRow(k) \notin held[w] BY <1>1, <1>4
  <2>2. center'[k] = center[k] BY <2>1 DEF Effect
  <2>3. ASSUME NEW a \in Assets PROVE assets'[a].rack = k <=> assets[a].rack = k
    <3>1. CASE SameRecord(a) BY <3>1 DEF SameRecord
    <3>2. CASE Written(w, a) BY <2>1, <3>2 DEF Written
    <3> QED BY <3>1, <3>2 DEF Effect
  <2>4. k # Nowhere BY RegisterKeys DEF Nowhere
  <2>5. \A a \in Assets : /\ assets[a].rack = k => assets[a].in
                          /\ assets'[a].rack = k => assets'[a].in
    <3>1. Missing.rack = Nowhere BY DEF Missing
    <3>2. \A a \in Assets : RecordFits(a) /\ RecordFits(a)' BY RowOf DEF Effect
    <3> QED BY <2>4, <3>1, <3>2 DEF RecordFits
  <2> QED BY <2>2, <2>3, <2>5 DEF On
<1>5. ASSUME NEW p \in People, PersonRow(p) \in held[v]
      PROVE  person'[p] = person[p] /\ \A b \in Assets : assets'[b].holder = p => assets[b].holder = p
  <2>1. PersonRow(p) \notin held[w] BY <1>1, <1>5
  <2>2. p # Nowhere BY RegisterKeys DEF Nowhere
  <2>3. ASSUME NEW b \in Assets, assets'[b].holder = p PROVE assets[b].holder = p
    <3>1. CASE SameRecord(b) BY <2>3, <3>1 DEF SameRecord
    <3>2. CASE Written(w, b) BY <2>1, <2>2, <2>3, <3>2 DEF Written
    <3> QED BY <3>1, <3>2 DEF Effect
  <2> QED BY <2>1, <2>3 DEF Effect
<1> QED BY <1>2, <1>4, <1>5 DEF Steady

\* A step that changes no record keeps all of them.
LEMMA QuietSteady ==
  ASSUME NEW v \in Workers, UNCHANGED records
  PROVE  Steady(v)
BY DEF records, Steady, SameRecord, CenterOf, On

\* The rows of a place stay the rows of the place while they are held.
LEMMA PlaceRowsStay ==
  ASSUME RegisterInv, NEW v \in Workers, Steady(v), NEW a \in Assets, NEW k \in Racks \cup {Nowhere},
         PlaceRows(a, k) \subseteq held[v]
  PROVE  PlaceRows(a, k)' = PlaceRows(a, k)
<1>1. Types BY DEF RegisterInv
<1>2. AssetRow(a) \in held[v] BY <1>1, PlaceRowsAre
<1>3. assets'[a] = assets[a] BY <1>2 DEF Steady, SameRecord
<1>4. assets[a].rack \in Racks \cup {Nowhere} BY <1>1 DEF Types, AssetRows
<1> DEFINE racks == {assets[a].rack, k} \ {Nowhere}
<1>5. \A j \in racks : j \in {assets[a].rack, k} \cap Racks BY <1>4
<1>6. \A j \in racks : On(j)' = On(j) BY <1>1, <1>5, PlaceRowsAre DEF Steady
<1>7. racks' = racks BY <1>3
<1>8. PlaceRows(a, k) = {AssetRow(a)} \cup {RackRow(j) : j \in racks}
                          \cup {AssetRow(b) : b \in UNION {On(j) : j \in racks}}
  BY DEF PlaceRows
<1>9. PlaceRows(a, k)' = {AssetRow(a)} \cup {RackRow(j) : j \in racks'}
                          \cup {AssetRow(b) : b \in UNION {On(j)' : j \in racks'}}
  BY DEF PlaceRows, AssetRow, RackRow
<1>10. UNION {On(j)' : j \in racks'} = UNION {On(j) : j \in racks} BY <1>6, <1>7
<1> HIDE DEF racks
<1> QED BY ONLY <1>7, <1>8, <1>9, <1>10

\* The same for all the rows of a request.
LEMMA LockedRowsStay ==
  ASSUME RegisterInv, NEW v \in Workers, Steady(v), job'[v] = job[v], todo'[v] = todo[v],
         job[v] \in Requests, job[v].kind \notin {"read", "grant"},
         job[v].kind \in AssetKinds => todo[v] # <<>>, LockedRows(v) \subseteq held[v]
  PROVE  LockedRows(v)' = LockedRows(v)
<1>1. Types BY DEF RegisterInv
<1>2. PICK q : q = job[v] OBVIOUS
<1>3. PICK a : a = Head(todo[v]) OBVIOUS
<1>4. q = job'[v] /\ a = Head(todo'[v]) /\ q \in Requests BY <1>2, <1>3
<1>5. q.kind \in AssetKinds => a \in Assets BY <1>1, <1>2, <1>3, HeadTailProperties DEF Types, ServerTypes
<1>6. PICK people : people = {PersonRow(p) : p \in PeopleLocked(q)} OBVIOUS
<1>7. \A k \in Racks \cup {Nowhere} :
        a \in Assets /\ PlaceRows(a, k) \subseteq held[v] => PlaceRows(a, k)' = PlaceRows(a, k)
  BY PlaceRowsStay
<1>8. CASE q.kind = "place" \/ q.kind \in {"clear", "dispose", "archive", "restore"} \/ (q.kind = "edit" /\ q.center # Keep)
  <2>1. PICK k \in Racks \cup {Nowhere} : k = IF q.kind = "place" THEN q.rack ELSE Nowhere
    BY <1>4, <1>8, RequestFields
  <2>2. LockedRows(v) = people \cup PlaceRows(a, k)
    BY <1>2, <1>3, <1>6, <1>8, <2>1 DEF LockedRows
  <2>3. LockedRows(v)' = people \cup PlaceRows(a, k)'
    BY <1>4, <1>6, <1>8, <2>1 DEF LockedRows, PersonRow
  <2>4. a \in Assets BY <1>5, <1>8 DEF AssetKinds
  <2> QED BY <1>7, <2>2, <2>3, <2>4
<1>9. CASE q.kind \in {"assign", "return", "transfer"} \/ (q.kind = "edit" /\ q.center = Keep)
  <2>1. LockedRows(v) = people \cup {AssetRow(a)} BY <1>2, <1>3, <1>6, <1>9 DEF LockedRows
  <2>2. LockedRows(v)' = people \cup {AssetRow(a)}
    BY <1>4, <1>6, <1>9 DEF LockedRows, PersonRow, AssetRow
  <2> QED BY <2>1, <2>2
<1>10. CASE q.kind = "create"
  <2>1. LockedRows(v) = people \cup UNION {PlaceRows(row.asset, row.rack) : row \in q.rows}
    BY <1>2, <1>6, <1>10 DEF LockedRows
  <2>2. LockedRows(v)' = people \cup UNION {PlaceRows(row.asset, row.rack)' : row \in q.rows}
    BY <1>4, <1>6, <1>10 DEF LockedRows, PersonRow
  <2>3. ASSUME NEW row \in q.rows PROVE PlaceRows(row.asset, row.rack)' = PlaceRows(row.asset, row.rack)
    <3>1. row.asset \in Assets /\ row.rack \in Racks \cup {Nowhere}
      BY <1>4, <1>10, RequestFields DEF NewAssets
    <3>2. PlaceRows(row.asset, row.rack) \subseteq held[v] BY <2>1
    <3> QED BY <3>1, <3>2, PlaceRowsStay
  <2>4. UNION {PlaceRows(row.asset, row.rack)' : row \in q.rows} = UNION {PlaceRows(row.asset, row.rack) : row \in q.rows}
    BY <2>3
  <2> QED BY ONLY <2>1, <2>2, <2>4
<1>11. CASE q.kind = "rack"
  <2>1. LockedRows(v) = people \cup {RackRow(q.rack)} \cup {AssetRow(b) : b \in On(q.rack)}
    BY <1>2, <1>6, <1>11 DEF LockedRows
  <2>2. LockedRows(v)' = people \cup {RackRow(q.rack)} \cup {AssetRow(b) : b \in On(q.rack)'}
    BY <1>4, <1>6, <1>11 DEF LockedRows, PersonRow, AssetRow, RackRow
  <2>3. q.rack \in Racks BY <1>4, <1>11, RequestFields
  <2>4. On(q.rack)' = On(q.rack) BY <2>1, <2>3 DEF Steady
  <2> QED BY ONLY <2>1, <2>2, <2>4
<1>12. CASE q.kind = "person"
  <2>1. LockedRows(v) = people \cup {PersonRow(q.person)} BY <1>2, <1>6, <1>12 DEF LockedRows
  <2>2. LockedRows(v)' = people \cup {PersonRow(q.person)} BY <1>4, <1>6, <1>12 DEF LockedRows, PersonRow
  <2> QED BY <2>1, <2>2
<1> QED BY <1>2, <1>4, <1>8, <1>9, <1>10, <1>11, <1>12, RequestFields DEF AssetKinds

\* What a check reads of one asset.
LEMMA ReadsStay ==
  ASSUME RegisterInv, NEW v \in Workers, Steady(v), scope'[v] = scope[v],
         NEW a \in Assets, AssetRow(a) \in held[v]
  PROVE  /\ assets'[a] = assets[a] /\ CenterOf(assets[a])' = CenterOf(assets[a])
         /\ a \in disposals' <=> a \in disposals
         /\ Active(v, a)' <=> Active(v, a)
         /\ Mine(v, assets[a])' <=> Mine(v, assets[a])
         /\ assets[a].rack \in Racks => center'[assets[a].rack] = center[assets[a].rack]
<1>1. SameRecord(a) /\ CenterOf(assets[a])' = CenterOf(assets[a]) BY DEF Steady
<1>2. assets'[a] = assets[a] BY <1>1 DEF SameRecord
<1>3. Mine(v, assets[a])' <=> Mine(v, assets[a]) BY <1>1, <1>2 DEF Mine
<1>4. Nowhere \notin Racks BY RegisterKeys DEF Nowhere
<1>5. assets[a].rack \in Racks => center'[assets[a].rack] = center[assets[a].rack]
  BY <1>1, <1>2, <1>4 DEF CenterOf
<1>6. Active(v, a)' <=> Active(v, a) BY <1>2, <1>3 DEF Active
<1> QED BY <1>1, <1>2, <1>3, <1>5, <1>6 DEF SameRecord

\* What a transaction has checked stays true while it holds its rows.
LEMMA AllowedStays ==
  ASSUME RegisterInv, NEW v \in Workers, Steady(v), job'[v] = job[v], todo'[v] = todo[v],
         scope'[v] = scope[v], base'[v] = base[v],
         job[v] \in Requests, job[v].kind \notin {"read", "grant"},
         job[v].kind \in AssetKinds => todo[v] # <<>>, LockedRows(v) \subseteq held[v], Allowed(v)
  PROVE  Allowed(v)'
<1>1. Types BY DEF RegisterInv
<1>2. PICK q : q = job[v] OBVIOUS
<1>3. PICK a : a = Head(todo[v]) OBVIOUS
<1>4. q = job'[v] /\ a = Head(todo'[v]) /\ q \in Requests BY <1>2, <1>3
<1>5. /\ q.kind \in AssetKinds => a \in Assets /\ AssetRow(a) \in held[v]
      /\ q.kind = "place" =>
           (q.rack \in Racks => RackRow(q.rack) \in held[v])
      /\ q.kind \in {"assign", "transfer"} => PersonRow(q.person) \in held[v]
      /\ q.kind = "create" => \A new \in q.rows :
           /\ AssetRow(new.asset) \in held[v]
           /\ new.rack \in Racks => RackRow(new.rack) \in held[v]
           /\ new.holder \in People => PersonRow(new.holder) \in held[v]
      /\ q.kind = "rack" => RackRow(q.rack) \in held[v]
                            /\ \A b \in On(q.rack) : AssetRow(b) \in held[v]
      /\ q.kind = "person" => PersonRow(q.person) \in held[v]
  BY <1>1, <1>2, <1>3, LockedRowsAre
<1>6. PICK r : r = assets[a] OBVIOUS
<1>7. q.kind \in AssetKinds => /\ r \in AssetRows /\ assets'[a] = r /\ CenterOf(r)' = CenterOf(r)
                               /\ Active(v, a)' <=> Active(v, a)
                               /\ Mine(v, r)' <=> Mine(v, r)
                               /\ a \in disposals' <=> a \in disposals
                               /\ r.rack \in Racks => center'[r.rack] = center[r.rack]
  <2> SUFFICES ASSUME q.kind \in AssetKinds
      PROVE  /\ r \in AssetRows /\ assets'[a] = r /\ CenterOf(r)' = CenterOf(r)
             /\ Active(v, a)' <=> Active(v, a)
             /\ Mine(v, r)' <=> Mine(v, r)
             /\ a \in disposals' <=> a \in disposals
             /\ r.rack \in Racks => center'[r.rack] = center[r.rack]
    OBVIOUS
  <2>1. a \in Assets /\ AssetRow(a) \in held[v] BY <1>5
  <2>2. assets'[a] = r BY <1>6, <2>1, ReadsStay
  <2>3. Mine(v, r)' <=> Mine(v, assets[a])' BY <2>2 DEF Mine, CenterOf
  <2>4. CenterOf(r)' = CenterOf(assets[a])' BY <2>2 DEF CenterOf
  <2>5. /\ CenterOf(assets[a])' = CenterOf(assets[a]) /\ (Mine(v, assets[a])' <=> Mine(v, assets[a]))
        /\ (Active(v, a)' <=> Active(v, a)) /\ (a \in disposals' <=> a \in disposals)
        /\ assets[a].rack \in Racks => center'[assets[a].rack] = center[assets[a].rack]
    BY <2>1, ReadsStay
  <2> QED BY <1>6, <2>1, <2>2, <2>3, <2>4, <2>5, RowOf
<1>8. \A p \in People : PersonRow(p) \in held[v] => (MayHold(v, p)' <=> MayHold(v, p))
  BY DEF MayHold, Steady
<1>9. \A k \in Racks : RackRow(k) \in held[v] => center'[k] = center[k] BY DEF Steady
<1>10. Nowhere \notin Racks \cup People BY RegisterKeys DEF Nowhere
<1>11. CASE q.kind = "edit"
  <2>1. q.kind \in AssetKinds BY <1>11 DEF AssetKinds
  <2>2. MayEdit(v, a) BY <1>2, <1>3, <1>11 DEF Allowed
  <2>3. Current(v, a)' <=> Current(v, a) BY <1>2, <1>4, <1>6, <1>7, <2>1 DEF Current
  <2>4. PICK e : e = Edited(r, q) OBVIOUS
  <2>5. e.rack = r.rack BY <1>7, <2>1, <2>4, EditedRow
  <2>6. r.rack \in Racks \cup {Nowhere} BY <1>7, <2>1 DEF AssetRows
  <2>7. CenterOf(e)' = CenterOf(e) BY <1>7, <2>1, <2>5, <2>6 DEF CenterOf
  <2>8. Mine(v, e) BY <1>2, <1>6, <2>2, <2>4 DEF MayEdit
  <2>9. Mine(v, e)' BY <2>7, <2>8 DEF Mine
  <2>10. r.rack # Nowhere /\ q.center # Keep => q.center = center'[r.rack]
    BY <1>2, <1>6, <1>7, <2>1, <2>2, <2>6 DEF MayEdit
  <2>11. Active(v, a)' /\ Current(v, a)' BY <1>7, <2>1, <2>2, <2>3 DEF MayEdit
  <2>12. MayEdit(v, a)' BY <1>4, <1>7, <2>1, <2>4, <2>9, <2>10, <2>11 DEF MayEdit, Mine, CenterOf, Edited
  <2> QED BY <1>4, <1>11, <2>12 DEF Allowed
<1>12. CASE q.kind = "place"
  <2>1. q.kind \in AssetKinds BY <1>12 DEF AssetKinds
  <2>2. MayPlace(v, a) BY <1>2, <1>3, <1>12 DEF Allowed
  <2>3. Current(v, a)' <=> Current(v, a) BY <1>2, <1>4, <1>6, <1>7, <2>1 DEF Current
  <2>4. q.rack \in Racks \cup {Nowhere} BY <1>4, <1>12, RequestFields
  <2>5. q.rack # Nowhere => center'[q.rack] = center[q.rack] BY <1>5, <1>9, <1>12, <2>4
  <2>6. q.rack # Nowhere =>
          /\ CenterIn(scope[v], center[q.rack]) /\ Covers(scope[v], center[q.rack], r.department)
          /\ r.status = "retired" => r.rack = q.rack
    BY <1>2, <1>6, <2>2 DEF MayPlace
  <2>7. Active(v, a)' /\ Current(v, a)' BY <1>7, <2>1, <2>2, <2>3 DEF MayPlace
  <2>8. MayPlace(v, a)' BY <1>4, <1>7, <2>1, <2>5, <2>6, <2>7 DEF MayPlace
  <2> QED BY <1>4, <1>12, <2>8 DEF Allowed
<1>13. CASE q.kind = "clear"
  <2>1. q.kind \in AssetKinds BY <1>13 DEF AssetKinds
  <2>2. MayClear(v, a) BY <1>2, <1>3, <1>13 DEF Allowed
  <2>3. MayClear(v, a)' BY <1>6, <1>7, <2>1, <2>2 DEF MayClear
  <2> QED BY <1>4, <1>13, <2>3 DEF Allowed
<1>14. CASE q.kind \in {"assign", "return", "transfer"}
  <2>1. q.kind \in AssetKinds BY <1>14 DEF AssetKinds
  <2>2. MayAssign(v, a) BY <1>2, <1>3, <1>14 DEF Allowed
  <2>3. q.kind \in {"assign", "transfer"} => (MayHold(v, q.person)' <=> MayHold(v, q.person))
    BY <1>4, <1>5, <1>8, RequestFields
  <2>4. MayAssign(v, a)' BY <1>2, <1>4, <1>6, <1>7, <2>1, <2>2, <2>3 DEF MayAssign
  <2> QED BY <1>4, <1>14, <2>4 DEF Allowed
<1>15. CASE q.kind = "dispose"
  <2>1. q.kind \in AssetKinds BY <1>15 DEF AssetKinds
  <2>2. MayDispose(v, a) BY <1>2, <1>3, <1>15 DEF Allowed
  <2>3. MayDispose(v, a)' BY <1>6, <1>7, <2>1, <2>2 DEF MayDispose
  <2> QED BY <1>4, <1>15, <2>3 DEF Allowed
<1>16. CASE q.kind = "archive"
  <2>1. q.kind \in AssetKinds BY <1>16 DEF AssetKinds
  <2>2. MayArchive(v, a) BY <1>2, <1>3, <1>16 DEF Allowed
  <2>3. MayArchive(v, a)' BY <1>6, <1>7, <2>1, <2>2 DEF MayArchive
  <2> QED BY <1>4, <1>16, <2>3 DEF Allowed
<1>17. CASE q.kind = "restore"
  <2>1. q.kind \in AssetKinds BY <1>17 DEF AssetKinds
  <2>2. MayRestore(v, a) BY <1>2, <1>3, <1>17 DEF Allowed
  <2>3. Mine(v, r)' BY <1>6, <1>7, <2>1, <2>2 DEF MayRestore
  <2>4. MayRestore(v, a)' BY <1>6, <1>7, <2>1, <2>2, <2>3 DEF MayRestore, Mine, CenterOf
  <2> QED BY <1>4, <1>17, <2>4 DEF Allowed
<1>18. CASE q.kind = "create"
  <2>1. MayCreate(v) BY <1>2, <1>18 DEF Allowed
  <2>2. ASSUME NEW new \in q.rows
        PROVE  /\ ~assets'[new.asset].in
               /\ DepartmentIn(scope'[v], new.department)
               /\ Covers(scope'[v], IF new.rack = Nowhere THEN new.center ELSE center'[new.rack], new.department)
               /\ new.holder # Nowhere => MayHold(v, new.holder)'
    <3>1. /\ ~assets[new.asset].in /\ DepartmentIn(scope[v], new.department)
          /\ Covers(scope[v], IF new.rack = Nowhere THEN new.center ELSE center[new.rack], new.department)
          /\ new.holder # Nowhere => MayHold(v, new.holder)
      BY <1>2, <2>1 DEF MayCreate
    <3>2. new.asset \in Assets /\ new.rack \in Racks \cup {Nowhere} /\ new.holder \in People \cup {Nowhere}
      BY <1>4, <1>18, RequestFields DEF NewAssets
    <3>3. assets'[new.asset] = assets[new.asset] BY <1>5, <1>18, <3>2, ReadsStay
    <3>4. new.rack # Nowhere => center'[new.rack] = center[new.rack] BY <1>5, <1>9, <1>18, <3>2
    <3>5. new.holder # Nowhere => MayHold(v, new.holder)' BY <1>5, <1>8, <1>18, <3>1, <3>2
    <3> QED BY <3>1, <3>3, <3>4, <3>5
  <2>3. MayCreate(v)' BY <1>4, <2>2 DEF MayCreate
  <2> QED BY <1>4, <1>18, <2>3 DEF Allowed
<1>19. CASE q.kind = "rack"
  <2>1. MayMoveRack(v) BY <1>2, <1>19 DEF Allowed
  <2>2. q.rack \in Racks BY <1>4, <1>19, RequestFields
  <2>3. center'[q.rack] = center[q.rack] /\ On(q.rack)' = On(q.rack) BY <1>5, <1>19, <2>2 DEF Steady
  <2>4. ASSUME NEW b \in On(q.rack)
        PROVE  Mine(v, assets[b])' /\ Covers(scope'[v], q.to, assets'[b].department)
    <3>1. b \in Assets /\ AssetRow(b) \in held[v] BY <1>5, <1>19 DEF On
    <3>2. Mine(v, assets[b]) /\ Covers(scope[v], q.to, assets[b].department)
      BY <1>2, <2>1 DEF MayMoveRack
    <3> QED BY <3>1, <3>2, ReadsStay
  <2>5. CenterIn(scope'[v], center'[q.rack]) /\ CenterIn(scope'[v], q.to)
    BY <1>2, <2>1, <2>3 DEF MayMoveRack
  <2>6. MayMoveRack(v)' BY <1>4, <2>3, <2>4, <2>5 DEF MayMoveRack
  <2> QED BY <1>4, <1>19, <2>6 DEF Allowed
<1>20. CASE q.kind = "person"
  <2>1. MaySetPerson(v) BY <1>2, <1>20 DEF Allowed
  <2>2. PICK p \in People : p = q.person BY <1>4, <1>20, RequestFields
  <2>3. person'[p] = person[p] /\ \A b \in Assets : assets'[b].holder = p => assets[b].holder = p
    BY <1>5, <1>20, <2>2 DEF Steady
  <2>4. /\ person[p] # "gone" /\ Everything \in scope[v]
        /\ q.to # "active" => \A b \in Assets : assets[b].holder = p => assets[b].archived /\ q.to = "inactive"
    BY <1>2, <2>1, <2>2 DEF MaySetPerson
  <2>5. ASSUME q.to # "active", NEW b \in Assets PROVE assets'[b].holder # p
    <3> SUFFICES ASSUME assets'[b].holder = p PROVE FALSE OBVIOUS
    <3>1. assets[b].holder = p /\ assets[b].archived BY <2>3, <2>4, <2>5
    <3>2. assets[b].holder = Nowhere BY <3>1, RowOf DEF RecordFits
    <3> QED BY <1>10, <3>1, <3>2
  <2>6. MaySetPerson(v)' BY <1>4, <2>2, <2>3, <2>4, <2>5 DEF MaySetPerson
  <2> QED BY <1>4, <1>20, <2>6 DEF Allowed
<1> QED BY <1>2, <1>4, <1>11, <1>12, <1>13, <1>14, <1>15, <1>16, <1>17, <1>18, <1>19, <1>20, RequestFields DEF AssetKinds

-----------------------------------------------------------------------------
(* Steps                                                                     *)

SameServer(v) ==
    /\ job'[v] = job[v] /\ pc'[v] = pc[v] /\ scope'[v] = scope[v] /\ base'[v] = base[v]
    /\ todo'[v] = todo[v] /\ held'[v] = held[v] /\ shown'[v] = shown[v]

\* A request keeps what it relies on while another one takes a step.
LEMMA OthersStay ==
  ASSUME RegisterInv, NEW v \in Workers, NEW w \in Workers \ {v}, Effect(w), SameServer(v),
         pc[v] # "idle" => ScopeOf(job[v].user)' = ScopeOf(job[v].user)
  PROVE  RequestFits(v)' /\ BaseFits(v)' /\ Protected(v)'
<1>1. RequestFits(v) /\ BaseFits(v) /\ Protected(v) /\ Types BY DEF RegisterInv
<1>2. Steady(v) BY HeldRowsStay
<1>3. PICK q : q = job[v] OBVIOUS
<1>4. q = job'[v] BY <1>3 DEF SameServer
<1>5. RequestFits(v)'
  <2>1. pc[v] # "idle" => ScopeOf(q.user)' = ScopeOf(q.user) BY <1>3, <1>4
  <2> QED BY <1>1, <1>3, <1>4, <2>1 DEF RequestFits, SameServer
<1>6. BaseFits(v)'
  <2> SUFFICES ASSUME pc[v] # "idle", q.kind \in {"edit", "place"}, q.match
      PROVE  LET row == assets'[Head(todo[v])] IN
             /\ Len(todo[v]) = 1 /\ base[v].rev <= row.rev
             /\ base[v].rev = row.rev => base[v] = row
    BY <1>4 DEF BaseFits, SameServer
  <2>1. todo[v] # <<>> BY <1>1, <1>3 DEF RequestFits, AssetKinds
  <2>2. PICK a \in Assets : a = Head(todo[v])
    BY <1>1, <2>1, HeadTailProperties DEF Types, ServerTypes
  <2>3. /\ Len(todo[v]) = 1 /\ base[v].rev <= assets[a].rev
        /\ base[v].rev = assets[a].rev => base[v] = assets[a]
    BY <1>1, <1>3, <2>2 DEF BaseFits
  <2>4. assets'[a] = assets[a] \/ assets'[a].rev = assets[a].rev + 1 BY DEF Effect
  <2>5. assets[a].rev \in Nat /\ base[v].rev \in Nat
    BY <1>1 DEF Types, ServerTypes, AssetRows
  <2> QED BY <2>2, <2>3, <2>4, <2>5
<1>7. pc[v] \in {"locked", "checked"} =>
        /\ q \in Requests /\ q.kind \notin {"read", "grant"}
        /\ q.kind \in AssetKinds => todo[v] # <<>>
        /\ LockedRows(v) \subseteq held[v]
  BY <1>1, <1>3 DEF RequestFits, Protected
<1>8. pc[v] \in {"locked", "checked"} => LockedRows(v)' \subseteq held'[v]
  BY <1>2, <1>3, <1>7, LockedRowsStay DEF SameServer
<1>9. pc[v] = "checked" => Allowed(v)'
  BY <1>1, <1>2, <1>3, <1>7, AllowedStays DEF SameServer, Protected
<1> QED BY <1>5, <1>6, <1>8, <1>9 DEF Protected, SameServer

\* The parts of the invariant, put together after a step of one request.
LEMMA Assembled ==
  ASSUME RegisterInv, NEW w \in Workers, Effect(w), ServerTypes',
         grant' \in [Users \ Managers -> [rules : Grants, rev : Nat]], requests' \in 0 .. MaxRequests,
         \A v \in Workers \ {w} :
             SameServer(v) /\ (pc[v] # "idle" => ScopeOf(job[v].user)' = ScopeOf(job[v].user)),
         \A v \in Workers \ {w} : held'[w] \cap held[v] = {},
         RequestFits(w)', BaseFits(w)', Protected(w)'
  PROVE  RegisterInv'
<1>1. Types' BY DEF Types, Effect
<1>2. Exclusive' BY DEF Exclusive, SameServer, RegisterInv
<1>3. \A a \in Assets : RecordFits(a)' BY DEF Effect
<1>4. \A v \in Workers \ {w} : RequestFits(v)' /\ BaseFits(v)' /\ Protected(v)' BY OthersStay
<1> QED BY <1>1, <1>2, <1>3, <1>4 DEF RegisterInv

\* A request that is over leaves nothing behind.
LEMMA DoneFits ==
  ASSUME RegisterInv, NEW w \in Workers, Done(w)
  PROVE  /\ ServerTypes' /\ held'[w] = {} /\ \A v \in Workers \ {w} : SameServer(v)
         /\ RequestFits(w)' /\ BaseFits(w)' /\ Protected(w)'
<1>1. ServerTypes BY DEF RegisterInv, Types
<1>2. Missing \in AssetRows /\ "idle" \in Stages BY DEF Missing, AssetRows, Statuses, Stages
<1>3. ServerTypes'
  <2>1. job' \in [Workers -> Requests \cup {Idle}] /\ pc' \in [Workers -> Stages]
    BY <1>1, <1>2 DEF ServerTypes, Done
  <2>2. scope' \in [Workers -> SUBSET Rules] /\ base' \in [Workers -> AssetRows]
    BY <1>1, <1>2 DEF ServerTypes, Done
  <2>3. todo' \in [Workers -> Seq(Assets)] /\ held' \in [Workers -> SUBSET RowNames]
    BY <1>1 DEF ServerTypes, Done
  <2>4. shown' \in [Workers -> SUBSET ((Centers \cup {Nowhere}) \X (Departments \cup {Nowhere}))]
    BY <1>1 DEF ServerTypes, Done
  <2> QED BY <2>1, <2>2, <2>3, <2>4 DEF ServerTypes
<1>4. \A v \in Workers \ {w} : SameServer(v) BY <1>1 DEF ServerTypes, Done, SameServer
<1>5. pc'[w] = "idle" /\ job'[w] = Idle /\ shown'[w] = {} /\ held'[w] = {}
  BY <1>1 DEF ServerTypes, Done
<1> QED BY <1>3, <1>4, <1>5 DEF RequestFits, BaseFits, Protected

\* Nor does one item of a batch before the next.
LEMMA NextItemFits ==
  ASSUME RegisterInv, NEW w \in Workers, NextItem(w), pc[w] # "idle", grant' = grant
  PROVE  /\ ServerTypes' /\ held'[w] = {} /\ \A v \in Workers \ {w} : SameServer(v)
         /\ RequestFits(w)' /\ BaseFits(w)' /\ Protected(w)'
<1>1. CASE Len(todo[w]) <= 1 BY <1>1, DoneFits DEF NextItem
<1>2. CASE ~(Len(todo[w]) <= 1)
  <2>1. /\ todo' = [todo EXCEPT ![w] = Tail(@)] /\ pc' = [pc EXCEPT ![w] = "begun"]
        /\ held' = [held EXCEPT ![w] = {}] /\ UNCHANGED <<job, scope, base, shown>>
    BY <1>2 DEF NextItem
  <2>2. ServerTypes /\ RequestFits(w) /\ BaseFits(w) BY DEF RegisterInv, Types
  <2>3. PICK s \in Seq(Assets) : s = todo[w] BY <2>2 DEF ServerTypes
  <2>4. Len(s) \in Nat /\ Len(s) > 1 /\ s # <<>> BY <1>2, <2>3
  <2>5. Tail(s) \in Seq(Assets) /\ Len(Tail(s)) = Len(s) - 1 BY <2>4, HeadTailProperties
  <2>6. Tail(s) # <<>>
    <3>1. Len(Tail(s)) # 0 BY <2>4, <2>5
    <3>2. Len(<<>>) = 0 OBVIOUS
    <3> QED BY ONLY <3>1, <3>2
  <2>7. todo'[w] = Tail(s) /\ pc'[w] = "begun" /\ held'[w] = {} BY <2>1, <2>2, <2>3 DEF ServerTypes
  <2>8. ServerTypes'
    <3>1. todo' \in [Workers -> Seq(Assets)] BY <2>1, <2>2, <2>3, <2>5 DEF ServerTypes
    <3>2. pc' \in [Workers -> Stages] /\ held' \in [Workers -> SUBSET RowNames]
      BY <2>1, <2>2 DEF ServerTypes, Stages
    <3> QED BY <2>1, <2>2, <3>1, <3>2 DEF ServerTypes
  <2>9. \A v \in Workers \ {w} : SameServer(v) BY <2>1, <2>2 DEF ServerTypes, SameServer
  <2>10. RequestFits(w)'
    <3>1. ScopeOf(job[w].user)' = ScopeOf(job[w].user) BY <2>1 DEF ScopeOf
    <3> QED BY <2>1, <2>2, <2>6, <2>7, <3>1 DEF RequestFits
  <2>11. BaseFits(w)' BY <1>2, <2>1, <2>2 DEF BaseFits
  <2>12. Protected(w)' BY <2>7 DEF Protected
  <2> QED BY <2>7, <2>8, <2>9, <2>10, <2>11, <2>12
<1> QED BY <1>1, <1>2

\* The scope of a user is a set of rules, and changes only with a grant.
LEMMA ScopesAre ==
  ASSUME Types, NEW u \in Users
  PROVE  ScopeOf(u) \subseteq Rules
<1>1. Everything \in Rules BY DEF Everything, Rules
<1>2. u \notin Managers => grant[u].rules \in Grants BY DEF Types
<1> QED BY <1>1, <1>2, GrantsAssumption DEF ScopeOf

\* Without a change of grants every scope stays.
LEMMA ScopesStay ==
  ASSUME grant' = grant, NEW u
  PROVE  ScopeOf(u)' = ScopeOf(u)
BY DEF ScopeOf

\* A request begins: it is given the present scope of its user, and an edit
\* that carries a revision has read the present record.
LEMMA BeginStep ==
  ASSUME RegisterInv, NEW w \in Workers, Begin(w)
  PROVE  RegisterInv'
<1>1. PICK q \in Requests :
        /\ pc[w] = "idle" /\ requests < MaxRequests
        /\ requests' = requests + 1
        /\ job' = [job EXCEPT ![w] = q]
        /\ pc' = [pc EXCEPT ![w] = "begun"]
        /\ scope' = [scope EXCEPT ![w] = ScopeOf(q.user)]
        /\ todo' = [todo EXCEPT ![w] = IF q.kind \in AssetKinds THEN q.assets ELSE <<>>]
        /\ base' = [base EXCEPT ![w] =
               IF q.kind \in {"edit", "place"} THEN assets[q.assets[1]]
               ELSE IF q.kind = "grant" THEN [Missing EXCEPT !.rev = grant[q.of].rev] ELSE Missing]
        /\ UNCHANGED <<grant, records, held, shown>>
  BY DEF Begin
<1>2. Types /\ ServerTypes /\ RequestFits(w) BY DEF RegisterInv, Types
<1>3. held[w] = {} BY <1>1, <1>2 DEF RequestFits
<1>4. PICK s : s = IF q.kind \in AssetKinds THEN q.assets ELSE <<>> OBVIOUS
<1>5. PICK b : b = IF q.kind \in {"edit", "place"} THEN assets[q.assets[1]]
                   ELSE IF q.kind = "grant" THEN [Missing EXCEPT !.rev = grant[q.of].rev] ELSE Missing
  OBVIOUS
<1>6. s \in Seq(Assets) /\ (q.kind \in AssetKinds => s # <<>>)
  <2>1. <<>> \in Seq(Assets) OBVIOUS
  <2> QED BY <1>4, <2>1, RequestFields
<1>7. q.kind \in {"edit", "place"} => q.assets[1] \in Assets /\ Head(s) = q.assets[1] /\ s = q.assets
  <2>1. q.kind \in {"edit", "place"} => q.kind \in AssetKinds /\ s = q.assets BY <1>4 DEF AssetKinds
  <2> QED BY <1>6, <2>1, HeadTailProperties
<1>8. b \in AssetRows
  <2>1. CASE q.kind \in {"edit", "place"} BY <1>2, <1>5, <1>7, <2>1 DEF Types
  <2>2. CASE q.kind = "grant"
    <3>1. grant[q.of].rev \in Nat BY <1>2, <2>2, RequestFields DEF Types
    <3>2. b = [Missing EXCEPT !.rev = grant[q.of].rev] BY <1>5, <2>2
    <3>3. b = [in |-> FALSE, archived |-> FALSE, center |-> Nowhere, rack |-> Nowhere, department |-> Nowhere,
               holder |-> Nowhere, status |-> "in_stock", note |-> 0, rev |-> grant[q.of].rev]
      BY <3>2 DEF Missing
    <3> QED BY <3>1, <3>3 DEF AssetRows, Statuses
  <2>3. CASE q.kind \notin {"edit", "place", "grant"} BY <1>5, <2>3 DEF Missing, AssetRows, Statuses
  <2> QED BY <2>1, <2>2, <2>3
<1>9. q.user \in Users BY RequestFields
<1>10. ScopeOf(q.user) \in SUBSET Rules BY <1>2, <1>9, ScopesAre
<1>11. /\ job' = [job EXCEPT ![w] = q] /\ pc' = [pc EXCEPT ![w] = "begun"]
       /\ scope' = [scope EXCEPT ![w] = ScopeOf(q.user)]
       /\ todo' = [todo EXCEPT ![w] = s] /\ base' = [base EXCEPT ![w] = b]
       /\ held' = held /\ shown' = shown
  BY <1>1, <1>4, <1>5
<1>12. ServerTypes'
  <2>1. job' \in [Workers -> Requests \cup {Idle}] /\ pc' \in [Workers -> Stages]
    BY <1>2, <1>11 DEF ServerTypes, Stages
  <2>2. scope' \in [Workers -> SUBSET Rules] /\ base' \in [Workers -> AssetRows]
    BY <1>2, <1>8, <1>10, <1>11 DEF ServerTypes
  <2>3. todo' \in [Workers -> Seq(Assets)] BY <1>2, <1>6, <1>11 DEF ServerTypes
  <2> QED BY <1>2, <1>11, <2>1, <2>2, <2>3 DEF ServerTypes
<1>13. /\ job'[w] = q /\ pc'[w] = "begun" /\ scope'[w] = ScopeOf(q.user) /\ todo'[w] = s /\ base'[w] = b
       /\ held'[w] = {}
       /\ \A v \in Workers \ {w} : SameServer(v)
  BY <1>2, <1>3, <1>11 DEF ServerTypes, SameServer
<1>14. UNCHANGED records /\ grant' = grant BY <1>1
<1>15. Effect(w) BY <1>14, QuietEffect
<1>16. RequestFits(w)'
  <2>1. ScopeOf(q.user)' = ScopeOf(q.user) BY <1>14, ScopesStay
  <2> QED BY <1>6, <1>13, <2>1 DEF RequestFits
<1>17. BaseFits(w)'
  <2> SUFFICES ASSUME q.kind \in {"edit", "place"}, q.match
      PROVE  LET row == assets'[Head(s)] IN
             Len(s) = 1 /\ b.rev <= row.rev /\ (b.rev = row.rev => b = row)
    BY <1>13 DEF BaseFits
  <2>1. Len(s) = 1 BY <1>7, RequestFields
  <2>2. assets' = assets BY <1>14 DEF records
  <2>3. b = assets'[Head(s)] BY <1>5, <1>7, <2>2
  <2>4. b.rev \in Nat BY <1>8 DEF AssetRows
  <2> QED BY <2>1, <2>3, <2>4
<1>18. Protected(w)' BY <1>13 DEF Protected
<1>19. requests' \in 0 .. MaxRequests BY <1>1, <1>2, RegisterKeys DEF Types
<1>20. grant' \in [Users \ Managers -> [rules : Grants, rev : Nat]] BY <1>2, <1>14 DEF Types
<1>21. \A v \in Workers \ {w} : ScopeOf(job[v].user)' = ScopeOf(job[v].user)
  BY <1>13, <1>14 DEF ScopeOf, SameServer
<1> QED BY <1>12, <1>13, <1>15, <1>16, <1>17, <1>18, <1>19, <1>20, <1>21, Assembled

\* A response is put together from records and rules that are typed.
LEMMA ReadStep ==
  ASSUME RegisterInv, NEW w \in Workers, Read(w)
  PROVE  RegisterInv'
<1> DEFINE places == {Place(row) : row \in {x \in {assets[a] : a \in Assets} :
               x.in /\ ~x.archived /\ Visible(scope[w], CenterOf(x), x.department)}}
<1>1. /\ pc[w] = "begun" /\ shown' = [shown EXCEPT ![w] = places] /\ pc' = [pc EXCEPT ![w] = "answering"]
      /\ UNCHANGED <<grant, records, job, scope, base, todo, held, requests>>
  BY DEF Read
<1>2. Types /\ ServerTypes /\ RequestFits(w) /\ BaseFits(w) BY DEF RegisterInv, Types
<1>3. places \subseteq (Centers \cup {Nowhere}) \X (Departments \cup {Nowhere})
  <2>1. ASSUME NEW row \in AssetRows PROVE Place(row) \in (Centers \cup {Nowhere}) \X (Departments \cup {Nowhere})
    <3>1. CenterOf(row) \in Centers \cup {Nowhere} BY <1>2 DEF CenterOf, Types, AssetRows
    <3> QED BY <3>1 DEF Place, AssetRows
  <2>2. \A a \in Assets : assets[a] \in AssetRows BY <1>2 DEF Types
  <2> QED BY <2>1, <2>2
<1> HIDE DEF places
<1>4. ServerTypes'
  <2>1. shown' \in [Workers -> SUBSET ((Centers \cup {Nowhere}) \X (Departments \cup {Nowhere}))]
    BY <1>1, <1>2, <1>3 DEF ServerTypes
  <2>2. pc' \in [Workers -> Stages] BY <1>1, <1>2 DEF ServerTypes, Stages
  <2> QED BY <1>1, <1>2, <2>1, <2>2 DEF ServerTypes
<1>5. pc'[w] = "answering" /\ \A v \in Workers \ {w} : SameServer(v)
  BY <1>1, <1>2 DEF ServerTypes, SameServer
<1>6. Effect(w) BY <1>1, QuietEffect
<1>7. \A v \in Workers : ScopeOf(job[v].user)' = ScopeOf(job[v].user)
  <2>1. grant' = grant /\ job' = job BY <1>1
  <2> QED BY <2>1 DEF ScopeOf
<1>8. RequestFits(w)' BY <1>1, <1>2, <1>5, <1>7 DEF RequestFits
<1>9. BaseFits(w)' BY <1>1, <1>2 DEF BaseFits, records
<1>10. Protected(w)' BY <1>5 DEF Protected
<1>11. \A v \in Workers \ {w} : held'[w] \cap held[v] = {} BY <1>1 DEF RegisterInv, Exclusive
<1>12. grant' \in [Users \ Managers -> [rules : Grants, rev : Nat]] /\ requests' \in 0 .. MaxRequests
  BY <1>1, <1>2 DEF Types
<1>13. \A v \in Workers \ {w} : ScopeOf(job[v].user)' = ScopeOf(job[v].user) BY <1>7
<1> QED BY <1>4, <1>5, <1>6, <1>8, <1>9, <1>10, <1>11, <1>12, <1>13, Assembled

\* A request that ends, with a response, a refusal or a crash, or goes on to
\* its next item.
LEMMA EndStep ==
  ASSUME RegisterInv, NEW w \in Workers, Answer(w) \/ Abort(w) \/ Refuse(w)
  PROVE  RegisterInv'
<1>1. UNCHANGED <<grant, records, requests>> /\ (Done(w) \/ (NextItem(w) /\ pc[w] = "locked"))
  BY DEF Answer, Abort, Refuse
<1>2. grant' = grant /\ UNCHANGED records /\ requests' = requests BY <1>1
<1>3. Types BY DEF RegisterInv
<1>4. /\ ServerTypes' /\ held'[w] = {} /\ \A v \in Workers \ {w} : SameServer(v)
      /\ RequestFits(w)' /\ BaseFits(w)' /\ Protected(w)'
  BY <1>1, <1>2, DoneFits, NextItemFits
<1>5. Effect(w) BY <1>2, QuietEffect
<1>6. \A v \in Workers \ {w} : ScopeOf(job[v].user)' = ScopeOf(job[v].user)
  BY <1>2, <1>4 DEF ScopeOf, SameServer
<1>7. grant' \in [Users \ Managers -> [rules : Grants, rev : Nat]] /\ requests' \in 0 .. MaxRequests
  BY <1>2, <1>3 DEF Types
<1> QED BY <1>4, <1>5, <1>6, <1>7, Assembled

\* A grant is replaced while its user has no request: the others keep theirs.
LEMMA GrantStep ==
  ASSUME RegisterInv, NEW w \in Workers, SaveGrant(w)
  PROVE  RegisterInv'
<1>1. PICK q : q = job[w] OBVIOUS
<1>2. /\ pc[w] = "begun" /\ q.kind = "grant" /\ Admitted(q.of) = {} /\ Done(w)
      /\ grant' = [grant EXCEPT ![q.of] = [rules |-> q.rules, rev |-> @.rev + 1]]
      /\ UNCHANGED <<records, requests>>
  BY <1>1 DEF SaveGrant
<1>3. Types /\ RequestFits(w) BY DEF RegisterInv
<1>4. q \in Requests BY <1>1, <1>2, <1>3 DEF RequestFits
<1>5. q.of \in Users \ Managers /\ q.rules \in Grants BY <1>2, <1>4, RequestFields
<1>6. grant' \in [Users \ Managers -> [rules : Grants, rev : Nat]]
  <2>1. grant[q.of].rev + 1 \in Nat BY <1>3, <1>5 DEF Types
  <2> QED BY <1>2, <1>3, <1>5, <2>1 DEF Types
<1>7. \A u : u # q.of => ScopeOf(u)' = ScopeOf(u)
  <2> SUFFICES ASSUME NEW u, u # q.of PROVE ScopeOf(u)' = ScopeOf(u) OBVIOUS
  <2>1. CASE u \in Managers BY <2>1 DEF ScopeOf
  <2>2. CASE u \notin Managers
    <3>1. grant'[u] = grant[u] BY <1>2, <1>3 DEF Types
    <3> QED BY <2>2, <3>1 DEF ScopeOf
  <2> QED BY <2>1, <2>2
<1>8. ASSUME NEW v \in Workers \ {w}, pc[v] # "idle" PROVE ScopeOf(job[v].user)' = ScopeOf(job[v].user)
  <2>1. job[v].user # q.of BY <1>2, <1>5, <1>8 DEF Admitted
  <2>2. PICK u : u = job[v].user OBVIOUS
  <2>3. job'[v] = job[v] BY <1>2, DoneFits DEF SameServer
  <2> QED BY <1>7, <2>1, <2>2, <2>3
<1>9. /\ ServerTypes' /\ held'[w] = {} /\ \A v \in Workers \ {w} : SameServer(v)
      /\ RequestFits(w)' /\ BaseFits(w)' /\ Protected(w)'
  BY <1>2, DoneFits
<1>10. Effect(w) BY <1>2, QuietEffect
<1>11. requests' \in 0 .. MaxRequests BY <1>2, <1>3 DEF Types
<1> QED BY <1>6, <1>8, <1>9, <1>10, <1>11, Assembled

\* The rows are locked: they are exactly those the request is about now.
LEMMA LockStep ==
  ASSUME RegisterInv, NEW w \in Workers, Lock(w)
  PROVE  RegisterInv'
<1>1. /\ pc[w] = "begun" /\ job[w].kind \notin {"read", "grant"}
      /\ \A v \in Workers \ {w} : LockedRows(w) \cap held[v] = {}
      /\ held' = [held EXCEPT ![w] = LockedRows(w)] /\ pc' = [pc EXCEPT ![w] = "locked"]
      /\ UNCHANGED <<grant, records, job, scope, base, todo, shown, requests>>
  BY DEF Lock
<1>2. Types /\ ServerTypes /\ RequestFits(w) /\ BaseFits(w) BY DEF RegisterInv, Types
<1>3. job[w] \in Requests /\ (job[w].kind \in AssetKinds => todo[w] # <<>>)
  BY <1>1, <1>2 DEF RequestFits
<1>4. LockedRows(w) \subseteq RowNames BY <1>1, <1>2, <1>3, LockedRowsAre
<1>5. ServerTypes'
  <2>1. held' \in [Workers -> SUBSET RowNames] BY <1>1, <1>2, <1>4 DEF ServerTypes
  <2>2. pc' \in [Workers -> Stages] BY <1>1, <1>2 DEF ServerTypes, Stages
  <2> QED BY <1>1, <1>2, <2>1, <2>2 DEF ServerTypes
<1>6. /\ pc'[w] = "locked" /\ held'[w] = LockedRows(w) /\ \A v \in Workers \ {w} : SameServer(v)
  BY <1>1, <1>2 DEF ServerTypes, SameServer
<1>7. Effect(w) BY <1>1, QuietEffect
<1>8. \A v \in Workers : ScopeOf(job[v].user)' = ScopeOf(job[v].user)
  <2>1. grant' = grant /\ job' = job BY <1>1
  <2> QED BY <2>1 DEF ScopeOf
<1>9. RequestFits(w)' BY <1>1, <1>2, <1>6, <1>8 DEF RequestFits
<1>10. BaseFits(w)' BY <1>1, <1>2 DEF BaseFits, records
<1>11. LockedRows(w)' = LockedRows(w)
  <2>1. job' = job /\ todo' = todo /\ assets' = assets BY <1>1 DEF records
  <2> QED BY <2>1 DEF LockedRows, PlaceRows, On, PeopleLocked, PersonRow, AssetRow, RackRow
<1>12. Protected(w)' BY <1>6, <1>11 DEF Protected
<1>13. \A v \in Workers \ {w} : held'[w] \cap held[v] = {} BY <1>1, <1>6
<1>14. grant' \in [Users \ Managers -> [rules : Grants, rev : Nat]] /\ requests' \in 0 .. MaxRequests
  BY <1>1, <1>2 DEF Types
<1>15. \A v \in Workers \ {w} : ScopeOf(job[v].user)' = ScopeOf(job[v].user) BY <1>8
<1> QED BY <1>5, <1>6, <1>7, <1>9, <1>10, <1>12, <1>13, <1>14, <1>15, Assembled

\* The checks pass on rows that are locked.
LEMMA CheckStep ==
  ASSUME RegisterInv, NEW w \in Workers, Check(w)
  PROVE  RegisterInv'
<1>1. /\ pc[w] = "locked" /\ Allowed(w) /\ pc' = [pc EXCEPT ![w] = "checked"]
      /\ UNCHANGED <<grant, records, job, scope, base, todo, held, shown, requests>>
  BY DEF Check
<1>2. Types /\ ServerTypes /\ RequestFits(w) /\ BaseFits(w) /\ Protected(w) BY DEF RegisterInv, Types
<1>3. /\ job[w] \in Requests /\ (job[w].kind \in AssetKinds => todo[w] # <<>>)
      /\ job[w].kind \notin {"read", "grant"} /\ LockedRows(w) \subseteq held[w]
  BY <1>1, <1>2 DEF RequestFits, Protected
<1>4. ServerTypes'
  <2>1. pc' \in [Workers -> Stages] BY <1>1, <1>2 DEF ServerTypes, Stages
  <2> QED BY <1>1, <1>2, <2>1 DEF ServerTypes
<1>5. pc'[w] = "checked" /\ held'[w] = held[w] /\ \A v \in Workers \ {w} : SameServer(v)
  BY <1>1, <1>2 DEF ServerTypes, SameServer
<1>6. Effect(w) /\ Steady(w) BY <1>1, QuietEffect, QuietSteady
<1>7. \A v \in Workers : ScopeOf(job[v].user)' = ScopeOf(job[v].user)
  <2>1. grant' = grant /\ job' = job BY <1>1
  <2> QED BY <2>1 DEF ScopeOf
<1>8. RequestFits(w)' BY <1>1, <1>2, <1>5, <1>7 DEF RequestFits
<1>9. BaseFits(w)' BY <1>1, <1>2 DEF BaseFits, records
<1>10. job'[w] = job[w] /\ todo'[w] = todo[w] /\ scope'[w] = scope[w] /\ base'[w] = base[w] BY <1>1
<1>11. LockedRows(w)' = LockedRows(w) BY <1>3, <1>6, <1>10, LockedRowsStay
<1>12. Allowed(w)' BY <1>1, <1>3, <1>6, <1>10, AllowedStays
<1>13. Protected(w)' BY <1>3, <1>5, <1>11, <1>12 DEF Protected
<1>14. \A v \in Workers \ {w} : held'[w] \cap held[v] = {} BY <1>5 DEF RegisterInv, Exclusive
<1>15. grant' \in [Users \ Managers -> [rules : Grants, rev : Nat]] /\ requests' \in 0 .. MaxRequests
  BY <1>1, <1>2 DEF Types
<1>16. \A v \in Workers \ {w} : ScopeOf(job[v].user)' = ScopeOf(job[v].user) BY <1>7
<1> QED BY <1>4, <1>5, <1>6, <1>8, <1>9, <1>13, <1>14, <1>15, <1>16, Assembled

\* The commits that write records.
Commit(w) ==
    \/ CommitEdit(w) \/ CommitPlace(w) \/ CommitClear(w) \/ CommitAssign(w) \/ CommitDispose(w)
    \/ CommitArchive(w) \/ CommitCreate(w) \/ CommitMoveRack(w) \/ CommitPerson(w)

\* Every commit writes what its request may write, and goes on.
LEMMA CommitEffect ==
  ASSUME RegisterInv, NEW w \in Workers, Commit(w)
  PROVE  /\ Effect(w) /\ pc[w] = "checked" /\ (NextItem(w) \/ Done(w))
         /\ grant' = grant /\ requests' = requests
<1>1. PICK a : a = Head(todo[w]) OBVIOUS
<1>2. pc[w] = "checked"
  BY DEF Commit, CommitEdit, CommitPlace, CommitClear, CommitAssign, CommitDispose, CommitArchive,
         CommitCreate, CommitMoveRack, CommitPerson, At
<1>3. CASE CommitEdit(w) \/ CommitPlace(w) \/ CommitClear(w) \/ CommitAssign(w) \/ CommitDispose(w) \/ CommitArchive(w)
  <2>1. OneRecord(w, a) BY <1>1, <1>3, RecordCommits
  <2>2. a \in Assets /\ NextItem(w) /\ grant' = grant /\ requests' = requests BY <2>1 DEF OneRecord
  <2> QED BY <1>2, <2>1, <2>2, OneEffect
<1>4. CASE CommitCreate(w) BY <1>2, <1>4, CreateEffect DEF CommitCreate
<1>5. CASE CommitMoveRack(w) BY <1>2, <1>5, MoveEffect DEF CommitMoveRack
<1>6. CASE CommitPerson(w) BY <1>2, <1>6, PersonEffect DEF CommitPerson
<1> QED BY <1>3, <1>4, <1>5, <1>6 DEF Commit

\* A commit keeps what every request relies on, its own batch included.
LEMMA CommitStep ==
  ASSUME RegisterInv, NEW w \in Workers, Commit(w)
  PROVE  RegisterInv'
<1>1. /\ Effect(w) /\ pc[w] = "checked" /\ (NextItem(w) \/ Done(w))
      /\ grant' = grant /\ requests' = requests
  BY CommitEffect
<1>2. /\ ServerTypes' /\ held'[w] = {} /\ \A v \in Workers \ {w} : SameServer(v)
      /\ RequestFits(w)' /\ BaseFits(w)' /\ Protected(w)'
  BY <1>1, DoneFits, NextItemFits
<1>3. \A v \in Workers \ {w} : ScopeOf(job[v].user)' = ScopeOf(job[v].user)
  BY <1>1, <1>2 DEF ScopeOf, SameServer
<1>4. Types BY DEF RegisterInv
<1>5. grant' \in [Users \ Managers -> [rules : Grants, rev : Nat]] /\ requests' \in 0 .. MaxRequests
  BY <1>1, <1>4 DEF Types
<1> QED BY <1>1, <1>2, <1>3, <1>5, Assembled

\* The register begins in order.
LEMMA InitFits ==
  ASSUME Init
  PROVE  RegisterInv
<1>1. Missing \in AssetRows BY DEF Missing, AssetRows, Statuses
<1>2. ServerTypes
  <2>1. job \in [Workers -> Requests \cup {Idle}] /\ pc \in [Workers -> Stages] BY DEF Init, Stages
  <2>2. scope \in [Workers -> SUBSET Rules] /\ base \in [Workers -> AssetRows] BY <1>1 DEF Init
  <2>3. todo \in [Workers -> Seq(Assets)] /\ held \in [Workers -> SUBSET RowNames]
        /\ shown \in [Workers -> SUBSET ((Centers \cup {Nowhere}) \X (Departments \cup {Nowhere}))]
    BY DEF Init
  <2> QED BY <2>1, <2>2, <2>3 DEF ServerTypes
<1>3. Types
  <2>1. grant \in [Users \ Managers -> [rules : Grants, rev : Nat]] BY RegisterKeys DEF Init
  <2>2. assets \in [Assets -> AssetRows] /\ center \in [Racks -> Centers] BY RegisterKeys, FirstRecords DEF Init
  <2>3. person \in [People -> {"active", "inactive", "gone"}] /\ disposals \subseteq Assets BY DEF Init
  <2>4. history \in [Assets -> Seq(Events)] BY DEF Init
  <2>5. requests \in 0 .. MaxRequests BY RegisterKeys DEF Init
  <2> QED BY <1>2, <2>1, <2>2, <2>3, <2>4, <2>5 DEF Types
<1>4. ASSUME NEW a \in Assets PROVE RecordFits(a)
  <2>1. PICK row : row = FirstAssets[a] OBVIOUS
  <2>2. /\ row.in \/ row = Missing
        /\ row.holder = Nowhere /\ row.status # "retired"
        /\ row.archived => row.rack = Nowhere
        /\ row.rack # Nowhere => row.center = HomeCenter[row.rack]
    BY <2>1, FirstRecords
  <2>3. assets[a] = row /\ center = HomeCenter /\ disposals = {} BY <2>1 DEF Init
  <2>4. history[a] = <<>> BY DEF Init
  <2>5. LastHolder(a) = Nowhere BY <2>4 DEF LastHolder
  <2>6. Len(history[a]) = 0 BY <2>4
  <2> QED BY <2>2, <2>3, <2>5, <2>6 DEF RecordFits
<1>5. \A w \in Workers : RequestFits(w) /\ BaseFits(w) /\ Protected(w)
  BY DEF Init, RequestFits, BaseFits, Protected
<1>6. Exclusive BY DEF Init, Exclusive
<1> QED BY <1>3, <1>4, <1>5, <1>6 DEF RegisterInv

\* Every step keeps it in order.
LEMMA StepFits ==
  ASSUME RegisterInv, [Next]_vars
  PROVE  RegisterInv'
<1>1. CASE UNCHANGED vars
  <2>1. /\ UNCHANGED <<grant, assets, center, person, history, disposals, requests>>
        /\ UNCHANGED <<job, pc, scope, base, todo, held, shown>>
    BY <1>1 DEF vars, records, server
  <2>2. Types' BY <2>1 DEF RegisterInv, Types, ServerTypes
  <2>3. Exclusive' BY <2>1 DEF RegisterInv, Exclusive
  <2>4. \A a \in Assets : RecordFits(a)' BY <2>1 DEF RegisterInv, RecordFits, LastHolder
  <2>5. \A w \in Workers : RequestFits(w)' /\ BaseFits(w)' BY <2>1 DEF RegisterInv, RequestFits, BaseFits, ScopeOf
  <2>6. ASSUME NEW w \in Workers PROVE Protected(w)'
    <3>1. Protected(w) /\ RequestFits(w) BY DEF RegisterInv
    <3>2. Steady(w) BY <2>1, QuietSteady DEF records
    <3>3. pc[w] \in {"locked", "checked"} =>
            /\ job[w] \in Requests /\ (job[w].kind \in AssetKinds => todo[w] # <<>>)
            /\ job[w].kind \notin {"read", "grant"} /\ LockedRows(w) \subseteq held[w]
      BY <3>1 DEF RequestFits, Protected
    <3>4. pc[w] \in {"locked", "checked"} => LockedRows(w)' = LockedRows(w)
      BY <2>1, <3>2, <3>3, LockedRowsStay
    <3>5. pc[w] = "checked" => Allowed(w)' BY <2>1, <3>1, <3>2, <3>3, AllowedStays DEF Protected
    <3> QED BY <2>1, <3>3, <3>4, <3>5 DEF Protected
  <2> QED BY <2>2, <2>3, <2>4, <2>5, <2>6 DEF RegisterInv
<1>2. ASSUME NEW w \in Workers, Step(w) PROVE RegisterInv'
  <2>1. \/ Begin(w) \/ Read(w) \/ Answer(w) \/ SaveGrant(w) \/ Lock(w) \/ Check(w) \/ Refuse(w)
        \/ Abort(w) \/ Commit(w)
    BY <1>2 DEF Step, Commit
  <2> QED BY <2>1, BeginStep, ReadStep, EndStep, GrantStep, LockStep, CheckStep, CommitStep
<1> QED BY <1>1, <1>2 DEF Next

\* The invariant holds, for any users, racks, assets, rules and requests.
LEMMA RegisterInvHolds == Spec => []RegisterInv
BY InitFits, StepFits, PTL DEF Spec

-----------------------------------------------------------------------------
(* What follows                                                              *)

\* The type invariant and the agreement of the records are parts of it.
LEMMA RegisterInvAgrees ==
  ASSUME RegisterInv
  PROVE  RecordsAgree
<1>1. Types /\ ServerTypes BY DEF RegisterInv, Types
<1>2. TypeOK
  <2>1. DOMAIN grant = Users \ Managers /\ \A u \in DOMAIN grant : grant[u].rules \in Grants
    BY <1>1 DEF Types
  <2>2. \A a \in Assets :
          /\ assets[a].center \in Centers \cup {Nowhere} /\ assets[a].rack \in Racks \cup {Nowhere}
          /\ assets[a].department \in Departments \cup {Nowhere}
          /\ assets[a].holder \in People \cup {Nowhere} /\ assets[a].status \in Statuses
    BY <1>1 DEF Types, AssetRows
  <2>3. \A w \in Workers : job[w] \in Requests \cup {Idle} BY <1>1 DEF ServerTypes
  <2> QED BY <1>1, <2>1, <2>2, <2>3 DEF Types, TypeOK
<1>3. \A a \in Assets : RecordFits(a) BY DEF RegisterInv
<1> QED BY <1>2, <1>3 DEF RecordsAgree, RecordFits

\* The records agree, whatever is assigned, returned, deactivated, disposed of,
\* archived, moved and created at the same time: the holder of an asset is the
\* one its last event names and is an active person, its events follow on each
\* other, it is retired exactly if its disposal was recorded, and a retired or
\* archived one has neither a holder nor a place in a rack.
THEOREM RecordsStayInAgreement == Spec => []RecordsAgree
BY RegisterInvHolds, RegisterInvAgrees, PTL

\* An edit or a placement that passed its check works on the record that its
\* client had read.
LEMMA CheckedRecordIsRead ==
  ASSUME RegisterInv, NEW w \in Workers, At(w, {"edit", "place"}), job[w].match
  PROVE  assets[Head(todo[w])] = base[w]
<1>1. PICK a : a = Head(todo[w]) OBVIOUS
<1>2. PICK q : q = job[w] OBVIOUS
<1>3. pc[w] = "checked" /\ q.kind \in {"edit", "place"} /\ q.match BY <1>2 DEF At
<1>4. Allowed(w) BY <1>3, CheckedHolds
<1>5. q.kind = "edit" => MayEdit(w, a) BY <1>1, <1>2, <1>4 DEF Allowed
<1>6. q.kind = "place" => MayPlace(w, a) BY <1>1, <1>2, <1>4 DEF Allowed
<1>7. Current(w, a) BY <1>3, <1>5, <1>6 DEF MayEdit, MayPlace
<1>8. assets[a].rev = base[w].rev BY <1>2, <1>3, <1>7 DEF Current
<1>9. BaseFits(w) BY DEF RegisterInv
<1>10. base[w].rev = assets[a].rev => base[w] = assets[a] BY <1>1, <1>2, <1>3, <1>9 DEF BaseFits
<1> QED BY <1>1, <1>8, <1>10

\* An edit that carries a revision overwrites nothing that another request
\* wrote since its client read the record, not even after its check.
THEOREM EditsSeeWhatTheyChange == Spec => EditsSeeEveryChange
<1> DEFINE Seen == \A w \in Workers :
        At(w, {"edit", "place"}) /\ job[w].match /\ assets' # assets =>
            [assets[Head(todo[w])] EXCEPT !.rev = 0] = [base[w] EXCEPT !.rev = 0]
<1>1. RegisterInv => Seen BY CheckedRecordIsRead
<1>2. RegisterInv => [Seen]_vars BY <1>1
<1> QED BY <1>2, RegisterInvHolds, PTL DEF EditsSeeEveryChange

-----------------------------------------------------------------------------
(* The register implements the monitor of its data scopes                    *)

Granted == [u \in Users |-> ScopeOf(u)]
Inside == [w \in Workers |-> job[w].user]
Data == [a \in Assets |->
    IF assets[a].in THEN [place |-> Place(assets[a]), rest |-> <<assets[a], history[a], a \in disposals>>]
    ELSE [place |-> <<>>, rest |-> <<>>]]

\* A request that works has the rules of its user, who is somebody.
LEMMA Admission ==
  ASSUME RegisterInv, NEW w \in Workers
  PROVE  /\ pc[w] # "idle" => Inside[w] \in Users /\ Inside[w] # NoUser /\ Granted[Inside[w]] = scope[w]
         /\ pc[w] = "idle" => Inside[w] = NoUser
<1>1. RequestFits(w) BY DEF RegisterInv
<1>2. Inside[w] = job[w].user BY DEF Inside
<1>3. CASE pc[w] = "idle" BY <1>1, <1>2, <1>3 DEF RequestFits, Idle
<1>4. CASE pc[w] # "idle"
  <2>1. job[w] \in Requests /\ scope[w] = ScopeOf(job[w].user) BY <1>1, <1>4 DEF RequestFits
  <2>2. job[w].user \in Users BY <2>1, RequestFields
  <2> QED BY <1>2, <1>4, <2>1, <2>2, RequestForms DEF Granted
<1> QED BY <1>3, <1>4

\* The rules of a scope are those of the monitor.
LEMMA SameRules ==
  ASSUME NEW rules, NEW c, NEW d
  PROVE  /\ Covers(rules, c, d) <=> Monitor!MayWrite(rules, <<c, d>>)
         /\ Visible(rules, c, d) <=> Monitor!MayRead(rules, <<c, d>>)
BY DEF Covers, WriteRule, Visible, ReadRule, Monitor!MayWrite, Monitor!Writes, Monitor!MayRead, Monitor!Reads

\* A session ends as the monitor says.
LEMMA Leaving ==
  ASSUME RegisterInv, NEW w \in Workers, pc[w] # "idle", Done(w)
  PROVE  /\ Inside[w] # NoUser
         /\ Inside' = [Inside EXCEPT ![w] = NoUser]
         /\ shown' = [shown EXCEPT ![w] = {}]
<1>1. job \in [Workers -> Requests \cup {Idle}] BY DEF RegisterInv, Types, ServerTypes
<1>2. job' = [job EXCEPT ![w] = Idle] /\ shown' = [shown EXCEPT ![w] = {}] BY DEF Done
<1>3. Idle.user = NoUser BY DEF Idle
<1>4. \A v \in Workers : job'[v].user = IF v = w THEN NoUser ELSE job[v].user BY <1>1, <1>2, <1>3
<1>5. Inside' = [Inside EXCEPT ![w] = NoUser] BY <1>4 DEF Inside
<1> QED BY <1>2, <1>5, Admission

\* What a session changes, its user may write, before and after.
LEMMA ChangesAreAllowed ==
  ASSUME RegisterInv, NEW w \in Workers, Effect(w), pc[w] # "idle", NEW a \in Assets, Data'[a] # Data[a]
  PROVE  /\ Data[a] = Monitor!Absent \/ Monitor!MayWrite(Granted[Inside[w]], Data[a].place)
         /\ Data'[a] # Monitor!Absent /\ Monitor!MayWrite(Granted[Inside[w]], Data'[a].place)
<1>1. Granted[Inside[w]] = scope[w] BY Admission
<1>2. Data[a] = IF assets[a].in
                THEN [place |-> Place(assets[a]), rest |-> <<assets[a], history[a], a \in disposals>>]
                ELSE Monitor!Absent
  BY DEF Data, Monitor!Absent
<1>3. Data'[a] = IF assets'[a].in
                 THEN [place |-> Place(assets[a])', rest |-> <<assets'[a], history'[a], a \in disposals'>>]
                 ELSE Monitor!Absent
  BY DEF Data, Monitor!Absent
<1>4. Place(assets[a]) = <<CenterOf(assets[a]), assets[a].department>>
      /\ Place(assets[a])' = <<CenterOf(assets[a])', assets'[a].department>>
  BY DEF Place
<1>5. Written(w, a)
  <2> SUFFICES ASSUME SameRecord(a), CenterOf(assets[a])' = CenterOf(assets[a]) PROVE Data'[a] = Data[a]
    BY DEF Effect
  <2>1. assets'[a] = assets[a] /\ history'[a] = history[a] BY DEF SameRecord
  <2>2. (a \in disposals') = (a \in disposals) BY DEF SameRecord
  <2>3. Place(assets[a])' = Place(assets[a]) BY <1>4, <2>1
  <2> QED BY <1>2, <1>3, <2>1, <2>2, <2>3
<1>6. assets'[a].in /\ Covers(scope[w], CenterOf(assets[a])', assets'[a].department) BY <1>5 DEF Written
<1>7. Data'[a].place = <<CenterOf(assets[a])', assets'[a].department>> BY <1>3, <1>4, <1>6
<1>8. Monitor!MayWrite(scope[w], Data'[a].place) BY <1>6, <1>7, SameRules
<1>9. Data'[a] # Monitor!Absent
  <2>1. Monitor!Absent.place = <<>> BY DEF Monitor!Absent
  <2>2. \A c, d : <<c, d>> # <<>> OBVIOUS
  <2> QED BY ONLY <1>7, <2>1, <2>2
<1>10. assets[a].in => Monitor!MayWrite(scope[w], Data[a].place)
  <2> SUFFICES ASSUME assets[a].in PROVE Monitor!MayWrite(scope[w], Data[a].place) OBVIOUS
  <2>1. Covers(scope[w], CenterOf(assets[a]), assets[a].department) BY <1>5 DEF Written, Mine
  <2>2. Data[a].place = <<CenterOf(assets[a]), assets[a].department>> BY <1>2, <1>4
  <2> QED BY <2>1, <2>2, SameRules
<1> QED BY <1>1, <1>2, <1>8, <1>9, <1>10


\* Records and grants that stay look the same to the monitor.
LEMMA NothingChanges ==
  /\ grant' = grant => Granted' = Granted
  /\ UNCHANGED records => Data' = Data
  /\ job' = job => Inside' = Inside
<1>1. grant' = grant => Granted' = Granted BY DEF Granted, ScopeOf
<1>2. UNCHANGED records => Data' = Data BY DEF records, Data, Place, CenterOf
<1>3. job' = job => Inside' = Inside BY DEF Inside
<1> QED BY <1>1, <1>2, <1>3

\* A session that changes rows, or ends.
LEMMA ChangeStep ==
  ASSUME RegisterInv, NEW w \in Workers, Effect(w), pc[w] # "idle", grant' = grant,
         Done(w) \/ (UNCHANGED <<job, shown>>)
  PROVE  Monitor!Change(w)
<1>1. Inside[w] # NoUser BY Admission
<1>2. \A a \in Assets : Data'[a] # Data[a] =>
        /\ Data[a] = Monitor!Absent \/ Monitor!MayWrite(Granted[Inside[w]], Data[a].place)
        /\ Data'[a] # Monitor!Absent /\ Monitor!MayWrite(Granted[Inside[w]], Data'[a].place)
  BY ChangesAreAllowed
<1>3. Granted' = Granted BY NothingChanges
<1>4. (Inside' = Inside /\ shown' = shown)
      \/ (Inside' = [Inside EXCEPT ![w] = NoUser] /\ shown' = [shown EXCEPT ![w] = {}])
  BY Leaving, NothingChanges
<1> QED BY <1>1, <1>2, <1>3, <1>4 DEF Monitor!Change, Monitor!Leave, Granted, Inside, Data

\* A session that begins.
LEMMA EnterStep ==
  ASSUME RegisterInv, NEW w \in Workers, Begin(w)
  PROVE  Monitor!Enter(w)
<1>1. PICK q \in Requests :
        /\ pc[w] = "idle" /\ job' = [job EXCEPT ![w] = q] /\ UNCHANGED <<grant, records, held, shown>>
  BY DEF Begin
<1>2. Inside[w] = NoUser BY <1>1, Admission
<1>3. q.user \in Users BY RequestFields
<1>4. job \in [Workers -> Requests \cup {Idle}] BY DEF RegisterInv, Types, ServerTypes
<1>5. \A v \in Workers : job'[v].user = IF v = w THEN q.user ELSE job[v].user BY <1>1, <1>4
<1>6. Inside' = [Inside EXCEPT ![w] = q.user] BY <1>5 DEF Inside
<1>7. Granted' = Granted /\ shown' = shown /\ Data' = Data BY <1>1, NothingChanges
<1> QED BY <1>2, <1>3, <1>6, <1>7 DEF Monitor!Enter, Granted, Inside, Data

\* A response shows what its user may read now.
LEMMA ShowStep ==
  ASSUME RegisterInv, NEW w \in Workers, Read(w)
  PROVE  Monitor!Show(w)
<1> DEFINE places == {Place(row) : row \in {x \in {assets[a] : a \in Assets} :
               x.in /\ ~x.archived /\ Visible(scope[w], CenterOf(x), x.department)}}
<1>1. /\ pc[w] = "begun" /\ shown' = [shown EXCEPT ![w] = places]
      /\ UNCHANGED <<grant, records, job, scope, base, todo, held, requests>>
  BY DEF Read
<1>2. Inside[w] # NoUser /\ Granted[Inside[w]] = scope[w] BY <1>1, Admission
<1>3. \A place \in places : Monitor!MayRead(Granted[Inside[w]], place)
  BY <1>2, SameRules DEF Place
<1>4. shown \in [Workers -> SUBSET ((Centers \cup {Nowhere}) \X (Departments \cup {Nowhere}))]
  BY DEF RegisterInv, Types, ServerTypes
<1> HIDE DEF places
<1>5. shown'[w] = places BY <1>1, <1>4
<1>6. Granted' = Granted /\ Inside' = Inside /\ Data' = Data BY <1>1, NothingChanges
<1> QED BY <1>1, <1>2, <1>3, <1>5, <1>6 DEF Monitor!Show, Granted, Inside, Data

\* A grant changes while its user has no session.
LEMMA RegrantStep ==
  ASSUME RegisterInv, NEW w \in Workers, SaveGrant(w)
  PROVE  Monitor!Regrant(w)
<1>1. PICK q : q = job[w] OBVIOUS
<1>2. /\ pc[w] = "begun" /\ q.kind = "grant" /\ Admitted(q.of) = {} /\ Done(w)
      /\ grant' = [grant EXCEPT ![q.of] = [rules |-> q.rules, rev |-> @.rev + 1]]
      /\ UNCHANGED <<records, requests>>
  BY <1>1 DEF SaveGrant
<1>3. Types /\ RequestFits(w) BY DEF RegisterInv
<1>4. q \in Requests BY <1>1, <1>2, <1>3 DEF RequestFits
<1>5. PICK u \in Users : u = q.of /\ u \notin Managers BY <1>2, <1>4, RequestFields
<1>6. ASSUME NEW t \in Workers PROVE Inside[t] # u
  <2>1. CASE pc[t] = "idle"
    <3>1. Inside[t] = NoUser BY <2>1, Admission
    <3> QED BY <3>1, RequestForms
  <2>2. CASE pc[t] # "idle" BY <1>2, <1>5, <2>2 DEF Admitted, Inside
  <2> QED BY <2>1, <2>2
<1>7. \A x \in Users : x # u => ScopeOf(x)' = ScopeOf(x) BY <1>2, <1>3, <1>5 DEF ScopeOf, Types
<1>8. Granted' = [Granted EXCEPT ![u] = Granted'[u]] BY <1>7 DEF Granted
<1>9. /\ Inside[w] # NoUser /\ Inside' = [Inside EXCEPT ![w] = NoUser]
      /\ shown' = [shown EXCEPT ![w] = {}]
  BY <1>2, Leaving
<1>10. Data' = Data BY <1>2, NothingChanges
<1> QED BY <1>6, <1>8, <1>9, <1>10 DEF Monitor!Regrant, Monitor!Leave, Granted, Inside, Data

\* Every step is a step of the monitor, or nothing to it.
LEMMA MonitorStep ==
  ASSUME RegisterInv, [Next]_vars
  PROVE  [Monitor!Next]_(Monitor!vars)
<1>1. ASSUME Granted' = Granted, Inside' = Inside, shown' = shown, Data' = Data PROVE UNCHANGED Monitor!vars
  BY <1>1 DEF Monitor!vars, Granted, Inside, Data
<1>2. CASE UNCHANGED vars
  <2>1. grant' = grant /\ UNCHANGED records /\ job' = job /\ shown' = shown BY <1>2 DEF vars, server
  <2> QED BY <1>1, <2>1, NothingChanges
<1>3. ASSUME NEW w \in Workers, Step(w) PROVE Monitor!Next \/ UNCHANGED Monitor!vars
  <2>1. CASE Begin(w) BY <2>1, EnterStep DEF Monitor!Next
  <2>2. CASE Read(w) BY <2>2, ShowStep DEF Monitor!Next
  <2>3. CASE SaveGrant(w) BY <2>3, RegrantStep DEF Monitor!Next
  <2>4. CASE Lock(w) \/ Check(w)
    <3>1. grant' = grant /\ UNCHANGED records /\ job' = job /\ shown' = shown BY <2>4 DEF Lock, Check
    <3> QED BY <1>1, <3>1, NothingChanges
  <2>5. CASE Answer(w) \/ Abort(w) \/ Refuse(w) \/ Commit(w)
    <3>1. Effect(w) /\ pc[w] # "idle" /\ grant' = grant /\ (Done(w) \/ NextItem(w))
      <4>1. CASE Answer(w) \/ Abort(w) \/ Refuse(w) BY <4>1, QuietEffect DEF Answer, Abort, Refuse
      <4>2. CASE Commit(w) BY <4>2, CommitEffect
      <4> QED BY <2>5, <4>1, <4>2
    <3>2. Done(w) \/ UNCHANGED <<job, shown>> BY <3>1 DEF NextItem
    <3> QED BY <3>1, <3>2, ChangeStep DEF Monitor!Next
  <2> QED BY <1>3, <2>1, <2>2, <2>3, <2>4, <2>5 DEF Step, Commit
<1> QED BY <1>2, <1>3 DEF Next

\* It begins with no session.
LEMMA MonitorBegins == Init => Monitor!Init
<1> SUFFICES ASSUME Init PROVE Monitor!Init OBVIOUS
<1>1. Inside = [w \in Workers |-> NoUser] /\ shown = [w \in Workers |-> {}] BY DEF Init, Inside, Idle
<1> QED BY <1>1 DEF Monitor!Init, Inside

\* No response shows, and no write touches or produces, an asset that one rule
\* of its user's present grant does not cover, however grants, racks, holders
\* and batches change meanwhile; and a grant waits for its user's requests.
THEOREM RegisterKeepsScopes == Spec => MonitorSpec
<1>1. Init => Monitor!Init BY MonitorBegins
<1>2. RegisterInv /\ [Next]_vars => [Monitor!Next]_(Monitor!vars) BY MonitorStep
<1> QED BY <1>1, <1>2, RegisterInvHolds, PTL DEF Spec, MonitorSpec, Monitor!Spec
=============================================================================
