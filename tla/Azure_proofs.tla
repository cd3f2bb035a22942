---------------------------- MODULE Azure_proofs ----------------------------
(* Theorems about what the console does with Azure and with the rows that      *)
(* consent makes, each for any values of its constants: the tables of          *)
(* Directory under the onboarding of Consent and the imports of TaijiImport,   *)
(* and the document of a batch deployment (AzureDeploy).                       *)
EXTENDS Consent, AzureDeploy, FiniteSetTheorems, TLAPS

-----------------------------------------------------------------------------
(* Consent, for any tables to start from, any number of requests and of        *)
(* commits: the rows stay rows of their tables; a deletion takes nothing with  *)
(* it, and a request inserts nothing twice, if nobody overlaps it.             *)

\* A row to be written is a row, and a request that deletes writes nothing.
Pending(j) ==
    /\ DOMAIN j.after \subseteq Ids /\ j.gone \subseteq Ids
    /\ j.after \in [DOMAIN j.after -> Row]
    /\ j.before \in [DOMAIN j.after -> Row \cup {NoRow}]
    /\ j.gone # {} => DOMAIN j.after = {}

Typed ==
    /\ db \in [Ids -> Row \cup {NoRow}] /\ Sound(db)
    /\ DOMAIN job = Requests /\ \A r \in Requests : Pending(job[r])
    /\ alone \subseteq Requests /\ left \in 0 .. MaxCommits /\ drawn \in 0 .. MaxId

\* The rows that a request is to insert.
Vain(j) == {i \in DOMAIN j.after : j.before[i] = NoRow}

\* The ids that the sequences have drawn: of the rows there are, of those to be rewritten, and one block
\* for each request, of its own.
Numbered ==
    /\ \A i \in Ids : db[i] # NoRow => i <= drawn
    /\ \A r \in Requests :
          /\ \A i \in DOMAIN job[r].after : i <= drawn
          /\ \E m, n \in 0 .. MaxId : Vain(job[r]) = m+1 .. n
          /\ \A i \in Vain(job[r]) :
                db[i] = NoRow /\ \A q \in Requests \ {r} : i \notin DOMAIN job[q].after

\* The status of a row is one of its table's, and no row ever moves to another table.
Fitting ==
    /\ \A i \in Ids : Fits(db[i])
    /\ \A r \in Requests : \A i \in DOMAIN job[r].after :
          /\ Fits(job[r].after[i])
          /\ job[r].before[i] # NoRow => /\ job[r].after[i].kind = job[r].before[i].kind
                                         /\ db[i] # NoRow => db[i].kind = job[r].before[i].kind

\* Homed in the tables d.
HomedIn(d, i) ==
    d[i].refs["entity"] # None => d[d[i].refs["entity"]].refs["source"] = d[i].refs["source"]

\* The rows S can go from d and no account, data source, bill, billing or invite notices.
Harmless(d, S) ==
    \A i \in Ids \ S : d[i].kind \in Kept /\ HomedIn(d, i) =>
        /\ i \notin Doomed(d, S)
        /\ \A c \in Columns : <<d[i].kind, c>> \in SetsNull => d[i].refs[c] \notin Doomed(d, S)

\* As long as nobody has committed since it read, a request deletes what it may.
Spares == \A r \in alone : job[r].gone # {} => Harmless(db, job[r].gone)

\* An import of Taiji inserts no second shared account or data source, nor a second account for a pair,
Twinless(w) ==
    \/ w.kind = "account" /\ \A a \in Named("account", w.key) : db[a].cloud # "taiji"
    \/ w.kind = "data_source" /\ Pointing("data_source", "account", w.refs["account"]) = {}
    \/ /\ w.kind = "project"
       /\ \A p \in Named("project", w.key) :
             db[p].refs["source"] = w.refs["source"] => db[p].refs["site"] # w.refs["site"]

\* and bills what has an account under the data source, or is given one.
Billed(after, w) ==
    LET Is(v) == v.kind = "project" /\ v.key = w.key /\ v.refs["site"] = w.refs["site"]
    IN  /\ w.kind = "billing"
        /\ (\E p \in DOMAIN after : Is(after[p])) \/ (\E p \in Ids \ DOMAIN after : Is(db[p]))

\* What a request looks for before it is to insert the row i of after.
OneOf(api, after, i) ==
    LET w == after[i]
    IN  /\ api \in {"create_supplier", "discover"} /\ w.kind = "supplier" => Named("supplier", w.key) = {}
        /\ api = "create_gcp_view"
              => \A d \in Pointing("data_source", "account", w.refs["account"]) : db[d].key # w.key
        /\ api = "callback"
              => \A a \in Of("account") : Multi(a) /\ db[a].cloud = "azure" => db[a].key # w.key
        /\ api = "verify" /\ w.kind = "project"
              => LET d == w.refs["site"]
                 IN  /\ d \in DOMAIN after /\ after[d].kind = "data_source"
                     /\ \A p \in Named("project", w.key) : \A e \in Of("data_source") :
                           db[p].refs["site"] = e => db[e].refs["account"] # after[d].refs["account"]
        /\ api \in {"taiji_from_blob", "taiji_ingest_day"} => Twinless(w) \/ Billed(after, w)

\* As long as nobody has committed since it read, what a request has read is still so.
Looked ==
    \A r \in alone : \A i \in DOMAIN job[r].after :
        /\ job[r].before[i] = db[i]
        /\ db[i] = NoRow => OneOf(job[r].api, job[r].after, i)

IInv == Typed /\ Numbered /\ Fitting /\ Spares /\ Looked

-----------------------------------------------------------------------------
(* Rows.                                                                    *)

\* No row has no foreign key.
LEMMA NoRowIs ==
    /\ NoRow.kind = None /\ NoRow.refs \in [Columns -> Ids \cup {None}]
    /\ \A c \in Columns : NoRow.refs[c] = None
BY DEF NoRow, NoRefs

\* The statuses of each table.
LEMMA StatusIs ==
    /\ \A kind \in {"supplier", "source", "entity", "category", "data_source", "billing", "bill"} :
          "" \in StatusesOf(kind)
    /\ StatusesOf("account") = {"legacy", "pending", "granted"}
    /\ StatusesOf("invite") = {"pending", "expired", "failed", "consumed"}
    /\ StatusesOf("project") = {"standby", "active"}
    /\ \A kind \in Kinds : StatusesOf(kind) \subseteq Statuses
    /\ Fits(NoRow)
<1>1. Fits(NoRow)
    <2>1. StatusesOf(None) = {""}
        BY DirectoryOK DEF StatusesOf, Kinds
    <2> QED BY <2>1 DEF Fits, NoRow
<1>2. \A kind \in Kinds : StatusesOf(kind) \subseteq Statuses
    BY DEF Statuses
<1>3. \A kind \in {"supplier", "source", "entity", "category", "data_source", "billing", "bill"} :
          "" \in StatusesOf(kind)
    BY DEF StatusesOf
<1>4. /\ StatusesOf("account") = {"legacy", "pending", "granted"}
      /\ StatusesOf("invite") = {"pending", "expired", "failed", "consumed"}
      /\ StatusesOf("project") = {"standby", "active"}
    BY DEF StatusesOf
<1> QED BY <1>1, <1>2, <1>3, <1>4

\* What the columns of a row hold.
LEMMA RowIs ==
    ASSUME NEW w \in Row
    PROVE  /\ w.kind \in Kinds /\ w.cloud \in Clouds \cup {None} /\ w.status \in Statuses
           /\ w.key \in Names \cup Tenants \cup Targets \cup {None} \cup {SharedName(i) : i \in Ids}
           /\ w.refs \in [Columns -> Ids \cup {None}]
           /\ w = [kind |-> w.kind, key |-> w.key, cloud |-> w.cloud, status |-> w.status, refs |-> w.refs]
           /\ w # NoRow /\ w.kind # None
<1>1. /\ w.kind \in Kinds /\ w.cloud \in Clouds \cup {None} /\ w.status \in Statuses
      /\ w.key \in Names \cup Tenants \cup Targets \cup {None} \cup {SharedName(i) : i \in Ids}
      /\ w.refs \in [Columns -> Ids \cup {None}]
    BY DEF Row
<1>2. w = [kind |-> w.kind, key |-> w.key, cloud |-> w.cloud, status |-> w.status, refs |-> w.refs]
    BY DEF Row
<1>3. w.kind # None
    BY <1>1, DirectoryOK
<1>4. w # NoRow
    BY <1>3, NoRowIs
<1> QED BY <1>1, <1>2, <1>3, <1>4

\* The foreign keys that new rows are given.
Given(refs) == \A c \in Columns : c \in DOMAIN refs => refs[c] \in Ids \cup {None}

\* No foreign key is given,
LEMMA GivenNone == Given(<<>>)
BY DEF Given

\* one is given,
LEMMA GivenOne ==
    ASSUME NEW a \in Ids \cup {None}
    PROVE  /\ Given([supplier |-> a]) /\ Given([source |-> a]) /\ Given([account |-> a])
           /\ Given([site |-> a]) /\ Given([category |-> a])
BY DEF Given

\* or more.
LEMMA GivenMore ==
    ASSUME NEW a \in Ids \cup {None}, NEW b \in Ids \cup {None}, NEW c \in Ids \cup {None}
    PROVE  /\ Given([account |-> a, category |-> b]) /\ Given([source |-> a, site |-> b])
           /\ Given([source |-> a, site |-> b, entity |-> c])
BY DEF Given

\* A row about to be inserted is a row of its table.
LEMMA NewRowTyped ==
    ASSUME NEW kind \in Kinds,
           NEW key \in Names \cup Tenants \cup Targets \cup {None} \cup {SharedName(i) : i \in Ids},
           NEW cloud \in Clouds \cup {None}, NEW status \in StatusesOf(kind), NEW refs, Given(refs)
    PROVE  NewRow(kind, key, cloud, status, refs) \in Row /\ Fits(NewRow(kind, key, cloud, status, refs))
<1> DEFINE all == [c \in Columns |-> IF c \in DOMAIN refs THEN refs[c] ELSE None]
<1>1. all \in [Columns -> Ids \cup {None}]
    BY DEF Given
<1>2. NewRow(kind, key, cloud, status, refs) = [kind |-> kind, key |-> key, cloud |-> cloud, status |-> status, refs |-> all]
    BY DEF NewRow
<1>3. status \in Statuses
    BY StatusIs
<1> HIDE DEF all
<1> QED BY <1>1, <1>2, <1>3 DEF Row, Fits

\* A row whose key, cloud, status or foreign keys are rewritten.
LEMMA RowWith ==
    ASSUME NEW w \in Row,
           NEW key \in Names \cup Tenants \cup Targets \cup {None} \cup {SharedName(i) : i \in Ids},
           NEW cloud \in Clouds \cup {None}, NEW status \in Statuses,
           NEW refs \in [Columns -> Ids \cup {None}]
    PROVE  [kind |-> w.kind, key |-> key, cloud |-> cloud, status |-> status, refs |-> refs] \in Row
BY RowIs DEF Row

\* A kind that is one of the tables is that of a row.
LEMMA RowThere ==
    ASSUME Typed, NEW i \in Ids, db[i].kind \in Kinds
    PROVE  db[i] \in Row
<1>1. db[i] \in Row \cup {NoRow}
    BY DEF Typed
<1>2. db[i].kind # None
    BY DirectoryOK
<1> QED BY <1>1, <1>2, NoRowIs

\* A foreign key points into its table.
LEMMA RefIs ==
    ASSUME Typed, NEW i \in Ids, NEW c \in Columns, db[i].refs[c] # None
    PROVE  db[i].refs[c] \in Ids /\ db[db[i].refs[c]].kind = TableOf[c]
<1>1. db[i].refs \in [Columns -> Ids \cup {None}]
    BY RowIs, NoRowIs DEF Typed
<1>2. db[db[i].refs[c]].kind = TableOf[c]
    BY DEF Typed, Sound
<1> QED BY <1>1, <1>2

-----------------------------------------------------------------------------
(* What goes with a row.                                                    *)

\* Cascades take sources with their supplier and entities with their source.
LEMMA BelowIs ==
    ASSUME NEW S, NEW i \in Below(db, S)
    PROVE  /\ i \in Ids
           /\ \/ db[i].kind = "source" /\ db[i].refs["supplier"] \in S
              \/ db[i].kind = "entity" /\ db[i].refs["source"] \in S
BY DEF Below, Cascades

\* What goes is what is deleted, a source, or an entity.
LEMMA DoomedIs ==
    ASSUME NEW S, NEW i \in Doomed(db, S)
    PROVE  \/ i \in S
           \/ db[i].kind = "source" /\ db[i].refs["supplier"] \in S \cup Below(db, S)
           \/ db[i].kind = "entity" /\ db[i].refs["source"] \in S \cup Below(db, S)
<1>1. i \in S \/ i \in Below(db, S) \/ i \in Below(db, S \cup Below(db, S))
    BY DEF Doomed
<1> QED BY <1>1, BelowIs

\* What is kept goes with nothing, and only three foreign keys can be set to NULL.
LEMMA CutsOnly ==
    ASSUME Typed, NEW S \in SUBSET Ids,
           NEW i \in Ids \ S, db[i].kind \in Kept,
           ASSUME NEW c \in {"entity", "site", "category"}, db[i].refs[c] \in Doomed(db, S),
                  db[db[i].refs[c]].kind = TableOf[c], <<db[i].kind, c>> \in SetsNull
           PROVE  FALSE
    PROVE  /\ i \notin Doomed(db, S)
           /\ \A c \in Columns : <<db[i].kind, c>> \in SetsNull => db[i].refs[c] \notin Doomed(db, S)
<1>1. i \notin Doomed(db, S)
    BY DoomedIs DEF Kept
<1>2. ASSUME NEW c \in Columns, <<db[i].kind, c>> \in SetsNull, db[i].refs[c] \in Doomed(db, S)
      PROVE  FALSE
    <2>1. c \in {"entity", "site", "category"}
        BY <1>2 DEF SetsNull
    <2>2. Doomed(db, S) \subseteq Ids
        BY DEF Doomed, Below
    <2>3. db[i].refs[c] # None
        BY <1>2, <2>2, DirectoryOK
    <2>4. db[db[i].refs[c]].kind = TableOf[c]
        BY <2>3, RefIs
    <2> QED BY <1>2, <2>1, <2>4
<1> QED BY <1>1, <1>2

\* An entity goes with its source or with that one's supplier.
LEMMA EntityGoes ==
    ASSUME Typed, NEW S \in SUBSET Ids, NEW e \in Doomed(db, S) \ S, db[e].kind = "entity"
    PROVE  LET ss == db[e].refs["source"] IN
           ss \in Ids /\ db[ss].kind = "source" /\ (ss \in S \/ db[ss].refs["supplier"] \in S)
<1> DEFINE ss == db[e].refs["source"]
<1>1. ss \in S \cup Below(db, S)
    BY DoomedIs
<1>2. ss \in Ids /\ ss # None
    BY <1>1, DirectoryOK DEF Below
<1>3. e \in Ids
    BY DEF Doomed, Below
<1>4. db[ss].kind = "source"
    BY <1>2, <1>3, RefIs DEF Columns, TableOf
<1>5. CASE ss \in Below(db, S)
    BY <1>2, <1>4, <1>5, BelowIs
<1> QED BY <1>1, <1>2, <1>4, <1>5

\* Nothing goes with rows that are neither suppliers nor sources.
LEMMA LeavesOnly ==
    ASSUME Typed, NEW S \in SUBSET Ids, \A i \in S : db[i].kind \notin {"supplier", "source"}
    PROVE  Doomed(db, S) \subseteq S
<1> SUFFICES ASSUME NEW i \in Doomed(db, S), i \notin S PROVE FALSE
    OBVIOUS
<1>1. Below(db, S) = {}
    <2> SUFFICES ASSUME NEW j \in Below(db, S) PROVE FALSE
        OBVIOUS
    <2>1. CASE db[j].kind = "source" /\ db[j].refs["supplier"] \in S
        <3>1. db[j].refs["supplier"] # None /\ j \in Ids
            BY <2>1, BelowIs, DirectoryOK
        <3>2. db[db[j].refs["supplier"]].kind = "supplier"
            BY <3>1, RefIs DEF Columns, TableOf
        <3> QED BY <2>1, <3>2
    <2>2. CASE db[j].kind = "entity" /\ db[j].refs["source"] \in S
        <3>1. db[j].refs["source"] # None /\ j \in Ids
            BY <2>2, BelowIs, DirectoryOK
        <3>2. db[db[j].refs["source"]].kind = "source"
            BY <3>1, RefIs DEF Columns, TableOf
        <3> QED BY <2>2, <3>2
    <2> QED BY <2>1, <2>2, BelowIs
<1>2. S \cup Below(db, S) = S
    BY <1>1
<1> QED BY <1>1, <1>2 DEF Doomed

\* delete_supplier: its sources have no accounts.
LEMMA SupplierGoes ==
    ASSUME Typed, NEW s \in Ids, db[s].kind = "supplier",
           \A ss \in SourcesOf(s) : Pointing("project", "source", ss) = {}
    PROVE  Harmless(db, {s})
<1> SUFFICES ASSUME NEW i \in Ids \ {s}, db[i].kind \in Kept, HomedIn(db, i)
             PROVE  /\ i \notin Doomed(db, {s})
                    /\ \A c \in Columns : <<db[i].kind, c>> \in SetsNull => db[i].refs[c] \notin Doomed(db, {s})
    BY DEF Harmless
<1>1. ASSUME NEW c \in {"entity", "site", "category"}, db[i].refs[c] \in Doomed(db, {s}),
             db[db[i].refs[c]].kind = TableOf[c], <<db[i].kind, c>> \in SetsNull
      PROVE  FALSE
    <2> DEFINE e == db[i].refs[c]
    <2>1. TableOf[c] \in {"entity", "data_source", "category"}
        BY DEF TableOf
    <2>2. e # s /\ e \in Doomed(db, {s}) /\ db[e].kind = TableOf[c]
        BY <1>1, <2>1
    <2>3. db[e].kind = "entity"
        BY <2>1, <2>2, DoomedIs
    <2>4. c = "entity" /\ db[i].kind = "project"
        BY <1>1, <2>2, <2>3 DEF TableOf, SetsNull
    <2> DEFINE ss == db[e].refs["source"]
    <2>5. ss \in Ids /\ db[ss].kind = "source" /\ (ss = s \/ db[ss].refs["supplier"] = s)
        BY <2>2, <2>3, EntityGoes
    <2>6. ss \in SourcesOf(s)
        BY <2>5 DEF SourcesOf, Pointing, Of
    <2>7. e # None
        BY <2>2, DirectoryOK DEF Doomed, Below
    <2>8. db[i].refs["source"] = ss
        BY <2>4, <2>7 DEF HomedIn
    <2>9. i \in Pointing("project", "source", ss)
        BY <2>4, <2>8 DEF Pointing, Of
    <2> QED BY <2>6, <2>9
<1> QED BY <1>1, CutsOnly

\* delete_supply_source: it has no accounts.
LEMMA SourceGoes ==
    ASSUME Typed, NEW s \in Ids, db[s].kind = "source", Pointing("project", "source", s) = {}
    PROVE  Harmless(db, {s})
<1> SUFFICES ASSUME NEW i \in Ids \ {s}, db[i].kind \in Kept, HomedIn(db, i)
             PROVE  /\ i \notin Doomed(db, {s})
                    /\ \A c \in Columns : <<db[i].kind, c>> \in SetsNull => db[i].refs[c] \notin Doomed(db, {s})
    BY DEF Harmless
<1>1. ASSUME NEW c \in {"entity", "site", "category"}, db[i].refs[c] \in Doomed(db, {s}),
             db[db[i].refs[c]].kind = TableOf[c], <<db[i].kind, c>> \in SetsNull
      PROVE  FALSE
    <2> DEFINE e == db[i].refs[c]
    <2>1. TableOf[c] \in {"entity", "data_source", "category"}
        BY DEF TableOf
    <2>2. e # s /\ e \in Doomed(db, {s}) /\ db[e].kind = TableOf[c]
        BY <1>1, <2>1
    <2>3. db[e].kind = "entity"
        BY <2>1, <2>2, DoomedIs
    <2>4. c = "entity" /\ db[i].kind = "project"
        BY <1>1, <2>2, <2>3 DEF TableOf, SetsNull
    <2> DEFINE ss == db[e].refs["source"]
    <2>5. ss \in Ids /\ db[ss].kind = "source" /\ (ss = s \/ db[ss].refs["supplier"] = s)
        BY <2>2, <2>3, EntityGoes
    <2>6. ss = s
        <3> SUFFICES ASSUME db[ss].refs["supplier"] = s PROVE FALSE
            BY <2>5
        <3>1. db[ss].refs["supplier"] # None
            BY DirectoryOK
        <3>2. db[s].kind = "supplier"
            BY <2>5, <3>1, RefIs DEF Columns, TableOf
        <3> QED BY <3>2
    <2>7. e # None
        BY <2>2, DirectoryOK DEF Doomed, Below
    <2>8. db[i].refs["source"] = s
        BY <2>4, <2>6, <2>7 DEF HomedIn
    <2>9. i \in Pointing("project", "source", s)
        BY <2>4, <2>8 DEF Pointing, Of
    <2> QED BY <2>9
<1> QED BY <1>1, CutsOnly

\* The other deletions: rows with nothing below them, that no foreign key set to NULL points at.
LEMMA LeafGoes ==
    ASSUME Typed, NEW S \in SUBSET Ids, \A i \in S : db[i].kind \notin {"supplier", "source"},
           \A i \in S : /\ db[i].kind = "entity" => Pointing("project", "entity", i) = {}
                        /\ db[i].kind = "data_source" => Pointing("project", "site", i) = {}
                        /\ db[i].kind = "category" => /\ Pointing("project", "category", i) = {}
                                                      /\ Pointing("data_source", "category", i) = {}
    PROVE  Harmless(db, S)
<1> SUFFICES ASSUME NEW i \in Ids \ S, db[i].kind \in Kept, HomedIn(db, i)
             PROVE  /\ i \notin Doomed(db, S)
                    /\ \A c \in Columns : <<db[i].kind, c>> \in SetsNull => db[i].refs[c] \notin Doomed(db, S)
    BY DEF Harmless
<1>1. ASSUME NEW c \in {"entity", "site", "category"}, db[i].refs[c] \in Doomed(db, S),
             db[db[i].refs[c]].kind = TableOf[c], <<db[i].kind, c>> \in SetsNull
      PROVE  FALSE
    <2> DEFINE e == db[i].refs[c]
    <2>1. e \in S /\ db[e].kind = TableOf[c]
        BY <1>1, LeavesOnly
    <2>2. i \in Pointing(db[i].kind, c, e)
        BY DEF Pointing, Of
    <2>3. CASE c = "entity"
        BY <1>1, <2>1, <2>2, <2>3 DEF TableOf, SetsNull
    <2>4. CASE c = "site"
        BY <1>1, <2>1, <2>2, <2>4 DEF TableOf, SetsNull
    <2>5. CASE c = "category"
        BY <1>1, <2>1, <2>2, <2>5 DEF TableOf, SetsNull
    <2> QED BY <2>3, <2>4, <2>5
<1> QED BY <1>1, CutsOnly

-----------------------------------------------------------------------------
(* The steps.                                                               *)

\* To begin with nobody has read anything.
LEMMA InitIInv == Init => IInv
<1> SUFFICES ASSUME Init PROVE IInv
    OBVIOUS
<1>1. /\ db \in [Ids -> Row \cup {NoRow}] /\ Sound(db) /\ \A i \in Ids : Fits(db[i])
      /\ \E n \in 0 .. MaxId : {i \in Ids : Exists(db, i)} = 1 .. n
    BY DirectoryOK DEF Init
<1>2. DOMAIN Empty = {} /\ Empty \in [{} -> Row] /\ Empty \in [{} -> Row \cup {NoRow}]
    BY DEF Empty
<1>3. Pending(Idle) /\ DOMAIN Idle.after = {} /\ Vain(Idle) = {}
    BY <1>2 DEF Pending, Idle, Vain
<1>4. drawn \in 0 .. MaxId /\ {i \in Ids : Exists(db, i)} = 1 .. drawn
    <2>1. PICK n \in 0 .. MaxId : {i \in Ids : Exists(db, i)} = 1 .. n
        BY <1>1
    <2>2. n \in Nat
        BY DirectoryOK
    <2>3. Cardinality(1 .. n) = n
        BY <2>2, FS_Interval
    <2> QED BY <2>1, <2>3 DEF Init
<1>5. job = [r \in Requests |-> Idle] /\ alone = {} /\ left = MaxCommits /\ MaxCommits \in Nat
    BY DirectoryOK DEF Init
<1>6. Typed
    BY <1>1, <1>3, <1>4, <1>5 DEF Typed
<1>7. Numbered
    <2>1. \A i \in Ids : db[i] # NoRow => i <= drawn
        BY <1>4 DEF Exists
    <2>2. 1 .. 0 = {} /\ 0 \in 0 .. MaxId
        BY DirectoryOK
    <2>3. \E m, n \in 0 .. MaxId : {} = m+1 .. n
        BY <2>2
    <2> QED BY <1>3, <1>5, <2>1, <2>3 DEF Numbered
<1>8. Fitting
    BY <1>1, <1>3, <1>5 DEF Fitting
<1> QED BY <1>5, <1>6, <1>7, <1>8 DEF IInv, Spares, Looked

\* Two sets of rows to be written, put together.
LEMMA RowsTogether ==
    ASSUME NEW f, NEW g, f \in [DOMAIN f -> Row], g \in [DOMAIN g -> Row]
    PROVE  /\ DOMAIN Beside(f, g) = DOMAIN f \cup DOMAIN g
           /\ Beside(f, g) \in [DOMAIN Beside(f, g) -> Row]
BY DEF Beside

\* A row by itself.
LEMMA RowAt ==
    ASSUME NEW i, NEW row \in Row
    PROVE  DOMAIN Lone(i, row) = {i} /\ Lone(i, row) \in [DOMAIN Lone(i, row) -> Row]
BY DEF Lone

\* The rows of after that are new.
New(after) == {i \in DOMAIN after : db[i] = NoRow}

\* What a request may be about to write: rows of their tables, the new ones under the next ids.
Proper(api, after) ==
    /\ after \in [DOMAIN after -> Row]
    /\ \E n \in Nat : New(after) = drawn+1 .. drawn+n
    /\ \A i \in DOMAIN after :
          /\ Fits(after[i])
          /\ db[i] # NoRow => after[i].kind = db[i].kind
          /\ db[i] = NoRow => OneOf(api, after, i)

\* While the tables are the same, so is what was looked for.
LEMMA OneOfStays ==
    ASSUME db' = db, NEW api, NEW after, NEW i, OneOf(api, after, i)
    PROVE  OneOf(api, after, i)'
BY DEF OneOf, Twinless, Billed, Named, Pointing, Of, Multi, Ids

\* A request reads: what it is to write is proper, what it is to delete may be deleted.
LEMMA ReadKeeps ==
    ASSUME IInv, NEW r \in Requests, NEW api, NEW after, NEW gone, Read(r, api, after, gone),
           Proper(api, after), gone \subseteq Ids,
           gone # {} => DOMAIN after = {} /\ Harmless(db, gone)
    PROVE  IInv'
<1>1. /\ DOMAIN after \subseteq Ids /\ db' = db /\ left' = left /\ alone' = alone \cup {r}
      /\ drawn' = drawn + Cardinality(DOMAIN after \ {i \in Ids : i <= drawn})
      /\ job' = [job EXCEPT ![r] = [api |-> api, after |-> after, gone |-> gone,
                                    before |-> [i \in DOMAIN after |-> db[i]]]]
    BY DEF Read
<1> DEFINE new == [api |-> api, after |-> after, gone |-> gone, before |-> [i \in DOMAIN after |-> db[i]]]
<1>2. /\ [i \in DOMAIN after |-> db[i]] \in [DOMAIN after -> Row \cup {NoRow}]
      /\ after \in [DOMAIN after -> Row]
    BY <1>1 DEF IInv, Typed, Proper
<1>3. Pending(new)
    BY <1>1, <1>2 DEF Pending
<1>4. DOMAIN job' = Requests /\ job'[r] = new /\ \A q \in Requests \ {r} : job'[q] = job[q]
    BY <1>1 DEF IInv, Typed
<1>5. new.gone = gone /\ new.api = api /\ new.after = after /\ \A i \in DOMAIN after : new.before[i] = db[i]
    OBVIOUS
<1> HIDE DEF new
<1>6. Vain(new) = New(after)
    BY <1>5 DEF Vain, New
<1>7. PICK n \in Nat : New(after) = drawn+1 .. drawn+n
    BY DEF Proper
<1>8. drawn \in Int /\ 0 <= drawn /\ drawn <= MaxId /\ MaxId \in Nat
    BY DirectoryOK DEF IInv, Typed
<1>9. DOMAIN after \ {i \in Ids : i <= drawn} = drawn+1 .. drawn+n
    BY <1>1, <1>7, <1>8 DEF New, IInv, Numbered, Ids
<1>10. drawn' = drawn + n
    <2>1. Cardinality(drawn+1 .. drawn+n) = n
        <3>1. Cardinality(drawn+1 .. drawn+n) = IF drawn+1 > drawn+n THEN 0 ELSE drawn+n - (drawn+1) + 1
            BY <1>7, <1>8, FS_Interval
        <3> QED BY <1>7, <1>8, <3>1
    <2> QED BY <1>1, <1>9, <2>1
<1>11. drawn + n <= MaxId
    <2>1. n > 0 => drawn + n \in Ids
        BY <1>1, <1>7, <1>8 DEF New
    <2> QED BY <1>7, <1>8, <2>1 DEF Ids
<1>12. Typed'
    <2>1. drawn' \in 0 .. MaxId
        BY <1>7, <1>8, <1>10, <1>11
    <2> QED BY <1>1, <1>3, <1>4, <2>1 DEF IInv, Typed, Ids
<1>13. Numbered'
    <2>1. \A i \in Ids : db'[i] # NoRow => i <= drawn'
        BY <1>1, <1>7, <1>8, <1>10 DEF IInv, Numbered, Ids
    <2>2. \A q \in Requests : \A i \in DOMAIN job'[q].after : i <= drawn'
        <3>1. ASSUME NEW i \in DOMAIN after PROVE i <= drawn'
            <4>1. i \in Int
                BY <1>1 DEF Ids
            <4>2. CASE db[i] # NoRow
                BY <1>1, <1>7, <1>8, <1>10, <4>1, <4>2 DEF IInv, Numbered
            <4>3. CASE db[i] = NoRow
                BY <1>7, <1>8, <1>10, <4>1, <4>3 DEF New
            <4> QED BY <4>2, <4>3
        <3>2. ASSUME NEW q \in Requests \ {r}, NEW i \in DOMAIN job[q].after PROVE i <= drawn'
            <4>1. i \in Int /\ i <= drawn
                BY DEF IInv, Numbered, Typed, Pending, Ids
            <4> QED BY <1>7, <1>8, <1>10, <4>1
        <3> QED BY <1>4, <1>5, <3>1, <3>2
    <2>3. \A q \in Requests : \E m, k \in 0 .. MaxId : Vain(job'[q]) = m+1 .. k
        <3>1. drawn \in 0 .. MaxId /\ drawn + n \in 0 .. MaxId
            BY <1>7, <1>8, <1>11
        <3>2. \E m, k \in 0 .. MaxId : Vain(new) = m+1 .. k
            BY <1>6, <1>7, <3>1
        <3> QED BY <1>4, <3>2 DEF IInv, Numbered
    <2>4. ASSUME NEW q \in Requests, NEW i \in Vain(job'[q])
          PROVE  db'[i] = NoRow /\ \A p \in Requests \ {q} : i \notin DOMAIN job'[p].after
        <3>1. CASE q = r
            <4>1. i \in New(after) /\ i > drawn /\ i \in Int
                BY <1>4, <1>6, <1>7, <1>8, <3>1
            <4>2. \A p \in Requests \ {r} : \A k \in DOMAIN job[p].after : k <= drawn /\ k \in Int
                BY DEF IInv, Numbered, Typed, Pending, Ids
            <4> QED BY <1>1, <1>4, <1>8, <3>1, <4>1, <4>2 DEF New
        <3>2. CASE q # r
            <4>1. i \in Vain(job[q]) /\ db[i] = NoRow /\ i \in DOMAIN job[q].after
                BY <1>4, <3>2 DEF IInv, Numbered, Vain
            <4>2. i <= drawn /\ i \in Int
                BY <4>1 DEF IInv, Numbered, Typed, Pending, Ids
            <4>3. i \notin DOMAIN after
                BY <1>7, <1>8, <4>1, <4>2 DEF New
            <4> QED BY <1>1, <1>4, <1>5, <3>2, <4>1, <4>3 DEF IInv, Numbered
        <3> QED BY <3>1, <3>2
    <2> QED BY <2>1, <2>2, <2>3, <2>4 DEF Numbered, Ids
<1>14. Fitting'
    <2>1. \A i \in Ids : Fits(db'[i])
        BY <1>1 DEF IInv, Fitting
    <2>2. ASSUME NEW i \in DOMAIN after
          PROVE  /\ Fits(after[i])
                 /\ new.before[i] # NoRow => /\ after[i].kind = new.before[i].kind
                                             /\ db[i] # NoRow => db[i].kind = new.before[i].kind
        BY <1>5 DEF Proper
    <2> QED BY <1>1, <1>4, <1>5, <2>1, <2>2 DEF IInv, Fitting, Ids
<1>15. Spares'
    <2> SUFFICES ASSUME NEW q \in alone', job'[q].gone # {} PROVE Harmless(db', job'[q].gone)
        BY DEF Spares
    <2>1. CASE q = r
        BY <1>1, <1>4, <1>5, <2>1
    <2>2. CASE q # r
        BY <1>1, <1>4, <2>2 DEF IInv, Typed, Spares
    <2> QED BY <2>1, <2>2
<1>16. Looked'
    <2> SUFFICES ASSUME NEW q \in alone', NEW i \in DOMAIN job'[q].after
                 PROVE  /\ job'[q].before[i] = db'[i]
                        /\ db'[i] = NoRow => OneOf(job[q].api, job[q].after, i)' \/ q = r
                        /\ q = r /\ db'[i] = NoRow => OneOf(api, after, i)'
        BY <1>1, <1>4, <1>5 DEF Looked
    <2> QED BY <1>1, <1>4, <1>5, OneOfStays DEF IInv, Looked, Proper
<1> QED BY <1>12, <1>13, <1>14, <1>15, <1>16 DEF IInv

\* Whether a request looks for anything before it inserts.
Looking == {"create_supplier", "discover", "create_gcp_view", "callback", "verify",
            "taiji_from_blob", "taiji_ingest_day"}

\* Most look for nothing.
LEMMA NothingLooked ==
    ASSUME NEW api, api \notin Looking, NEW after, NEW i
    PROVE  OneOf(api, after, i)
BY DEF OneOf, Looking

\* A request that inserts a row,
LEMMA InsertKeeps ==
    ASSUME IInv, NEW r \in Requests, NEW api, NEW row \in Row, Insert(r, api, row), Fits(row),
           api \notin Looking \/ OneOf(api, Lone(Fresh(1), row), Fresh(1))
    PROVE  IInv'
<1> DEFINE after == Lone(Fresh(1), row)
<1>1. after \in [DOMAIN after -> Row] /\ DOMAIN after = {Fresh(1)}
    BY RowAt
<1>2. Read(r, api, after, {})
    BY DEF Insert
<1>3. after[Fresh(1)] = row
    BY DEF Lone
<1>4. Fresh(1) = drawn + 1 /\ drawn \in Int
    BY DEF Fresh, IInv, Typed
<1>5. db[Fresh(1)] = NoRow
    <2>1. Fresh(1) \in Ids
        BY <1>1, <1>2 DEF Read
    <2> QED BY <1>4, <2>1 DEF IInv, Numbered
<1>6. OneOf(api, after, Fresh(1))
    BY NothingLooked
<1> HIDE DEF after
<1>7. New(after) = drawn+1 .. drawn+1
    BY <1>1, <1>4, <1>5 DEF New
<1>8. Proper(api, after)
    BY <1>1, <1>3, <1>5, <1>6, <1>7 DEF Proper
<1> QED BY <1>2, <1>8, ReadKeeps

\* one that rewrites a row,
LEMMA RewriteKeeps ==
    ASSUME IInv, NEW r \in Requests, NEW api, NEW i, NEW row \in Row, Rewrite(r, api, i, row),
           db[i] \in Row, row.kind = db[i].kind, Fits(row) \/ row.status = db[i].status
    PROVE  IInv'
<1> DEFINE after == Lone(i, row)
<1>1. after \in [DOMAIN after -> Row] /\ DOMAIN after = {i}
    BY RowAt
<1>2. Read(r, api, after, {})
    BY DEF Rewrite
<1>3. after[i] = row
    BY DEF Lone
<1>4. i \in Ids
    BY <1>1, <1>2 DEF Read
<1>5. Fits(row)
    BY <1>4 DEF IInv, Fitting, Fits
<1>6. db[i] # NoRow
    BY RowIs
<1> HIDE DEF after
<1>7. New(after) = {} /\ drawn+1 .. drawn+0 = {}
    BY <1>1, <1>6 DEF New, IInv, Typed
<1>8. Proper(api, after)
    BY <1>1, <1>3, <1>5, <1>6, <1>7 DEF Proper
<1> QED BY <1>2, <1>8, ReadKeeps

\* and one that deletes what it may.
LEMMA RemoveKeeps ==
    ASSUME IInv, NEW r \in Requests, NEW api, NEW S \in SUBSET Ids, Harmless(db, S), Remove(r, api, S)
    PROVE  IInv'
<1>1. Empty \in [DOMAIN Empty -> Row] /\ DOMAIN Empty = {} /\ Read(r, api, Empty, S)
    BY DEF Remove, Empty
<1>2. New(Empty) = {} /\ drawn+1 .. drawn+0 = {}
    BY <1>1 DEF New, IInv, Typed
<1>3. Proper(api, Empty)
    BY <1>1, <1>2 DEF Proper
<1> QED BY <1>1, <1>3, ReadKeeps

\* What a commit writes into a row is a row of its table.
LEMMA WrittenIs ==
    ASSUME NEW now \in Row \cup {NoRow}, NEW before \in Row \cup {NoRow}, NEW after \in Row,
           before # NoRow => now # NoRow
    PROVE  /\ Written(now, before, after) \in Row
           /\ before = NoRow => Written(now, before, after) = after
           /\ before # NoRow => /\ Written(now, before, after).kind = now.kind
                                /\ Written(now, before, after).status \in {now.status, after.status}
           /\ before = now /\ before.kind = after.kind => Written(now, before, after) = after
<1>1. CASE before = NoRow
    BY <1>1, RowIs, NoRowIs DEF Written
<1>2. CASE before # NoRow
    <2>1. now \in Row /\ before \in Row
        BY <1>2
    <2> DEFINE key == IF before.key = after.key THEN now.key ELSE after.key
               cloud == IF before.cloud = after.cloud THEN now.cloud ELSE after.cloud
               status == IF before.status = after.status THEN now.status ELSE after.status
               refs == [c \in Columns |-> IF before.refs[c] = after.refs[c] THEN now.refs[c] ELSE after.refs[c]]
    <2>2. Written(now, before, after) = [now EXCEPT !.key = key, !.cloud = cloud, !.status = status, !.refs = refs]
        BY <1>2 DEF Written
    <2>3. Written(now, before, after) = [kind |-> now.kind, key |-> key, cloud |-> cloud, status |-> status, refs |-> refs]
        BY <2>1, <2>2 DEF Row
    <2>4. /\ key \in Names \cup Tenants \cup Targets \cup {None} \cup {SharedName(i) : i \in Ids}
          /\ cloud \in Clouds \cup {None} /\ status \in Statuses
          /\ refs \in [Columns -> Ids \cup {None}]
        BY <2>1, RowIs
    <2>5. status \in {now.status, after.status}
        OBVIOUS
    <2>6. before = now => key = after.key /\ cloud = after.cloud /\ status = after.status
        OBVIOUS
    <2>7. before = now => refs = after.refs
        <3>1. after.refs \in [Columns -> Ids \cup {None}]
            BY RowIs
        <3> QED BY <3>1
    <2> HIDE DEF key, cloud, status, refs
    <2>8. Written(now, before, after) \in Row
        BY <2>1, <2>3, <2>4, RowWith
    <2>9. ASSUME before = now, before.kind = after.kind PROVE Written(now, before, after) = after
        BY <2>3, <2>6, <2>7, <2>9, RowIs
    <2>10. Written(now, before, after).kind = now.kind /\ Written(now, before, after).status = status
        BY <2>3
    <2> QED BY <1>2, <2>5, <2>8, <2>9, <2>10
<1> QED BY <1>1, <1>2

\* A row that is not deleted keeps its columns, but for foreign keys that become NULL.
LEMMA DeletedIs ==
    ASSUME NEW d \in [Ids -> Row \cup {NoRow}], NEW S, NEW i \in Ids
    PROVE  /\ Deleted(d, S)[i] \in Row \cup {NoRow}
           /\ i \notin S /\ (\A c \in Columns : <<d[i].kind, c>> \in SetsNull => d[i].refs[c] \notin S)
                => Deleted(d, S)[i] = d[i]
           /\ \/ Deleted(d, S)[i] = NoRow
              \/ /\ d[i] # NoRow
                 /\ Deleted(d, S)[i].kind = d[i].kind /\ Deleted(d, S)[i].status = d[i].status
<1> DEFINE refs == [c \in Columns |-> IF d[i].refs[c] \in S /\ <<d[i].kind, c>> \in SetsNull
                                        THEN None ELSE d[i].refs[c]]
<1>1. Deleted(d, S)[i] = IF i \in S THEN NoRow ELSE [d[i] EXCEPT !.refs = refs]
    BY DEF Deleted
<1>2. d[i].refs \in [Columns -> Ids \cup {None}]
    BY RowIs, NoRowIs
<1>3. refs \in [Columns -> Ids \cup {None}]
    BY <1>2
<1>4. (\A c \in Columns : <<d[i].kind, c>> \in SetsNull => d[i].refs[c] \notin S) => refs = d[i].refs
    BY <1>2
<1>5. d[i] = NoRow => refs = d[i].refs
    BY <1>2, NoRowIs
<1> HIDE DEF refs
<1>6. CASE d[i] \in Row
    <2>1. [d[i] EXCEPT !.refs = refs]
            = [kind |-> d[i].kind, key |-> d[i].key, cloud |-> d[i].cloud, status |-> d[i].status, refs |-> refs]
        BY <1>6, RowIs
    <2>2. [d[i] EXCEPT !.refs = refs] \in Row
        <3>1. /\ d[i].key \in Names \cup Tenants \cup Targets \cup {None} \cup {SharedName(j) : j \in Ids}
              /\ d[i].cloud \in Clouds \cup {None} /\ d[i].status \in Statuses
            BY <1>6, RowIs
        <3>2. [kind |-> d[i].kind, key |-> d[i].key, cloud |-> d[i].cloud, status |-> d[i].status, refs |-> refs] \in Row
            BY <1>3, <1>6, <3>1, RowWith
        <3> QED BY <2>1, <3>2
    <2>3. d[i] # NoRow
        BY <1>6, RowIs
    <2>4. [d[i] EXCEPT !.refs = refs].kind = d[i].kind /\ [d[i] EXCEPT !.refs = refs].status = d[i].status
        BY <2>1
    <2>5. Deleted(d, S)[i] \in Row \cup {NoRow}
        BY <1>1, <2>2
    <2>6. i \notin S /\ refs = d[i].refs => Deleted(d, S)[i] = d[i]
        BY <1>1, <1>6, <2>1, RowIs
    <2> QED BY <1>1, <1>4, <2>3, <2>4, <2>5, <2>6
<1>7. CASE d[i] = NoRow
    <2>1. [d[i] EXCEPT !.refs = refs] = NoRow
        BY <1>5, <1>7 DEF NoRow
    <2> QED BY <1>1, <1>7, <2>1
<1> QED BY <1>6, <1>7

\* The tables that a commit starts from: those there are, with the rows of the request.
Merged(r) ==
    [i \in Ids |-> IF i \in DOMAIN job[r].after /\ ~Conflicting(job[r].after[i])
                     THEN Written(db[i], job[r].before[i], job[r].after[i]) ELSE db[i]]

\* They are tables again, and only rows of the request are new in them.
LEMMA MergedIs ==
    ASSUME IInv, NEW r \in Requests, Finds(job[r]), NEW i \in Ids
    PROVE  /\ Merged(r)[i] \in Row \cup {NoRow} /\ Fits(Merged(r)[i])
           /\ Merged(r)[i] # NoRow => db[i] # NoRow \/ i \in Vain(job[r])
           /\ db[i] # NoRow => Merged(r)[i].kind = db[i].kind
<1>1. db[i] \in Row \cup {NoRow} /\ Fits(db[i])
    BY DEF IInv, Typed, Fitting
<1>2. CASE i \in DOMAIN job[r].after /\ ~Conflicting(job[r].after[i])
    <2> DEFINE before == job[r].before[i]
               after == job[r].after[i]
    <2>1. before \in Row \cup {NoRow} /\ after \in Row /\ Fits(after)
        BY <1>2 DEF IInv, Typed, Pending, Fitting
    <2>2. before # NoRow => db[i] # NoRow
        BY <1>2 DEF Finds, Exists
    <2>3. before # NoRow => after.kind = before.kind /\ db[i].kind = before.kind
        BY <1>2, <2>2 DEF IInv, Fitting
    <2>4. before = NoRow => i \in Vain(job[r]) /\ db[i] = NoRow
        BY <1>2 DEF Vain, IInv, Numbered
    <2>5. Merged(r)[i] = Written(db[i], before, after)
        BY <1>2 DEF Merged
    <2> HIDE DEF before, after
    <2>6. CASE before = NoRow
        BY <2>1, <2>2, <2>4, <2>5, <2>6, WrittenIs
    <2>7. CASE before # NoRow
        <3>1. /\ Merged(r)[i] \in Row /\ Merged(r)[i].kind = db[i].kind
              /\ Merged(r)[i].status \in {db[i].status, after.status}
            BY <1>1, <2>1, <2>2, <2>5, <2>7, WrittenIs
        <3>2. Fits(Merged(r)[i])
            BY <1>1, <2>1, <2>3, <2>7, <3>1 DEF Fits
        <3> QED BY <2>2, <2>7, <3>1, <3>2
    <2> QED BY <2>6, <2>7
<1>3. CASE ~(i \in DOMAIN job[r].after /\ ~Conflicting(job[r].after[i]))
    BY <1>1, <1>3 DEF Merged
<1> QED BY <1>2, <1>3

\* What a commit does,
LEMMA CommitIs ==
    ASSUME NEW r \in Requests, Commit(r)
    PROVE  /\ db' = Deleted(Merged(r), Doomed(Merged(r), job[r].gone)) /\ Sound(db')
           /\ job' = [job EXCEPT ![r] = Idle] /\ alone' = {}
           /\ left > 0 /\ left' = left - 1 /\ drawn' = drawn /\ Finds(job[r])
BY DEF Commit, Merged

\* and what it leaves.
LEMMA CommittedIs ==
    ASSUME IInv, NEW r \in Requests, Commit(r)
    PROVE  /\ db' \in [Ids -> Row \cup {NoRow}]
           /\ \A i \in Ids :
                /\ Fits(db'[i])
                /\ db'[i] # NoRow => db[i] # NoRow \/ i \in Vain(job[r])
                /\ db[i] # NoRow /\ db'[i] # NoRow => db'[i].kind = db[i].kind
<1> DEFINE gone == Doomed(Merged(r), job[r].gone)
<1>1. db' = Deleted(Merged(r), gone) /\ Finds(job[r])
    BY CommitIs
<1>2. Merged(r) \in [Ids -> Row \cup {NoRow}]
    <2>1. \A i \in Ids : Merged(r)[i] \in Row \cup {NoRow}
        BY <1>1, MergedIs
    <2>2. DOMAIN Merged(r) = Ids /\ Merged(r) = [i \in Ids |-> Merged(r)[i]]
        BY DEF Merged
    <2> QED BY <2>1, <2>2
<1> HIDE DEF gone
<1>3. DOMAIN db' = Ids /\ db' = [i \in Ids |-> db'[i]]
    BY <1>1 DEF Deleted
<1>4. \A i \in Ids : db'[i] \in Row \cup {NoRow}
    BY <1>1, <1>2, DeletedIs
<1>5. ASSUME NEW i \in Ids
      PROVE  /\ Fits(db'[i])
             /\ db'[i] # NoRow => db[i] # NoRow \/ i \in Vain(job[r])
             /\ db[i] # NoRow /\ db'[i] # NoRow => db'[i].kind = db[i].kind
    <2>1. \/ db'[i] = NoRow
          \/ Merged(r)[i] # NoRow /\ db'[i].kind = Merged(r)[i].kind /\ db'[i].status = Merged(r)[i].status
        BY <1>1, <1>2, DeletedIs
    <2>2. /\ Fits(Merged(r)[i])
          /\ Merged(r)[i] # NoRow => db[i] # NoRow \/ i \in Vain(job[r])
          /\ db[i] # NoRow => Merged(r)[i].kind = db[i].kind
        BY <1>1, MergedIs
    <2>3. Fits(db'[i])
        BY <2>1, <2>2, StatusIs DEF Fits
    <2> QED BY <2>1, <2>2, <2>3
<1> QED BY <1>3, <1>4, <1>5

\* Nothing is pending of a request that is idle.
LEMMA IdleIs == Pending(Idle) /\ Idle.gone = {} /\ DOMAIN Idle.after = {} /\ Vain(Idle) = {}
<1>1. DOMAIN Empty = {} /\ Empty \in [{} -> Row] /\ Empty \in [{} -> Row \cup {NoRow}]
    BY DEF Empty
<1> QED BY <1>1 DEF Pending, Idle, Vain

\* A commit ends the solitude of all others.
LEMMA CommitKeeps ==
    ASSUME IInv, NEW r \in Requests, Commit(r)
    PROVE  IInv'
<1>0. Typed /\ Numbered /\ Fitting
    BY DEF IInv
<1>1. DOMAIN job' = Requests /\ job'[r] = Idle /\ \A q \in Requests \ {r} : job'[q] = job[q]
    BY <1>0, CommitIs DEF Typed
<1>2. \A q \in Requests : Pending(job'[q])
    BY <1>0, <1>1, IdleIs DEF Typed
<1>3. left' \in 0 .. MaxCommits /\ drawn' = drawn /\ alone' = {} /\ Sound(db')
    BY <1>0, CommitIs, DirectoryOK DEF Typed
<1>4. Typed'
    BY <1>0, <1>1, <1>2, <1>3, CommittedIs DEF Typed, Ids
<1>5. Numbered'
    <2>1. \A i \in Ids : db'[i] # NoRow => i <= drawn'
        BY <1>0, <1>3, CommittedIs DEF Numbered, Vain
    <2>2. \A q \in Requests : \A i \in DOMAIN job'[q].after : i <= drawn'
        BY <1>0, <1>1, <1>3, IdleIs DEF Numbered
    <2>3. \A q \in Requests : \E m, n \in 0 .. MaxId : Vain(job'[q]) = m+1 .. n
        <3>1. 1 .. 0 = {} /\ 0 \in 0 .. MaxId
            BY DirectoryOK
        <3>2. \E m, n \in 0 .. MaxId : Vain(Idle) = m+1 .. n
            BY <3>1, IdleIs
        <3> QED BY <1>0, <1>1, <3>2 DEF Numbered
    <2>4. ASSUME NEW q \in Requests, NEW i \in Vain(job'[q])
          PROVE  db'[i] = NoRow /\ \A p \in Requests \ {q} : i \notin DOMAIN job'[p].after
        <3>1. q # r /\ i \in Vain(job[q])
            BY <1>1, IdleIs
        <3>2. i \in Ids /\ db[i] = NoRow /\ i \notin Vain(job[r])
            BY <1>0, <3>1 DEF Numbered, Vain, Typed, Pending
        <3>3. db'[i] = NoRow
            BY <3>2, CommittedIs
        <3> QED BY <1>0, <1>1, <3>1, <3>3, IdleIs DEF Numbered
    <2> QED BY <2>1, <2>2, <2>3, <2>4 DEF Numbered, Ids
<1>6. Fitting'
    <2>1. \A i \in Ids : Fits(db'[i])
        BY CommittedIs
    <2>2. ASSUME NEW q \in Requests, NEW i \in DOMAIN job'[q].after
          PROVE  /\ Fits(job'[q].after[i])
                 /\ job'[q].before[i] # NoRow => /\ job'[q].after[i].kind = job'[q].before[i].kind
                                                 /\ db'[i] # NoRow => db'[i].kind = job'[q].before[i].kind
        <3>1. q # r /\ job'[q] = job[q] /\ i \in DOMAIN job[q].after /\ i \in Ids
            BY <1>0, <1>1, IdleIs DEF Typed, Pending
        <3>2. i \notin Vain(job[r])
            BY <1>0, <3>1 DEF Numbered
        <3>3. db'[i] # NoRow => db[i] # NoRow /\ db'[i].kind = db[i].kind
            BY <3>1, <3>2, CommittedIs
        <3> QED BY <1>0, <3>1, <3>3 DEF Fitting
    <2> QED BY <2>1, <2>2 DEF Fitting, Ids
<1>7. Spares' /\ Looked'
    BY <1>3 DEF Spares, Looked
<1> QED BY <1>4, <1>5, <1>6, <1>7 DEF IInv

\* A rollback leaves the tables alone, and gives back a block of ids if it is the last.
LEMMA RollbackKeeps ==
    ASSUME IInv, NEW r \in Requests, Rollback(r)
    PROVE  IInv'
<1>0. Typed /\ Numbered /\ Fitting
    BY DEF IInv
<1>1. /\ db' = db /\ left' = left /\ alone' = alone \ {r} /\ job' = [job EXCEPT ![r] = Idle]
      /\ drawn' = IF drawn \in Vain(job[r]) THEN drawn - Cardinality(Vain(job[r])) ELSE drawn
    BY DEF Rollback, Vain
<1>2. DOMAIN job' = Requests /\ job'[r] = Idle /\ \A q \in Requests \ {r} : job'[q] = job[q]
    BY <1>0, <1>1 DEF Typed
<1>3. PICK m \in 0 .. MaxId, n \in 0 .. MaxId : Vain(job[r]) = m+1 .. n
    BY <1>0 DEF Numbered
<1>4. m \in Nat /\ n \in Nat /\ drawn \in Nat /\ MaxId \in Nat /\ drawn <= MaxId
    BY <1>0, DirectoryOK DEF Typed
<1>5. \/ drawn' = drawn
      \/ drawn = n /\ m < n /\ drawn' = m
    <2>1. CASE drawn \in Vain(job[r])
        <3>1. n \in Vain(job[r]) /\ drawn <= n /\ m < n
            BY <1>3, <1>4, <2>1
        <3>2. n <= drawn
            BY <1>0, <3>1 DEF Numbered, Vain
        <3>3. Cardinality(m+1 .. n) = n - m
            <4>1. Cardinality(m+1 .. n) = IF m+1 > n THEN 0 ELSE n - (m+1) + 1
                BY <1>4, FS_Interval
            <4> QED BY <1>4, <3>1, <4>1
        <3> QED BY <1>1, <1>3, <1>4, <2>1, <3>1, <3>2, <3>3
    <2> QED BY <1>1, <2>1
<1>6. drawn' \in 0 .. MaxId
    BY <1>4, <1>5
<1>7. Typed'
    BY <1>0, <1>1, <1>2, <1>6, IdleIs DEF Typed, Ids
<1>8. Numbered'
    <2>1. ASSUME NEW i \in Ids, i <= drawn, i \notin Vain(job[r]) PROVE i <= drawn'
        BY <1>3, <1>4, <1>5, <2>1 DEF Ids
    <2>2. \A i \in Ids : db'[i] # NoRow => i <= drawn'
        BY <1>0, <1>1, <2>1 DEF Numbered
    <2>3. \A q \in Requests : \A i \in DOMAIN job'[q].after : i <= drawn'
        <3> SUFFICES ASSUME NEW q \in Requests, NEW i \in DOMAIN job'[q].after PROVE i <= drawn'
            OBVIOUS
        <3>1. q # r /\ i \in DOMAIN job[q].after /\ i \in Ids
            BY <1>0, <1>2, IdleIs DEF Typed, Pending
        <3>2. i <= drawn /\ i \notin Vain(job[r])
            BY <1>0, <3>1 DEF Numbered
        <3> QED BY <2>1, <3>1, <3>2
    <2>4. \A q \in Requests : \E j, k \in 0 .. MaxId : Vain(job'[q]) = j+1 .. k
        <3>1. 1 .. 0 = {} /\ 0 \in 0 .. MaxId
            BY DirectoryOK
        <3>2. \E j, k \in 0 .. MaxId : Vain(Idle) = j+1 .. k
            BY <3>1, IdleIs
        <3> QED BY <1>0, <1>2, <3>2 DEF Numbered
    <2>5. ASSUME NEW q \in Requests, NEW i \in Vain(job'[q])
          PROVE  db'[i] = NoRow /\ \A p \in Requests \ {q} : i \notin DOMAIN job'[p].after
        <3>1. q # r /\ i \in Vain(job[q])
            BY <1>2, IdleIs
        <3> QED BY <1>0, <1>1, <1>2, <3>1, IdleIs DEF Numbered
    <2> QED BY <2>2, <2>3, <2>4, <2>5 DEF Numbered, Ids
<1>9. Fitting'
    BY <1>0, <1>1, <1>2, IdleIs DEF Fitting, Ids
<1>10. Spares'
    BY <1>0, <1>1, <1>2 DEF IInv, Typed, Spares
<1>11. Looked'
    <2> SUFFICES ASSUME NEW q \in alone', NEW i \in DOMAIN job'[q].after
                 PROVE  /\ job'[q].before[i] = db'[i]
                        /\ db'[i] = NoRow => OneOf(job[q].api, job[q].after, i)'
        <3>1. \A q \in alone' : job'[q] = job[q]
            BY <1>0, <1>1, <1>2 DEF Typed
        <3> QED BY <3>1 DEF Looked
    <2> QED BY <1>0, <1>1, <1>2, OneOfStays DEF IInv, Typed, Looked
<1> QED BY <1>7, <1>8, <1>9, <1>10, <1>11 DEF IInv

\* The commit of a deletion that nobody has overlapped.
LEMMA DeletionSpares ==
    ASSUME IInv, NEW r \in Requests, Commit(r), r \in alone, job[r].gone # {},
           NEW i \in Ids \ job[r].gone, db[i].kind \in Kept, Homed(i)
    PROVE  db'[i] = db[i]
<1> USE DEF IInv
<1>1. DOMAIN job[r].after = {}
    BY DEF Typed, Pending
<1>2. db = [j \in Ids |-> db[j]] /\ db \in [Ids -> Row \cup {NoRow}]
    BY DEF Typed
<1>3. Merged(r) = db
    BY <1>1, <1>2 DEF Merged
<1>4. db' = Deleted(db, Doomed(db, job[r].gone))
    BY <1>3, CommitIs
<1>5. Harmless(db, job[r].gone)
    BY DEF Spares
<1>6. HomedIn(db, i)
    BY DEF Homed, HomedIn
<1>7. /\ i \notin Doomed(db, job[r].gone)
      /\ \A c \in Columns : <<db[i].kind, c>> \in SetsNull => db[i].refs[c] \notin Doomed(db, job[r].gone)
    BY <1>5, <1>6 DEF Harmless
<1> QED BY <1>2, <1>4, <1>7, DeletedIs

-----------------------------------------------------------------------------
(* The requests.                                                            *)

\* What is read in a table is a row of it.
LEMMA OfIs ==
    ASSUME Typed, NEW kind \in Kinds, NEW i \in Of(kind)
    PROVE  i \in Ids /\ db[i] \in Row /\ db[i].kind = kind
BY RowThere DEF Of

\* The routers of suppliers and categories count before they delete, and look before they create.
LEMMA SupplyingKeeps ==
    ASSUME IInv, NEW r \in Requests, Supplying(r)
    PROVE  IInv'
<1>0. Typed
    BY DEF IInv
<1>1. ASSUME NEW n \in Names, CreateSupplier(r, n) PROVE IInv'
    <2> DEFINE row == NewRow("supplier", n, None, "", <<>>)
    <2>1. row \in Row /\ Fits(row)
        BY NewRowTyped, StatusIs, GivenNone DEF Kinds
    <2>2. row.kind = "supplier" /\ row.key = n
        BY DEF NewRow
    <2> HIDE DEF row
    <2>3. OneOf("create_supplier", Lone(Fresh(1), row), Fresh(1))
        BY <1>1, <2>2 DEF OneOf, Lone, CreateSupplier
    <2>4. Insert(r, "create_supplier", row)
        BY <1>1 DEF CreateSupplier, row
    <2> QED BY <2>1, <2>3, <2>4, InsertKeeps
<1>2. ASSUME NEW n \in Names, CreateCategory(r, n) PROVE IInv'
    <2> DEFINE row == NewRow("category", n, None, "", <<>>)
    <2>1. row \in Row /\ Fits(row)
        BY NewRowTyped, StatusIs, GivenNone DEF Kinds
    <2>2. Insert(r, "create_category", row)
        BY <1>2 DEF CreateCategory
    <2> HIDE DEF row
    <2> QED BY <2>1, <2>2, InsertKeeps DEF Looking
<1>3. ASSUME NEW i \in Ids, NEW n \in Names, db[i] \in Row
      PROVE  LET row == [db[i] EXCEPT !.key = n]
             IN  row \in Row /\ row.kind = db[i].kind /\ row.status = db[i].status
    BY <1>3 DEF Row
<1>4. ASSUME NEW i \in Ids, NEW n \in Names, UpdateSupplier(r, i, n) PROVE IInv'
    <2>1. db[i] \in Row
        BY <1>0, <1>4, RowThere DEF UpdateSupplier, Kinds
    <2> QED BY <1>3, <1>4, <2>1, RewriteKeeps DEF UpdateSupplier
<1>5. ASSUME NEW i \in Ids, NEW n \in Names, CreateEntity(r, i, n) PROVE IInv'
    <2> DEFINE row == NewRow("entity", n, None, "", [source |-> i])
    <2>1. row \in Row /\ Fits(row)
        BY NewRowTyped, StatusIs, GivenOne DEF Kinds
    <2>2. Insert(r, "create_entity", row)
        BY <1>5 DEF CreateEntity
    <2> HIDE DEF row
    <2> QED BY <2>1, <2>2, InsertKeeps DEF Looking
<1>6. ASSUME NEW i \in Ids, NEW n \in Names, UpdateEntity(r, i, n) PROVE IInv'
    <2>1. db[i] \in Row
        BY <1>0, <1>6, RowThere DEF UpdateEntity, Kinds
    <2> QED BY <1>3, <1>6, <2>1, RewriteKeeps DEF UpdateEntity
<1>7. ASSUME NEW i \in Ids, NEW n \in Names, UpdateCategory(r, i, n) PROVE IInv'
    <2>1. db[i] \in Row
        BY <1>0, <1>7, RowThere DEF UpdateCategory, Kinds
    <2> QED BY <1>3, <1>7, <2>1, RewriteKeeps DEF UpdateCategory
<1>8. ASSUME NEW i \in Ids, NEW cloud \in Clouds, CreateSource(r, i, cloud) PROVE IInv'
    <2> DEFINE row == NewRow("source", None, cloud, "", [supplier |-> i])
    <2>1. row \in Row /\ Fits(row)
        BY NewRowTyped, StatusIs, GivenOne DEF Kinds
    <2>2. Insert(r, "create_supply_source", row)
        BY <1>8 DEF CreateSource
    <2> HIDE DEF row
    <2> QED BY <2>1, <2>2, InsertKeeps DEF Looking
<1>9. ASSUME NEW i \in Ids, DeleteSupplier(r, i) PROVE IInv'
    BY <1>0, <1>9, SupplierGoes, RemoveKeeps DEF DeleteSupplier
<1>10. ASSUME NEW i \in Ids, DeleteSource(r, i) PROVE IInv'
    BY <1>0, <1>10, SourceGoes, RemoveKeeps DEF DeleteSource
<1>11. ASSUME NEW i \in Ids, DeleteEntity(r, i) PROVE IInv'
    <2>1. Harmless(db, {i})
        BY <1>0, <1>11, LeafGoes DEF DeleteEntity
    <2> QED BY <1>11, <2>1, RemoveKeeps DEF DeleteEntity
<1>12. ASSUME NEW i \in Ids, DeleteCategory(r, i) PROVE IInv'
    <2>1. Harmless(db, {i})
        BY <1>0, <1>12, LeafGoes DEF DeleteCategory
    <2> QED BY <1>12, <2>1, RemoveKeeps DEF DeleteCategory
<1> QED BY <1>1, <1>2, <1>4, <1>5, <1>6, <1>7, <1>8, <1>9, <1>10, <1>11, <1>12 DEF Supplying

\* So do those of cloud accounts and data sources.
LEMMA CollectingKeeps ==
    ASSUME IInv, NEW r \in Requests, Collecting(r)
    PROVE  IInv'
<1>0. Typed
    BY DEF IInv
<1>1. ASSUME NEW cloud \in Clouds, CreateAccount(r, cloud) PROVE IInv'
    <2> DEFINE row == NewRow("account", None, cloud, "legacy", <<>>)
    <2>1. row \in Row /\ Fits(row)
        BY NewRowTyped, StatusIs, GivenNone DEF Kinds
    <2>2. Insert(r, "create_cloud_account", row)
        BY <1>1 DEF CreateAccount
    <2> HIDE DEF row
    <2> QED BY <2>1, <2>2, InsertKeeps DEF Looking
<1>2. ASSUME NEW a \in Of("account"), NEW cloud \in Clouds, NEW t \in Nullable(Tenants),
             UpdateAccount(r, a, cloud, t)
      PROVE  IInv'
    <2> DEFINE row == [db[a] EXCEPT !.cloud = cloud, !.key = t]
    <2>1. db[a] \in Row
        BY <1>0, OfIs DEF Kinds
    <2>2. row \in Row /\ row.kind = db[a].kind /\ row.status = db[a].status
        BY <2>1 DEF Row, Nullable
    <2> QED BY <1>2, <2>1, <2>2, RewriteKeeps DEF UpdateAccount
<1>3. ASSUME NEW a \in Of("account"), NEW c \in Nullable(Of("category")), NEW x \in Targets
      PROVE  LET row == NewRow("data_source", x, None, "", [account |-> a, category |-> c])
             IN  row \in Row /\ Fits(row) /\ row.key = x /\ row.refs["account"] = a
    <2>1. a \in Ids /\ c \in Ids \cup {None}
        BY <1>0, OfIs DEF Kinds, Nullable
    <2> DEFINE row == NewRow("data_source", x, None, "", [account |-> a, category |-> c])
    <2>2. row \in Row /\ Fits(row)
        BY <2>1, NewRowTyped, StatusIs, GivenMore DEF Kinds
    <2>3. row.key = x /\ row.refs["account"] = a
        BY DEF NewRow, Columns
    <2> QED BY <2>2, <2>3
<1>4. ASSUME NEW a \in Of("account"), NEW c \in Nullable(Of("category")), NEW x \in Targets,
             CreateDataSource(r, a, c, x)
      PROVE  IInv'
    BY <1>3, <1>4, InsertKeeps DEF CreateDataSource, Looking
<1>5. ASSUME NEW a \in Of("account"), NEW c \in Nullable(Of("category")), NEW x \in Targets,
             CreateGcpView(r, a, c, x)
      PROVE  IInv'
    <2> DEFINE row == NewRow("data_source", x, None, "", [account |-> a, category |-> c])
    <2>1. row \in Row /\ Fits(row) /\ row.key = x /\ row.refs["account"] = a
        BY <1>3
    <2>2. Insert(r, "create_gcp_view", row)
        BY <1>5 DEF CreateGcpView
    <2> HIDE DEF row
    <2>3. OneOf("create_gcp_view", Lone(Fresh(1), row), Fresh(1))
        BY <1>5, <2>1 DEF OneOf, Lone, CreateGcpView
    <2> QED BY <2>1, <2>2, <2>3, InsertKeeps
<1>6. ASSUME NEW a \in Of("account"), NEW c \in Nullable(Of("category")), NEW x \in Targets,
             NEW d \in Of("data_source"), UpdateDataSource(r, d, a, c, x)
      PROVE  IInv'
    <2> DEFINE row == [db[d] EXCEPT !.key = x, !.refs["account"] = a, !.refs["category"] = c]
    <2>1. a \in Ids /\ c \in Ids \cup {None} /\ db[d] \in Row
        BY <1>0, OfIs DEF Kinds, Nullable
    <2>2. row \in Row /\ row.kind = db[d].kind /\ row.status = db[d].status
        BY <2>1 DEF Row
    <2> QED BY <1>6, <2>1, <2>2, RewriteKeeps DEF UpdateDataSource
<1>7. ASSUME NEW i \in Ids, DeleteAccount(r, i) PROVE IInv'
    <2>1. Harmless(db, {i})
        BY <1>0, <1>7, LeafGoes DEF DeleteAccount
    <2> QED BY <1>7, <2>1, RemoveKeeps DEF DeleteAccount
<1>8. ASSUME NEW i \in Ids, DeleteDataSource(r, i) PROVE IInv'
    <2>1. Harmless(db, {i})
        BY <1>0, <1>8, LeafGoes DEF DeleteDataSource
    <2> QED BY <1>8, <2>1, RemoveKeeps DEF DeleteDataSource
<1> QED BY <1>1, <1>2, <1>4, <1>5, <1>6, <1>7, <1>8 DEF Collecting

-----------------------------------------------------------------------------
(* New rows, one after the other.                                           *)

\* Rows of their tables under the next ids.
Drawing(f) ==
    /\ f \in [DOMAIN f -> Row] /\ \A i \in DOMAIN f : Fits(f[i])
    /\ \E n \in Nat : DOMAIN f = drawn+1 .. drawn+n

\* How many there are.
LEMMA DrawingIs ==
    ASSUME Typed, NEW f, Drawing(f)
    PROVE  /\ Cardinality(DOMAIN f) \in Nat
           /\ DOMAIN f = drawn+1 .. drawn + Cardinality(DOMAIN f)
<1>1. PICK n \in Nat : DOMAIN f = drawn+1 .. drawn+n
    BY DEF Drawing
<1>2. drawn \in Int
    BY DEF Typed
<1>3. Cardinality(drawn+1 .. drawn+n) = n
    <2>1. Cardinality(drawn+1 .. drawn+n) = IF drawn+1 > drawn+n THEN 0 ELSE drawn+n - (drawn+1) + 1
        BY <1>2, FS_Interval
    <2> QED BY <1>2, <2>1
<1> QED BY <1>1, <1>3

\* No row is there yet under an id to come.
LEMMA DrawnAreNew ==
    ASSUME IInv, NEW f, Drawing(f), DOMAIN f \subseteq Ids, NEW i \in DOMAIN f
    PROVE  i > drawn /\ db[i] = NoRow
<1>1. i > drawn /\ i \in Int /\ drawn \in Int
    BY DEF Drawing, IInv, Typed, Ids
<1> QED BY <1>1 DEF IInv, Numbered

\* New rows may be written if what they stand for was looked for.
LEMMA DrawingProper ==
    ASSUME IInv, NEW f, Drawing(f), DOMAIN f \subseteq Ids, NEW api,
           \A i \in DOMAIN f : OneOf(api, f, i)
    PROVE  Proper(api, f)
<1>1. \A i \in DOMAIN f : db[i] = NoRow
    BY DrawnAreNew
<1>2. New(f) = DOMAIN f
    BY <1>1 DEF New
<1> QED BY <1>1, <1>2 DEF Drawing, Proper

\* No rows, a row, and two rows.
LEMMA DrawNone ==
    ASSUME Typed
    PROVE  Drawing(Empty) /\ DOMAIN Empty = {}
<1>1. DOMAIN Empty = {} /\ Empty \in [DOMAIN Empty -> Row]
    BY DEF Empty
<1>2. drawn+1 .. drawn+0 = {}
    BY DEF Typed
<1> QED BY <1>1, <1>2 DEF Drawing

\* A row more.
LEMMA DrawMore ==
    ASSUME Typed, NEW f, Drawing(f), NEW row \in Row, Fits(row)
    PROVE  LET j == Fresh(Cardinality(DOMAIN f) + 1)
               g == Beside(f, Lone(j, row))
           IN  /\ Drawing(g) /\ DOMAIN g = DOMAIN f \cup {j} /\ j \notin DOMAIN f
               /\ g[j] = row /\ \A i \in DOMAIN f : g[i] = f[i]
<1> DEFINE n == Cardinality(DOMAIN f)
           j == Fresh(n + 1)
           g == Beside(f, Lone(j, row))
<1>1. n \in Nat /\ DOMAIN f = drawn+1 .. drawn+n
    BY DrawingIs
<1>2. drawn \in Int
    BY DEF Typed
<1> HIDE DEF n
<1>3. j = drawn + n + 1
    BY <1>1, <1>2 DEF Fresh
<1>4. DOMAIN g = DOMAIN f \cup {j} /\ g \in [DOMAIN g -> Row]
    <2>1. DOMAIN Lone(j, row) = {j} /\ Lone(j, row) \in [DOMAIN Lone(j, row) -> Row]
        BY RowAt
    <2>2. f \in [DOMAIN f -> Row]
        BY DEF Drawing
    <2> QED BY <2>1, <2>2, RowsTogether
<1>5. j \notin DOMAIN f
    BY <1>1, <1>2, <1>3
<1>6. g[j] = row /\ \A i \in DOMAIN f : g[i] = f[i]
    BY <1>5 DEF Beside, Lone
<1> HIDE DEF g, j
<1>7. DOMAIN g = drawn+1 .. drawn+(n+1)
    <2>1. (drawn+1 .. drawn+n) \cup {drawn+n+1} = drawn+1 .. drawn+(n+1)
        BY <1>1, <1>2
    <2> QED BY <1>1, <1>3, <1>4, <2>1
<1>8. n + 1 \in Nat
    BY <1>1
<1>9. Drawing(g)
    BY <1>4, <1>6, <1>7, <1>8 DEF Drawing
<1> QED BY <1>4, <1>5, <1>6, <1>9 DEF g, j, n

\* One row.
LEMMA DrawOne ==
    ASSUME Typed, NEW row \in Row, Fits(row)
    PROVE  LET f == Lone(Fresh(1), row) IN Drawing(f) /\ DOMAIN f = {Fresh(1)} /\ f[Fresh(1)] = row
<1> DEFINE f == Lone(Fresh(1), row)
<1>1. DOMAIN f = {Fresh(1)} /\ f \in [DOMAIN f -> Row] /\ f[Fresh(1)] = row
    BY RowAt DEF Lone
<1>2. Fresh(1) = drawn + 1 /\ drawn \in Int
    BY DEF Fresh, Typed
<1> HIDE DEF f
<1>3. DOMAIN f = drawn+1 .. drawn+1
    BY <1>1, <1>2
<1> QED BY <1>1, <1>3 DEF Drawing, f

\* Two rows.
LEMMA DrawTwo ==
    ASSUME Typed, NEW row \in Row, Fits(row), NEW next \in Row, Fits(next)
    PROVE  LET f == Beside(Lone(Fresh(1), row), Lone(Fresh(2), next))
           IN  Drawing(f) /\ DOMAIN f = {Fresh(1), Fresh(2)} /\ f[Fresh(1)] = row /\ f[Fresh(2)] = next
<1> DEFINE f == Beside(Lone(Fresh(1), row), Lone(Fresh(2), next))
<1>1. Fresh(1) = drawn + 1 /\ Fresh(2) = drawn + 2 /\ drawn \in Int
    BY DEF Fresh, Typed
<1>2. DOMAIN f = {Fresh(1), Fresh(2)} /\ f[Fresh(1)] = row /\ f[Fresh(2)] = next
    BY <1>1 DEF Beside, Lone
<1>3. f \in [DOMAIN f -> Row]
    BY RowAt, RowsTogether
<1> HIDE DEF f
<1>4. DOMAIN f = drawn+1 .. drawn+2
    BY <1>1, <1>2
<1> QED BY <1>2, <1>3, <1>4 DEF Drawing, f

-----------------------------------------------------------------------------
(* Discovery.                                                               *)

\* The reserved supplier and its source: there is no other of the name.
LEMMA EnsuredIs ==
    ASSUME Typed, NEW e \in Ensured, DOMAIN e.rows \subseteq Ids
    PROVE  /\ Drawing(e.rows) /\ e.source \in Ids
           /\ \A i \in DOMAIN e.rows : e.rows[i].kind = "supplier" => Named("supplier", e.rows[i].key) = {}
<1> DEFINE supplier == NewRow("supplier", Reserved, None, "", <<>>)
           source(s) == NewRow("source", None, "gcp", "", [supplier |-> s])
<1>1. supplier \in Row /\ Fits(supplier) /\ supplier.key = Reserved
    <2>1. supplier \in Row /\ Fits(supplier)
        BY NewRowTyped, StatusIs, GivenNone, DirectoryOK DEF Kinds
    <2> QED BY <2>1 DEF NewRow
<1>2. \A s \in Ids : source(s) \in Row /\ Fits(source(s)) /\ source(s).kind = "source"
    <2> SUFFICES ASSUME NEW s \in Ids
                 PROVE  source(s) \in Row /\ Fits(source(s)) /\ source(s).kind = "source"
        OBVIOUS
    <2>1. source(s) \in Row /\ Fits(source(s))
        BY NewRowTyped, StatusIs, GivenOne, DirectoryOK DEF Kinds
    <2> QED BY <2>1 DEF NewRow
<1> HIDE DEF supplier
<1>3. CASE Named("supplier", Reserved) = {}
    <2>1. e = [rows |-> Beside(Lone(Fresh(1), supplier), Lone(Fresh(2), source(Fresh(1)))), source |-> Fresh(2)]
        BY <1>3 DEF Ensured, supplier
    <2>2. DOMAIN e.rows = {Fresh(1), Fresh(2)}
        BY <2>1 DEF Beside, Lone
    <2>3. source(Fresh(1)) \in Row /\ Fits(source(Fresh(1))) /\ source(Fresh(1)).kind = "source"
        BY <1>2, <2>2
    <2> HIDE DEF source
    <2>4. Drawing(e.rows) /\ e.rows[Fresh(1)] = supplier /\ e.rows[Fresh(2)] = source(Fresh(1))
        BY <1>1, <2>1, <2>3, DrawTwo
    <2> QED BY <1>1, <1>3, <2>1, <2>2, <2>3, <2>4
<1>4. CASE Named("supplier", Reserved) # {}
    <2>1. PICK s \in Named("supplier", Reserved) :
            e \in IF GcpSources(s) = {}
                    THEN {[rows |-> Lone(Fresh(1), source(s)), source |-> Fresh(1)]}
                    ELSE {[rows |-> Empty, source |-> ss] : ss \in GcpSources(s)}
        BY <1>4 DEF Ensured
    <2>2. s \in Ids /\ source(s) \in Row /\ Fits(source(s)) /\ source(s).kind = "source"
        BY <1>2 DEF Named, Of
    <2> HIDE DEF source
    <2>3. CASE e = [rows |-> Lone(Fresh(1), source(s)), source |-> Fresh(1)]
        <3>1. DOMAIN e.rows = {Fresh(1)} /\ Drawing(e.rows) /\ e.rows[Fresh(1)] = source(s)
            BY <2>2, <2>3, DrawOne
        <3> QED BY <2>2, <2>3, <3>1
    <2>4. ASSUME NEW ss \in GcpSources(s), e = [rows |-> Empty, source |-> ss]
          PROVE  Drawing(e.rows) /\ DOMAIN e.rows = {} /\ e.source \in Ids
        BY <2>4, DrawNone DEF GcpSources, SourcesOf, Pointing, Of
    <2> QED BY <2>1, <2>3, <2>4
<1> QED BY <1>3, <1>4

\* Bindings, billing, bills and discovery delete nothing.
LEMMA UsingKeeps ==
    ASSUME IInv, NEW r \in Requests, Using(r)
    PROVE  IInv'
<1>0. Typed
    BY DEF IInv
<1>1. ASSUME NEW p \in Of("project"), NEW c \in {"entity", "site", "category"}, NEW i \in Nullable(Ids),
             Bind(r, p, c, i)
      PROVE  IInv'
    <2> DEFINE row == [db[p] EXCEPT !.refs[c] = i]
    <2>1. db[p] \in Row /\ i \in Ids \cup {None} /\ c \in Columns
        BY <1>0, OfIs DEF Kinds, Nullable, Columns
    <2>2. row \in Row /\ row.kind = db[p].kind /\ row.status = db[p].status
        BY <2>1 DEF Row
    <2> QED BY <1>1, <2>1, <2>2, RewriteKeeps DEF Bind
<1>2. ASSUME NEW i \in Ids, Collect(r, i) PROVE IInv'
    <2> DEFINE row == NewRow("billing", None, None, "", [site |-> i])
    <2>1. row \in Row /\ Fits(row)
        BY NewRowTyped, StatusIs, GivenOne DEF Kinds
    <2>2. Insert(r, "collect", row)
        BY <1>2 DEF Collect
    <2> HIDE DEF row
    <2> QED BY <2>1, <2>2, InsertKeeps DEF Looking
<1>3. ASSUME NEW i \in Ids, Bill(r, i) PROVE IInv'
    <2> DEFINE row == NewRow("bill", None, None, "", [category |-> i])
    <2>1. row \in Row /\ Fits(row)
        BY NewRowTyped, StatusIs, GivenOne DEF Kinds
    <2>2. Insert(r, "bill", row)
        BY <1>3 DEF Bill
    <2> HIDE DEF row
    <2> QED BY <2>1, <2>2, InsertKeeps DEF Looking
<1>4. ASSUME NEW f, NEW i, f[i].kind = "supplier" => Named("supplier", f[i].key) = {}
      PROVE  OneOf("discover", f, i)
    BY <1>4 DEF OneOf
<1>5. ASSUME NEW x \in Targets, Discover(r, x) PROVE IInv'
    <2>1. PICK e \in Ensured : Read(r, "discover",
               Beside(e.rows, Lone(Fresh(Cardinality(DOMAIN e.rows) + 1),
                   NewRow("project", x, None, "standby", [source |-> e.source]))), {})
        BY <1>5 DEF Discover
    <2> DEFINE project == NewRow("project", x, None, "standby", [source |-> e.source])
               j == Fresh(Cardinality(DOMAIN e.rows) + 1)
               after == Beside(e.rows, Lone(j, project))
    <2>2. DOMAIN after \subseteq Ids
        BY <2>1 DEF Read
    <2>3. DOMAIN e.rows \subseteq DOMAIN after
        BY DEF Beside
    <2>4. /\ Drawing(e.rows) /\ e.source \in Ids
          /\ \A i \in DOMAIN e.rows : e.rows[i].kind = "supplier" => Named("supplier", e.rows[i].key) = {}
        BY <1>0, <2>2, <2>3, EnsuredIs
    <2>5. project \in Row /\ Fits(project) /\ project.kind = "project"
        <3>1. project \in Row /\ Fits(project)
            BY <2>4, NewRowTyped, StatusIs, GivenOne DEF Kinds
        <3> QED BY <3>1 DEF NewRow
    <2> HIDE DEF project
    <2>6. /\ Drawing(after) /\ DOMAIN after = DOMAIN e.rows \cup {j}
          /\ after[j] = project /\ \A i \in DOMAIN e.rows : after[i] = e.rows[i]
        BY <1>0, <2>4, <2>5, DrawMore
    <2>7. Read(r, "discover", after, {})
        BY <2>1 DEF project
    <2> HIDE DEF after, j
    <2>8. \A i \in DOMAIN after : OneOf("discover", after, i)
        BY <1>4, <2>4, <2>5, <2>6
    <2>9. Proper("discover", after)
        BY <2>2, <2>6, <2>8, DrawingProper
    <2> QED BY <2>7, <2>9, ReadKeeps
<1>6. ASSUME DiscoverNothing(r) PROVE IInv'
    <2>1. PICK e \in Ensured : Read(r, "discover", e.rows, {})
        BY <1>6 DEF DiscoverNothing
    <2>2. DOMAIN e.rows \subseteq Ids
        BY <2>1 DEF Read
    <2>3. Drawing(e.rows) /\ \A i \in DOMAIN e.rows : OneOf("discover", e.rows, i)
        BY <1>0, <1>4, <2>2, EnsuredIs
    <2>4. Proper("discover", e.rows)
        BY <2>2, <2>3, DrawingProper
    <2> QED BY <2>1, <2>4, ReadKeeps
<1> QED BY <1>1, <1>2, <1>3, <1>5, <1>6 DEF Using

-----------------------------------------------------------------------------
(* The imports.                                                             *)

\* A finite set in a sequence: every element is in it.
LEMMA SeqOf ==
    ASSUME NEW S, IsFiniteSet(S)
    PROVE  /\ Cardinality(S) \in Nat
           /\ Seqs!SetToSeq(S) \in [1..Cardinality(S) -> S]
           /\ \A x \in S : \E k \in 1..Cardinality(S) : Seqs!SetToSeq(S)[k] = x
<1> DEFINE N == Cardinality(S)
           s == Seqs!SetToSeq(S)
<1>1. N \in Nat /\ ExistsBijection(1..N, S)
    <2>1. PICK n \in Nat : ExistsBijection(1..n, S)
        BY FS_NatBijection
    <2>2. Cardinality(S) = n
        BY <2>1, FS_CountingElements
    <2> QED BY <2>1, <2>2
<1>2. PICK f : f \in Bijection(1..N, S)
    BY <1>1 DEF ExistsBijection
<1>3. f \in [1..N -> S] /\ \A a, b \in DOMAIN f : f[a] = f[b] => a = b
    BY <1>2 DEF Bijection, Injection, IsInjective
<1>4. Seqs!IsInjective(f)
    BY <1>3 DEF Seqs!IsInjective
<1>5. s = CHOOSE g \in [1..N -> S] : Seqs!IsInjective(g)
    BY DEF Seqs!SetToSeq, Seqs!Cardinality, Cardinality
<1>6. s \in [1..N -> S] /\ Seqs!IsInjective(s)
    BY <1>3, <1>4, <1>5
<1>7. s \in Injection(1..N, S)
    BY <1>6 DEF Seqs!IsInjective, Injection, IsInjective
<1>8. IsFiniteSet(1..N) /\ Cardinality(1..N) = N
    <2>1. Cardinality(1..N) = IF 1 > N THEN 0 ELSE N - 1 + 1
        BY <1>1, FS_Interval
    <2>2. IsFiniteSet(1..N)
        BY <1>1, FS_Interval
    <2> QED BY <1>1, <2>1, <2>2
<1> HIDE DEF s
<1>9. s \in Surjection(1..N, S)
    BY <1>7, <1>8, FS_Injection
<1>10. \A x \in S : \E k \in 1..N : s[k] = x
    BY <1>9 DEF Surjection
<1> QED BY <1>1, <1>6, <1>10 DEF s

\* Some new rows, and after them those of a set.
LEMMA AppendingIs ==
    ASSUME Typed, NEW rows, Drawing(rows), NEW S \in SUBSET Row, IsFiniteSet(S), \A w \in S : Fits(w)
    PROVE  LET f == Appending(rows, S)
           IN  /\ Drawing(f) /\ DOMAIN rows \subseteq DOMAIN f
               /\ \A i \in DOMAIN f : (i \in DOMAIN rows /\ f[i] = rows[i]) \/ f[i] \in S
               /\ \A w \in S : \E i \in DOMAIN f : f[i] = w
<1> DEFINE s == Seqs!SetToSeq(S)
           n == Cardinality(DOMAIN rows)
           m == Cardinality(S)
           tail == [j \in {Fresh(n + k) : k \in DOMAIN s} |-> s[j - Fresh(n)]]
           f == Beside(rows, tail)
<1>1. Appending(rows, S) = f
    BY DEF Appending
<1>2. n \in Nat /\ DOMAIN rows = drawn+1 .. drawn+n
    BY DrawingIs
<1>3. m \in Nat /\ s \in [1..m -> S] /\ \A w \in S : \E k \in 1..m : s[k] = w
    BY SeqOf
<1> HIDE DEF s, n, m
<1>4. drawn \in Int
    BY DEF Typed
<1>5. ASSUME NEW k \in 1..m
      PROVE  /\ Fresh(n + k) = drawn + n + k /\ Fresh(n + k) \in DOMAIN tail /\ tail[Fresh(n + k)] = s[k]
             /\ Fresh(n + k) \notin DOMAIN rows
    <2>1. Fresh(n + k) = drawn + n + k
        BY <1>2, <1>4 DEF Fresh
    <2>2. k \in DOMAIN s
        BY <1>3
    <2>3. Fresh(n + k) \in DOMAIN tail
        BY <2>2
    <2>4. Fresh(n + k) - Fresh(n) = k
        BY <1>2, <1>4 DEF Fresh
    <2>5. drawn + n + k \notin drawn+1 .. drawn+n
        BY <1>2, <1>4
    <2> QED BY <1>2, <2>1, <2>4, <2>5, <2>3
<1>6. DOMAIN tail = {drawn + n + k : k \in 1..m}
    BY <1>3, <1>5
<1>7. \A i \in DOMAIN tail : \E k \in 1..m : i = Fresh(n + k)
    BY <1>5, <1>6
<1> HIDE DEF tail
<1>8. DOMAIN f = DOMAIN rows \cup DOMAIN tail
    BY DEF Beside
<1>9. /\ \A i \in DOMAIN rows : f[i] = rows[i]
      /\ \A k \in 1..m : f[Fresh(n + k)] = s[k]
    BY <1>5 DEF Beside
<1>10. f = [i \in DOMAIN f |-> f[i]]
    BY DEF Beside
<1> HIDE DEF f
<1>11. \A i \in DOMAIN f : (i \in DOMAIN rows /\ f[i] = rows[i]) \/ f[i] \in S
    BY <1>3, <1>7, <1>8, <1>9
<1>12. \A w \in S : \E i \in DOMAIN f : f[i] = w
    BY <1>3, <1>5, <1>8, <1>9
<1>13. DOMAIN f = drawn+1 .. drawn+(n+m)
    <2>1. (drawn+1 .. drawn+n) \cup {drawn + n + k : k \in 1..m} = drawn+1 .. drawn+(n+m)
        <3>1. ASSUME NEW i \in drawn+n+1 .. drawn+(n+m) PROVE i \in {drawn + n + k : k \in 1..m}
            <4>1. i - (drawn + n) \in 1..m /\ i = drawn + n + (i - (drawn + n))
                BY <1>2, <1>3, <1>4
            <4> QED BY <4>1
        <3>2. \A i \in {drawn + n + k : k \in 1..m} : i \in drawn+n+1 .. drawn+(n+m)
            BY <1>2, <1>3, <1>4
        <3>3. (drawn+1 .. drawn+n) \cup (drawn+n+1 .. drawn+(n+m)) = drawn+1 .. drawn+(n+m)
            BY <1>2, <1>3, <1>4
        <3> QED BY <3>1, <3>2, <3>3
    <2> QED BY <1>2, <1>6, <1>8, <2>1
<1>14. \A i \in DOMAIN f : f[i] \in Row /\ Fits(f[i])
    BY <1>11 DEF Drawing
<1>15. n + m \in Nat
    BY <1>2, <1>3
<1>16. Drawing(f)
    BY <1>10, <1>13, <1>14, <1>15 DEF Drawing
<1> QED BY <1>1, <1>8, <1>11, <1>12, <1>16

\* The images of finitely many things are finitely many.
LEMMA Images ==
    ASSUME NEW X, IsFiniteSet(X), NEW g, DOMAIN g = X
    PROVE  IsFiniteSet({g[x] : x \in X})
<1> DEFINE Y == {g[x] : x \in X}
           h == [x \in X |-> g[x]]
<1>1. h \in Surjection(X, Y)
    BY DEF Surjection
<1> HIDE DEF h
<1> QED BY <1>1, FS_Surjection

\* The service accounts that a snapshot brings: none has a twin.
LEMMA AccountRowsAre ==
    ASSUME NEW ss \in Ids, NEW d \in Ids, NEW e \in Ids \cup {None}, NEW X \in SUBSET Targets
    PROVE  LET S == AccountRows(ss, d, e, X)
           IN  /\ S \subseteq Row /\ IsFiniteSet(S)
               /\ \A w \in S : Fits(w) /\ Twinless(w)
<1> DEFINE row(x) == NewRow("project", x, None, "active", [source |-> ss, site |-> d, entity |-> e])
           rows == [x \in Unknown(ss, d, X) |-> row(x)]
           S == AccountRows(ss, d, e, X)
<1>1. Unknown(ss, d, X) \subseteq Targets /\ IsFiniteSet(Unknown(ss, d, X))
    BY FS_Subset, DirectoryOK DEF Unknown
<1>2. ASSUME NEW x \in Unknown(ss, d, X)
      PROVE  row(x) \in Row /\ Fits(row(x)) /\ Twinless(row(x))
    <2>1. row(x) \in Row /\ Fits(row(x))
        BY <1>1, NewRowTyped, StatusIs, GivenMore DEF Kinds
    <2>2. /\ row(x).kind = "project" /\ row(x).key = x
          /\ row(x).refs["source"] = ss /\ row(x).refs["site"] = d
        BY DEF NewRow, Columns
    <2>3. \A p \in Named("project", x) : db[p].refs["source"] = ss => db[p].refs["site"] # d
        BY DEF Unknown
    <2> HIDE DEF row
    <2> QED BY <2>1, <2>2, <2>3 DEF Twinless
<1>3. S = {row(x) : x \in Unknown(ss, d, X)}
    BY DEF AccountRows
<1> HIDE DEF S
<1>4. IsFiniteSet({rows[x] : x \in Unknown(ss, d, X)})
    <2>1. DOMAIN rows = Unknown(ss, d, X)
        OBVIOUS
    <2> HIDE DEF rows
    <2> QED BY <1>1, <2>1, Images
<1>5. S = {rows[x] : x \in Unknown(ss, d, X)}
    BY <1>3
<1> HIDE DEF row, rows
<1>6. S \subseteq Row /\ \A w \in S : Fits(w) /\ Twinless(w)
    BY <1>2, <1>3
<1> QED BY <1>4, <1>5, <1>6 DEF S

\* Each pair that has no account gets one.
LEMMA AccountRowsCover ==
    ASSUME NEW ss, NEW d, NEW e, NEW X, NEW x \in Unknown(ss, d, X)
    PROVE  \E w \in AccountRows(ss, d, e, X) : w.kind = "project" /\ w.key = x /\ w.refs["site"] = d
<1> DEFINE w == NewRow("project", x, None, "active", [source |-> ss, site |-> d, entity |-> e])
<1>1. w \in AccountRows(ss, d, e, X)
    BY DEF AccountRows
<1>2. w.kind = "project" /\ w.key = x /\ w.refs["site"] = d
    BY DEF NewRow, Columns
<1> HIDE DEF w
<1> QED BY <1>1, <1>2

\* The billing of a day.
LEMMA BillingRowsAre ==
    ASSUME NEW d \in Ids, NEW X \in SUBSET Targets
    PROVE  LET billing == {NewRow("billing", x, None, "", [site |-> d]) : x \in X}
           IN  /\ billing \subseteq Row /\ IsFiniteSet(billing)
               /\ \A w \in billing :
                     Fits(w) /\ w.kind = "billing" /\ w.key \in X /\ w.refs["site"] = d
<1> DEFINE row(x) == NewRow("billing", x, None, "", [site |-> d])
           rows == [x \in X |-> row(x)]
<1>1. IsFiniteSet(X)
    BY FS_Subset, DirectoryOK
<1>2. ASSUME NEW x \in X
      PROVE  row(x) \in Row /\ Fits(row(x)) /\ row(x).kind = "billing" /\ row(x).key = x /\ row(x).refs["site"] = d
    <2>1. row(x) \in Row /\ Fits(row(x))
        BY NewRowTyped, StatusIs, GivenOne DEF Kinds
    <2>2. row(x).kind = "billing" /\ row(x).key = x /\ row(x).refs["site"] = d
        BY DEF NewRow, Columns
    <2> QED BY <2>1, <2>2
<1>3. {row(x) : x \in X} = {rows[x] : x \in X}
    OBVIOUS
<1>4. IsFiniteSet({rows[x] : x \in X})
    <2>1. DOMAIN rows = X
        OBVIOUS
    <2> HIDE DEF rows
    <2> QED BY <1>1, <2>1, Images
<1> HIDE DEF row
<1>5. {row(x) : x \in X} \subseteq Row
    BY <1>2
<1>6. \A w \in {row(x) : x \in X} : Fits(w) /\ w.kind = "billing" /\ w.key \in X /\ w.refs["site"] = d
    BY <1>2
<1> QED BY <1>3, <1>4, <1>5, <1>6 DEF row

\* The shared account of a supply source has its own name.
LEMMA SharedAccountIs ==
    ASSUME NEW ss \in Ids
    PROVE  LET w == NewRow("account", SharedName(ss), "taiji", "legacy", <<>>)
           IN  w \in Row /\ Fits(w) /\ w.kind = "account" /\ w.key = SharedName(ss)
<1> DEFINE w == NewRow("account", SharedName(ss), "taiji", "legacy", <<>>)
<1>1. SharedName(ss) \in Names \cup Tenants \cup Targets \cup {None} \cup {SharedName(i) : i \in Ids}
    OBVIOUS
<1>2. "legacy" \in StatusesOf("account") /\ "taiji" \in Clouds \cup {None} /\ "account" \in Kinds
    BY StatusIs, DirectoryOK DEF Kinds
<1>3. w \in Row /\ Fits(w)
    BY <1>1, <1>2, NewRowTyped, GivenNone
<1>4. w.kind = "account" /\ w.key = SharedName(ss)
    BY DEF NewRow
<1> QED BY <1>3, <1>4

\* A data source of an account.
LEMMA OfAccount ==
    ASSUME NEW a \in Ids
    PROVE  LET w == SharedSite(a)
           IN  w \in Row /\ Fits(w) /\ w.kind = "data_source" /\ w.refs["account"] = a
<1>1. SharedSite(a) \in Row /\ Fits(SharedSite(a))
    BY NewRowTyped, StatusIs, GivenOne DEF SharedSite, Kinds
<1>2. SharedSite(a).kind = "data_source" /\ SharedSite(a).refs["account"] = a
    BY DEF SharedSite, NewRow, Columns
<1> QED BY <1>1, <1>2

\* What is flushed for the shared data source are rows without a twin; the others are there.
LEMMA SharedSiteIs ==
    ASSUME IInv, NEW ss \in Ids, NEW s \in SharedSites(ss), DOMAIN s.rows \subseteq Ids
    PROVE  /\ Drawing(s.rows) /\ \A i \in DOMAIN s.rows : Twinless(s.rows[i])
           /\ s.site \in Ids /\ s.account \in Ids
           /\ s.account \in DOMAIN s.rows \/ db[s.account] \in Row
<1> DEFINE account == NewRow("account", SharedName(ss), "taiji", "legacy", <<>>)
<1>0. Typed
    BY DEF IInv
<1>1. account \in Row /\ Fits(account) /\ account.kind = "account" /\ account.key = SharedName(ss)
    BY SharedAccountIs
<1> HIDE DEF account
<1>2. CASE SharedAccounts(ss) = {}
    <2>1. s = [rows |-> Beside(Lone(Fresh(1), account), Lone(Fresh(2), SharedSite(Fresh(1)))),
               account |-> Fresh(1), site |-> Fresh(2)]
        BY <1>2 DEF SharedSites, account
    <2>2. DOMAIN s.rows = {Fresh(1), Fresh(2)}
        BY <2>1 DEF Beside, Lone
    <2>3. /\ SharedSite(Fresh(1)) \in Row /\ Fits(SharedSite(Fresh(1)))
          /\ SharedSite(Fresh(1)).kind = "data_source" /\ SharedSite(Fresh(1)).refs["account"] = Fresh(1)
        BY <2>2, OfAccount
    <2>4. Drawing(s.rows) /\ s.rows[Fresh(1)] = account /\ s.rows[Fresh(2)] = SharedSite(Fresh(1))
        BY <1>0, <1>1, <2>1, <2>3, DrawTwo
    <2>5. db[Fresh(1)].kind = None /\ Fresh(1) \in Ids
        BY <2>2, <2>4, DrawnAreNew, NoRowIs
    <2>6. Pointing("data_source", "account", Fresh(1)) = {}
        <3> SUFFICES ASSUME NEW d \in Pointing("data_source", "account", Fresh(1)) PROVE FALSE
            OBVIOUS
        <3>1. d \in Ids /\ db[d].refs["account"] = Fresh(1) /\ Fresh(1) # None
            BY <2>5, DirectoryOK DEF Pointing, Of
        <3>2. db[Fresh(1)].kind = "account"
            BY <1>0, <3>1, RefIs DEF Columns, TableOf
        <3> QED BY <2>5, <3>2, DirectoryOK DEF Kinds
    <2>7. Twinless(account)
        BY <1>1, <1>2 DEF Twinless, SharedAccounts
    <2>8. Twinless(SharedSite(Fresh(1)))
        BY <2>3, <2>6 DEF Twinless
    <2> QED BY <2>1, <2>2, <2>4, <2>7, <2>8
<1>3. CASE SharedAccounts(ss) # {}
    <2>1. PICK a \in SharedAccounts(ss) :
            s \in IF Pointing("data_source", "account", a) = {}
                    THEN {[rows |-> Lone(Fresh(1), SharedSite(a)), account |-> a, site |-> Fresh(1)]}
                    ELSE {[rows |-> Empty, account |-> a, site |-> d] :
                             d \in Pointing("data_source", "account", a)}
        BY <1>3 DEF SharedSites
    <2>2. a \in Of("account")
        BY DEF SharedAccounts, Named
    <2>3. a \in Ids /\ db[a] \in Row
        BY <1>0, <2>2, OfIs DEF Kinds
    <2>4. /\ SharedSite(a) \in Row /\ Fits(SharedSite(a))
          /\ SharedSite(a).kind = "data_source" /\ SharedSite(a).refs["account"] = a
        BY <2>3, OfAccount
    <2>5. CASE /\ Pointing("data_source", "account", a) = {}
               /\ s = [rows |-> Lone(Fresh(1), SharedSite(a)), account |-> a, site |-> Fresh(1)]
        <3>1. DOMAIN s.rows = {Fresh(1)} /\ Drawing(s.rows) /\ s.rows[Fresh(1)] = SharedSite(a)
            BY <1>0, <2>4, <2>5, DrawOne
        <3>2. Twinless(SharedSite(a))
            BY <2>4, <2>5 DEF Twinless
        <3> QED BY <2>3, <2>5, <3>1, <3>2
    <2>6. ASSUME NEW d \in Pointing("data_source", "account", a), s = [rows |-> Empty, account |-> a, site |-> d]
          PROVE  /\ Drawing(s.rows) /\ DOMAIN s.rows = {} /\ s.site \in Ids /\ s.account \in Ids
                 /\ db[s.account] \in Row
        BY <1>0, <2>3, <2>6, DrawNone DEF Pointing, Of
    <2> QED BY <2>1, <2>5, <2>6
<1> QED BY <1>2, <1>3

\* What an import has looked for.
LEMMA ImportLooked ==
    ASSUME NEW api \in {"taiji_from_blob", "taiji_ingest_day"}, NEW after, NEW i,
           Twinless(after[i]) \/ Billed(after, after[i])
    PROVE  OneOf(api, after, i)
BY DEF OneOf

\* The rows that an import begins with: the shared ones and the accounts of the pairs.
LEMMA SharedRowsAre ==
    ASSUME IInv, NEW ss \in Ids, NEW s \in SharedSites(ss), NEW e \in Ids \cup {None}, NEW X \in SUBSET Targets,
           DOMAIN Appending(s.rows, AccountRows(ss, s.site, e, X)) \subseteq Ids
    PROVE  LET rows == Appending(s.rows, AccountRows(ss, s.site, e, X))
           IN  /\ Drawing(rows) /\ \A i \in DOMAIN rows : Twinless(rows[i])
               /\ s.site \in Ids /\ s.account \in Ids
               /\ s.account \in DOMAIN rows \/ db[s.account] \in Row
<1> DEFINE S == AccountRows(ss, s.site, e, X)
           rows == Appending(s.rows, S)
<1>0. Typed
    BY DEF IInv
<1>1. DOMAIN s.rows \subseteq Ids
    <2>1. DOMAIN s.rows \subseteq DOMAIN rows
        BY DEF Appending, Beside
    <2> QED BY <2>1
<1>2. /\ Drawing(s.rows) /\ \A i \in DOMAIN s.rows : Twinless(s.rows[i])
      /\ s.site \in Ids /\ s.account \in Ids
      /\ s.account \in DOMAIN s.rows \/ db[s.account] \in Row
    BY <1>1, SharedSiteIs
<1>3. /\ S \subseteq Row /\ IsFiniteSet(S)
      /\ \A w \in S : Fits(w) /\ Twinless(w)
    BY <1>2, AccountRowsAre
<1> HIDE DEF S
<1>4. /\ Drawing(rows) /\ DOMAIN s.rows \subseteq DOMAIN rows
      /\ \A i \in DOMAIN rows : (i \in DOMAIN s.rows /\ rows[i] = s.rows[i]) \/ rows[i] \in S
    BY <1>0, <1>2, <1>3, AppendingIs
<1> HIDE DEF rows
<1>5. \A i \in DOMAIN rows : Twinless(rows[i])
    BY <1>2, <1>3, <1>4
<1> QED BY <1>2, <1>4, <1>5 DEF rows, S

\* An account for each pair that had none is among them.
LEMMA SharedRowsCover ==
    ASSUME Typed, NEW f, Drawing(f), NEW ss \in Ids, NEW d \in Ids, NEW e \in Ids \cup {None},
           NEW X \in SUBSET Targets, NEW x \in Unknown(ss, d, X)
    PROVE  LET rows == Appending(f, AccountRows(ss, d, e, X))
           IN  \E i \in DOMAIN rows :
                  rows[i].kind = "project" /\ rows[i].key = x /\ rows[i].refs["site"] = d
<1> DEFINE S == AccountRows(ss, d, e, X)
           rows == Appending(f, S)
<1>1. S \subseteq Row /\ IsFiniteSet(S) /\ \A w \in S : Fits(w)
    BY AccountRowsAre
<1>2. PICK w \in S : w.kind = "project" /\ w.key = x /\ w.refs["site"] = d
    BY AccountRowsCover
<1> HIDE DEF S
<1>3. \E i \in DOMAIN rows : rows[i] = w
    BY <1>1, AppendingIs
<1> HIDE DEF rows
<1>4. PICK i \in DOMAIN rows : rows[i] = w
    BY <1>3
<1>5. rows[i].kind = "project" /\ rows[i].key = x /\ rows[i].refs["site"] = d
    BY <1>2, <1>4
<1> QED BY <1>5 DEF rows, S

\* Nor do the imports of Taiji, and they look for what they insert.
LEMMA ImportingKeeps ==
    ASSUME IInv, NEW r \in Requests, Importing(r)
    PROVE  IInv'
<1>0. Typed
    BY DEF IInv
<1>1. ASSUME NEW ss \in Ids, NEW X \in SUBSET Targets, NEW e \in Nullable(Ids), FromBlob(r, ss, e, X)
      PROVE  IInv'
    <2>1. PICK s \in SharedSites(ss) :
            LET rows == Appending(s.rows, AccountRows(ss, s.site, e, X))
            IN  Read(r, "taiji_from_blob", Beside(rows, [a \in {s.account} \ DOMAIN rows |-> db[a]]), {})
        BY <1>1 DEF FromBlob
    <2> DEFINE rows == Appending(s.rows, AccountRows(ss, s.site, e, X))
               kept == [a \in {s.account} \ DOMAIN rows |-> db[a]]
               after == Beside(rows, kept)
    <2>2. Read(r, "taiji_from_blob", after, {})
        BY <2>1
    <2>3. DOMAIN after \subseteq Ids
        BY <2>2 DEF Read
    <2>4. DOMAIN rows \subseteq DOMAIN after
        BY DEF Beside
    <2>5. e \in Ids \cup {None}
        BY DEF Nullable
    <2>6. /\ Drawing(rows) /\ \A i \in DOMAIN rows : Twinless(rows[i])
          /\ s.account \in Ids /\ (s.account \in DOMAIN rows \/ db[s.account] \in Row)
        BY <2>3, <2>4, <2>5, SharedRowsAre
    <2> HIDE DEF rows
    <2>7. kept \in [DOMAIN kept -> Row] /\ DOMAIN kept = {s.account} \ DOMAIN rows
        BY <2>6
    <2>8. /\ after \in [DOMAIN after -> Row] /\ DOMAIN after = DOMAIN rows \cup DOMAIN kept
        BY <2>6, <2>7, RowsTogether DEF Drawing
    <2>9. /\ \A i \in DOMAIN rows : after[i] = rows[i]
          /\ \A i \in DOMAIN after \ DOMAIN rows : after[i] = db[i] /\ db[i] \in Row
        BY <2>6, <2>7, <2>8 DEF Beside
    <2> HIDE DEF kept, after
    <2>10. \A i \in DOMAIN rows : db[i] = NoRow
        BY <2>3, <2>4, <2>6, DrawnAreNew
    <2>11. New(after) = DOMAIN rows
        <3>1. \A i \in DOMAIN after \ DOMAIN rows : db[i] # NoRow
            BY <2>9, RowIs
        <3> QED BY <2>4, <2>10, <3>1 DEF New
    <2>12. ASSUME NEW i \in DOMAIN after
           PROVE  /\ Fits(after[i])
                  /\ db[i] # NoRow => after[i].kind = db[i].kind
                  /\ db[i] = NoRow => OneOf("taiji_from_blob", after, i)
        <3>1. CASE i \in DOMAIN rows
            <4>1. Fits(after[i]) /\ Twinless(after[i])
                BY <2>6, <2>9, <3>1 DEF Drawing
            <4> QED BY <2>10, <3>1, <4>1, ImportLooked
        <3>2. CASE i \notin DOMAIN rows
            <4>1. after[i] = db[i] /\ db[i] \in Row
                BY <2>9, <3>2
            <4>2. Fits(db[i])
                BY <2>3 DEF IInv, Fitting
            <4> QED BY <4>1, <4>2, RowIs
        <3> QED BY <3>1, <3>2
    <2>13. Proper("taiji_from_blob", after)
        BY <2>6, <2>8, <2>11, <2>12 DEF Proper, Drawing
    <2> QED BY <2>2, <2>13, ReadKeeps
<1>2. ASSUME NEW ss \in Ids, NEW X \in SUBSET Targets, IngestDay(r, ss, X) PROVE IInv'
    <2>1. PICK s \in SharedSites(ss) :
            Read(r, "taiji_ingest_day",
                 Appending(Appending(s.rows, AccountRows(ss, s.site, None, X)),
                           {NewRow("billing", x, None, "", [site |-> s.site]) : x \in X}), {})
        BY <1>2 DEF IngestDay
    <2> DEFINE d == s.site
               f == s.rows
               rows == Appending(f, AccountRows(ss, d, None, X))
               billing == {NewRow("billing", x, None, "", [site |-> d]) : x \in X}
               after == Appending(rows, billing)
    <2>2. Read(r, "taiji_ingest_day", after, {})
        BY <2>1
    <2>3. DOMAIN after \subseteq Ids
        BY <2>2 DEF Read
    <2>4. DOMAIN f \subseteq DOMAIN rows /\ DOMAIN rows \subseteq DOMAIN after
        BY DEF Appending, Beside
    <2>5. Drawing(rows) /\ \A i \in DOMAIN rows : Twinless(rows[i])
        BY <2>3, <2>4, SharedRowsAre
    <2>6. Drawing(f) /\ d \in Ids
        BY <2>3, <2>4, SharedSiteIs
    <2> HIDE DEF d, f
    <2>7. ASSUME NEW x \in Unknown(ss, d, X)
           PROVE  \E i \in DOMAIN rows :
                     rows[i].kind = "project" /\ rows[i].key = x /\ rows[i].refs["site"] = d
        BY <1>0, <2>6, SharedRowsCover
    <2>8. /\ billing \in SUBSET Row /\ IsFiniteSet(billing)
          /\ \A w \in billing :
                Fits(w) /\ w.kind = "billing" /\ w.key \in X /\ w.refs["site"] = d
        BY <2>6, BillingRowsAre
    <2> HIDE DEF rows, billing
    <2>9. /\ Drawing(after)
          /\ \A i \in DOMAIN after : (i \in DOMAIN rows /\ after[i] = rows[i]) \/ after[i] \in billing
        BY <1>0, <2>5, <2>8, AppendingIs
    <2>10. \A i \in DOMAIN rows : after[i] = rows[i]
        BY DEF Appending, Beside
    <2> HIDE DEF after
    <2>11. ASSUME NEW i \in DOMAIN after, after[i] \in billing PROVE Billed(after, after[i])
        <3> DEFINE w == after[i]
        <3>1. w.kind = "billing" /\ w.key \in X /\ w.refs["site"] = d
            BY <2>8, <2>11
        <3>2. CASE w.key \in Unknown(ss, d, X)
            <4>1. PICK p \in DOMAIN rows :
                    rows[p].kind = "project" /\ rows[p].key = w.key /\ rows[p].refs["site"] = d
                BY <2>7, <3>2
            <4> QED BY <2>4, <2>10, <3>1, <4>1 DEF Billed
        <3>3. CASE w.key \notin Unknown(ss, d, X)
            <4>1. PICK p \in Named("project", w.key) : <<db[p].refs["source"], db[p].refs["site"]>> = <<ss, d>>
                BY <3>1, <3>3 DEF Unknown
            <4>2. p \in Ids /\ db[p].kind = "project" /\ db[p].key = w.key /\ db[p].refs["site"] = d
                BY <4>1 DEF Named, Of
            <4>3. p \notin DOMAIN after
                <5>1. db[p] # NoRow
                    BY <1>0, <4>2, RowThere, RowIs DEF Kinds
                <5> QED BY <2>3, <2>9, <5>1, DrawnAreNew
            <4> QED BY <3>1, <4>2, <4>3 DEF Billed
        <3> QED BY <3>2, <3>3
    <2>12. \A i \in DOMAIN after : OneOf("taiji_ingest_day", after, i)
        BY <2>5, <2>9, <2>11, ImportLooked
    <2>13. Proper("taiji_ingest_day", after)
        BY <2>3, <2>9, <2>12, DrawingProper
    <2> QED BY <2>2, <2>13, ReadKeeps
<1> QED BY <1>1, <1>2 DEF Importing

-----------------------------------------------------------------------------
(* The onboarding.                                                          *)

\* A finite set in a sequence of its length.
LEMMA SeqLength ==
    ASSUME NEW S, IsFiniteSet(S)
    PROVE  LET s == Seqs!SetToSeq(S) IN Len(s) \in Nat /\ s \in [1..Len(s) -> S]
<1> DEFINE s == Seqs!SetToSeq(S)
<1>1. Cardinality(S) \in Nat /\ s \in [1..Cardinality(S) -> S]
    BY SeqOf
<1> HIDE DEF s
<1>2. Len(s) = Cardinality(S)
    BY <1>1
<1> QED BY <1>1, <1>2 DEF s

\* The halves of the numbers up to twice a number, and the parity of their neighbours.
LEMMA Halves ==
    ASSUME NEW N \in Nat, NEW k \in 1..(2 * N)
    PROVE  /\ ((k - 1) \div 2) + 1 \in 1..N
           /\ (k - 1) % 2 # 0 => k - 1 \in 1..(2 * N) /\ ((k - 1) - 1) % 2 = 0
OBVIOUS

\* A data source and a service account for a subscription.
LEMMA ImportRows ==
    ASSUME NEW a \in Ids, NEW ss \in Ids, NEW d \in Ids, NEW u \in Targets
    PROVE  /\ Site(a, u) \in Row /\ Fits(Site(a, u))
           /\ Site(a, u).kind = "data_source" /\ Site(a, u).refs["account"] = a
           /\ Account(ss, d, u) \in Row /\ Fits(Account(ss, d, u))
           /\ Account(ss, d, u).kind = "project" /\ Account(ss, d, u).key = u
           /\ Account(ss, d, u).refs["site"] = d
<1>1. Site(a, u) \in Row /\ Fits(Site(a, u))
    BY NewRowTyped, StatusIs, GivenOne DEF Site, Kinds
<1>2. Account(ss, d, u) \in Row /\ Fits(Account(ss, d, u))
    BY NewRowTyped, StatusIs, GivenMore DEF Account, Kinds
<1>3. Site(a, u).kind = "data_source" /\ Site(a, u).refs["account"] = a
    BY DEF Site, NewRow, Columns
<1>4. /\ Account(ss, d, u).kind = "project" /\ Account(ss, d, u).key = u
      /\ Account(ss, d, u).refs["site"] = d
    BY DEF Account, NewRow, Columns
<1> QED BY <1>1, <1>2, <1>3, <1>4

\* What a verification writes: the account, and for each subscription that has none under the account
\* a data source of it and a service account.
LEMMA ImportsAre ==
    ASSUME IInv, NEW a \in Ids, db[a] \in Row, db[a].kind = "account", NEW ss \in Ids,
           NEW S \in SUBSET Targets, IsFiniteSet(S), S \cap Imported(a) = {},
           NEW after, after = Imports(a, ss, Seqs!SetToSeq(S)), DOMAIN after \subseteq Ids
    PROVE  Proper("verify", after)
<1> DEFINE s == Seqs!SetToSeq(S)
           N == Len(s)
           u(k) == s[((k - 1) \div 2) + 1]
<1>1. N \in Nat /\ s \in [1..N -> S]
    BY SeqLength
<1>2. after = Imports(a, ss, s)
    OBVIOUS
<1> HIDE DEF s
<1>3. drawn \in Int /\ a \in Int
    BY DEF IInv, Typed, Ids
<1>4. a <= drawn /\ db[a] # NoRow
    BY RowIs DEF IInv, Numbered
<1>5. /\ DOMAIN after = {a} \cup {Fresh(k) : k \in 1 .. 2 * N}
      /\ after = [j \in DOMAIN after |-> after[j]]
    BY <1>2 DEF Imports
<1>6. after[a] = Granted(a)
    BY <1>2, <1>5 DEF Imports
<1>7. ASSUME NEW k \in 1 .. 2 * N
      PROVE  /\ Fresh(k) = drawn + k /\ Fresh(k) \in DOMAIN after /\ Fresh(k) \in Ids /\ db[Fresh(k)] = NoRow
             /\ (k - 1) % 2 = 0 => after[Fresh(k)] = Site(a, u(k))
             /\ (k - 1) % 2 # 0 => after[Fresh(k)] = Account(ss, Fresh(k) - 1, u(k))
    <2>1. Fresh(k) = drawn + k /\ Fresh(k) \in DOMAIN after /\ Fresh(k) \in Ids /\ Fresh(k) > drawn
        BY <1>1, <1>3, <1>5 DEF Fresh
    <2>2. db[Fresh(k)] = NoRow
        BY <1>3, <2>1 DEF IInv, Numbered
    <2>3. Fresh(k) - Fresh(1) = k - 1 /\ Fresh(k) # a
        BY <1>1, <1>3, <1>4 DEF Fresh
    <2>4. after[Fresh(k)] = IF (k - 1) % 2 = 0 THEN Site(a, u(k)) ELSE Account(ss, Fresh(k) - 1, u(k))
        BY <1>2, <1>5, <2>1, <2>3 DEF Imports
    <2> QED BY <2>1, <2>2, <2>4
<1>8. ASSUME NEW k \in 1 .. 2 * N PROVE u(k) \in S /\ u(k) \in Targets
    <2>1. ((k - 1) \div 2) + 1 \in 1..N
        BY <1>1, Halves
    <2> QED BY <1>1, <2>1
<1> HIDE DEF N, u
<1>9. ASSUME NEW k \in 1 .. 2 * N
      PROVE  after[Fresh(k)] \in Row /\ Fits(after[Fresh(k)]) /\ OneOf("verify", after, Fresh(k))
    <2>1. CASE (k - 1) % 2 = 0
        <3>1. after[Fresh(k)] \in Row /\ Fits(after[Fresh(k)]) /\ after[Fresh(k)].kind = "data_source"
            BY <1>7, <1>8, <2>1, ImportRows
        <3> QED BY <3>1 DEF OneOf
    <2>2. CASE (k - 1) % 2 # 0
        <3> DEFINE d == Fresh(k) - 1
                   w == after[Fresh(k)]
        <3>1. k - 1 \in 1 .. 2 * N /\ ((k - 1) - 1) % 2 = 0
            BY <1>1, <2>2, Halves
        <3>2. d = Fresh(k - 1)
            BY <1>1, <1>3 DEF Fresh
        <3>3. d \in DOMAIN after /\ d \in Ids /\ after[d] = Site(a, u(k - 1)) /\ u(k - 1) \in Targets
            BY <1>7, <1>8, <3>1, <3>2
        <3>4. after[d].kind = "data_source" /\ after[d].refs["account"] = a
            BY <3>3, ImportRows
        <3>5. w = Account(ss, d, u(k))
            BY <1>7, <2>2
        <3> HIDE DEF d
        <3>6. w \in Row /\ Fits(w) /\ w.kind = "project" /\ w.key = u(k) /\ w.refs["site"] = d
            BY <1>8, <3>3, <3>5, ImportRows
        <3>7. ASSUME NEW p \in Named("project", u(k)), NEW e \in Of("data_source"), db[p].refs["site"] = e,
                     db[e].refs["account"] = a
              PROVE  FALSE
            <4>1. p \in Of("project") /\ db[p].key = u(k)
                BY DEF Named
            <4>2. e # None
                BY DirectoryOK DEF Of
            <4>3. u(k) \in Imported(a)
                BY <3>7, <4>1, <4>2 DEF Imported
            <4> QED BY <1>8, <4>3
        <3>8. OneOf("verify", after, Fresh(k))
            <4> HIDE DEF w
            <4>1. after[Fresh(k)] = w
                BY DEF w
            <4> QED BY <3>3, <3>4, <3>6, <3>7, <4>1 DEF OneOf
        <3> QED BY <3>6, <3>8
    <2> QED BY <2>1, <2>2
<1>10. Granted(a) \in Row /\ Fits(Granted(a)) /\ Granted(a).kind = "account"
    <2>1. "granted" \in Statuses /\ "granted" \in StatusesOf("account")
        BY StatusIs DEF Kinds
    <2>2. Granted(a) \in Row
        BY <2>1 DEF Granted, Row
    <2>3. Granted(a).kind = "account" /\ Granted(a).status = "granted"
        BY RowIs DEF Granted
    <2> QED BY <2>1, <2>2, <2>3 DEF Fits
<1>11. \A j \in DOMAIN after : j = a \/ \E k \in 1 .. 2 * N : j = Fresh(k)
    BY <1>5
<1>12. after \in [DOMAIN after -> Row]
    BY <1>5, <1>6, <1>9, <1>10, <1>11
<1>13. ASSUME NEW j \in DOMAIN after
       PROVE  /\ Fits(after[j])
              /\ db[j] # NoRow => after[j].kind = db[j].kind
              /\ db[j] = NoRow => OneOf("verify", after, j)
    <2>1. CASE j = a
        BY <1>4, <1>6, <1>10, <2>1
    <2>2. CASE j # a
        <3>1. PICK k \in 1 .. 2 * N : j = Fresh(k)
            BY <1>11, <2>2
        <3> QED BY <1>7, <1>9, <3>1
    <2> QED BY <2>1, <2>2
<1>14. New(after) = drawn+1 .. drawn+2*N
    <2>1. ASSUME NEW j \in New(after) PROVE j \in drawn+1 .. drawn+2*N
        <3>1. PICK k \in 1 .. 2 * N : j = Fresh(k)
            BY <1>4, <1>11 DEF New
        <3> QED BY <1>1, <1>3, <1>7, <3>1
    <2>2. ASSUME NEW j \in drawn+1 .. drawn+2*N PROVE j \in New(after)
        <3>1. j - drawn \in 1 .. 2 * N /\ j = drawn + (j - drawn)
            BY <1>1, <1>3
        <3>2. j = Fresh(j - drawn)
            BY <1>7, <3>1
        <3> QED BY <1>7, <3>1, <3>2 DEF New
    <2> QED BY <2>1, <2>2
<1>15. 2 * N \in Nat
    BY <1>1
<1> QED BY <1>12, <1>13, <1>14, <1>15 DEF Proper

\* A row with another status of its table is a row.
LEMMA StatusSet ==
    ASSUME NEW w \in Row, NEW status \in StatusesOf(w.kind)
    PROVE  LET v == [w EXCEPT !.status = status] IN v \in Row /\ v.kind = w.kind /\ Fits(v)
<1> DEFINE v == [w EXCEPT !.status = status]
<1>1. status \in Statuses
    BY StatusIs, RowIs
<1>2. v \in Row
    BY <1>1 DEF Row
<1>3. v.kind = w.kind /\ v.status = status
    BY RowIs
<1> QED BY <1>2, <1>3 DEF Fits

\* A deletion of invites takes nothing with it.
LEMMA InvitesGo ==
    ASSUME IInv, NEW r \in Requests, NEW api, NEW S \in SUBSET Of("invite"), Remove(r, api, S)
    PROVE  IInv'
<1>1. S \in SUBSET Ids /\ \A i \in S : db[i].kind = "invite"
    BY DEF Of
<1>2. Harmless(db, S)
    BY <1>1, LeafGoes DEF IInv
<1> QED BY <1>1, <1>2, RemoveKeeps

\* An invite that has been consumed is an invite.
LEMMA ConsumedIs ==
    ASSUME Typed, NEW i \in Ids, Open(i), NEW a \in Ids
    PROVE  db[i] \in Row /\ Consumed(i, a) \in Row /\ Consumed(i, a).kind = db[i].kind /\ Fits(Consumed(i, a))
<1>1. db[i] \in Row /\ db[i].kind = "invite"
    BY RowThere DEF Open, Kinds
<1>2. "consumed" \in Statuses /\ "consumed" \in StatusesOf("invite")
    BY StatusIs DEF Kinds
<1> DEFINE refs == [db[i].refs EXCEPT !["account"] = a]
<1>3. refs \in [Columns -> Ids \cup {None}]
    BY <1>1, RowIs
<1>4. Consumed(i, a) = [db[i] EXCEPT !.status = "consumed", !.refs = refs]
    BY <1>1, RowIs DEF Consumed
<1> HIDE DEF refs
<1>5. /\ Consumed(i, a).kind = db[i].kind /\ Consumed(i, a).status = "consumed"
      /\ Consumed(i, a) = [kind |-> db[i].kind, key |-> db[i].key, cloud |-> db[i].cloud,
                           status |-> "consumed", refs |-> refs]
    BY <1>1, <1>4, RowIs
<1>6. Consumed(i, a) \in Row
    BY <1>1, <1>2, <1>3, <1>5, RowIs, RowWith
<1> QED BY <1>1, <1>2, <1>5, <1>6 DEF Fits

\* The callback looks for the account of the tenant before it makes one.
LEMMA CallbackKeeps ==
    ASSUME IInv, NEW r \in Requests, NEW i \in Ids, NEW t \in Tenants, Callback(r, i, t)
    PROVE  IInv'
<1>0. Typed /\ Open(i)
    BY DEF IInv, Callback
<1>1. CASE \E a \in AccountsOf(t) : Rewrite(r, "callback", i, Consumed(i, a))
    <2>1. PICK a \in AccountsOf(t) : Rewrite(r, "callback", i, Consumed(i, a))
        BY <1>1
    <2>2. a \in Ids
        BY DEF AccountsOf, Of
    <2> QED BY <1>0, <2>1, <2>2, ConsumedIs, RewriteKeeps
<1> DEFINE account == NewRow("account", t, "azure", "granted", <<>>)
           after == [j \in {i, Fresh(1)} |-> IF j = i THEN Consumed(i, Fresh(1)) ELSE account]
<1>2. CASE AccountsOf(t) = {} /\ Read(r, "callback", after, {})
    <2>1. Fresh(1) \in Ids /\ Fresh(1) = drawn + 1 /\ drawn \in Int
        BY <1>0, <1>2 DEF Read, Fresh, Typed
    <2>2. /\ db[i] \in Row /\ Consumed(i, Fresh(1)) \in Row
          /\ Consumed(i, Fresh(1)).kind = db[i].kind /\ Fits(Consumed(i, Fresh(1)))
        BY <1>0, <2>1, ConsumedIs
    <2>3. db[i] # NoRow /\ i <= drawn /\ i \in Int
        BY <2>2, RowIs DEF IInv, Numbered, Ids
    <2>4. db[Fresh(1)] = NoRow /\ i # Fresh(1)
        BY <2>1, <2>3 DEF IInv, Numbered
    <2>5. account \in Row /\ Fits(account)
        BY NewRowTyped, StatusIs, GivenNone, DirectoryOK DEF Kinds
    <2>6. account.key = t /\ account.kind = "account"
        BY DEF NewRow
    <2> HIDE DEF account
    <2>7. /\ DOMAIN after = {i, Fresh(1)} /\ after[i] = Consumed(i, Fresh(1)) /\ after[Fresh(1)] = account
          /\ after \in [DOMAIN after -> Row]
        BY <2>2, <2>4, <2>5
    <2>8. Read(r, "callback", after, {})
        BY <1>2 DEF account
    <2> HIDE DEF after
    <2>9. OneOf("callback", after, Fresh(1))
        <3>1. \A a \in Of("account") : Multi(a) /\ db[a].cloud = "azure" => db[a].key # t
            BY <1>2 DEF AccountsOf
        <3> QED BY <2>6, <2>7, <3>1 DEF OneOf
    <2>10. New(after) = drawn+1 .. drawn+1
        BY <2>1, <2>3, <2>4, <2>7 DEF New
    <2>11. Proper("callback", after)
        <3>1. 1 \in Nat /\ New(after) = drawn+1 .. drawn+1
            BY <2>10
        <3>2. \A j \in DOMAIN after : /\ Fits(after[j])
                                      /\ db[j] # NoRow => after[j].kind = db[j].kind
                                      /\ db[j] = NoRow => OneOf("callback", after, j)
            BY <2>2, <2>3, <2>4, <2>5, <2>7, <2>9
        <3> QED BY <2>7, <3>1, <3>2 DEF Proper
    <2> QED BY <2>8, <2>11, ReadKeeps
<1> QED BY <1>1, <1>2 DEF Callback

\* An account with a tenant, as an administrator verifies it.
LEMMA VerifiableIs ==
    ASSUME Typed, NEW a \in Ids, Verifiable(a)
    PROVE  db[a] \in Row /\ db[a].kind = "account"
BY RowThere DEF Verifiable, Multi, Kinds

\* Of the onboarding only invites are deleted, and it looks for what it inserts.
LEMMA ConsentingKeeps ==
    ASSUME IInv, NEW r \in Requests, Consenting(r)
    PROVE  IInv'
<1>0. Typed
    BY DEF IInv
<1>1. ASSUME NEW ss \in Nullable(Of("source")), Start(r, ss) PROVE IInv'
    <2> DEFINE row == NewRow("invite", None, None, "pending", [source |-> ss])
    <2>1. ss \in Ids \cup {None}
        BY DEF Nullable, Of
    <2>2. row \in Row /\ Fits(row)
        BY <2>1, NewRowTyped, StatusIs, GivenOne DEF Kinds
    <2>3. Insert(r, "start", row)
        BY <1>1 DEF Start
    <2> HIDE DEF row
    <2> QED BY <2>2, <2>3, InsertKeeps DEF Looking
<1>2. ASSUME NEW i \in Ids, db[i].kind = "invite", NEW status \in {"expired", "failed"}
      PROVE  LET row == [db[i] EXCEPT !.status = status]
             IN  db[i] \in Row /\ row \in Row /\ row.kind = db[i].kind /\ Fits(row)
    <2>1. db[i] \in Row /\ status \in StatusesOf(db[i].kind)
        BY <1>0, <1>2, RowThere, StatusIs DEF Kinds
    <2> QED BY <2>1, StatusSet
<1>3. ASSUME NEW i \in Ids, Revoke(r, i) PROVE IInv'
    BY <1>2, <1>3, RewriteKeeps DEF Revoke
<1>4. ASSUME NEW i \in Ids, DeleteInvite(r, i) PROVE IInv'
    <2>1. {i} \in SUBSET Of("invite")
        BY <1>4 DEF DeleteInvite, Of
    <2> QED BY <1>4, <2>1, InvitesGo DEF DeleteInvite
<1>5. ASSUME NEW statuses, DeleteInvites(r, statuses) PROVE IInv'
    <2> DEFINE S == {i \in Of("invite") : db[i].status \in statuses}
    <2>1. S \in SUBSET Of("invite") /\ Remove(r, "delete_invites", S)
        BY <1>5 DEF DeleteInvites
    <2> HIDE DEF S
    <2> QED BY <2>1, InvitesGo
<1>6. ASSUME NEW i \in Ids, NEW status \in {"expired", "failed"}, Refuse(r, i, status) PROVE IInv'
    BY <1>2, <1>6, RewriteKeeps DEF Refuse, Open
<1>7. ASSUME NEW t \in Tenants, Register(r, t) PROVE IInv'
    <2> DEFINE row == NewRow("account", t, "azure", "pending", <<>>)
    <2>1. row \in Row /\ Fits(row)
        BY NewRowTyped, StatusIs, GivenNone, DirectoryOK DEF Kinds
    <2>2. Insert(r, "register", row)
        BY <1>7 DEF Register
    <2> HIDE DEF row
    <2> QED BY <2>1, <2>2, InsertKeeps DEF Looking
<1>8. ASSUME NEW a \in Ids, Verifiable(a), NEW status \in {"pending", "granted"}
      PROVE  LET row == [db[a] EXCEPT !.status = status]
             IN  db[a] \in Row /\ row \in Row /\ row.kind = db[a].kind /\ Fits(row)
    <2>1. db[a] \in Row /\ status \in StatusesOf(db[a].kind)
        BY <1>0, <1>8, VerifiableIs, StatusIs
    <2> QED BY <2>1, StatusSet
<1>9. ASSUME NEW a \in Ids, VerifyFails(r, a) PROVE IInv'
    BY <1>8, <1>9, RewriteKeeps DEF VerifyFails
<1>10. ASSUME NEW a \in Ids, NEW subs \in SUBSET Targets, VerifyOnly(r, a, subs) PROVE IInv'
    BY <1>8, <1>10, RewriteKeeps DEF VerifyOnly, Granted
<1>11. ASSUME NEW a \in Ids, NEW subs \in SUBSET Targets, Verify(r, a, subs) PROVE IInv'
    <2>1. PICK i \in InvitesOf(a) :
            /\ db[i].refs["source"] # None
            /\ Read(r, "verify", Imports(a, db[i].refs["source"], Seqs!SetToSeq(Missing(a, subs))), {})
        BY <1>11 DEF Verify
    <2> DEFINE ss == db[i].refs["source"]
               S == Missing(a, subs)
               after == Imports(a, ss, Seqs!SetToSeq(S))
    <2>2. ss \in Ids
        BY <1>0, <2>1, RefIs DEF InvitesOf, Pointing, Of, Columns
    <2>3. S \in SUBSET Targets /\ IsFiniteSet(S) /\ S \cap Imported(a) = {}
        BY FS_Subset, DirectoryOK DEF Missing
    <2>4. db[a] \in Row /\ db[a].kind = "account"
        BY <1>0, <1>11, VerifiableIs DEF Verify
    <2>5. Read(r, "verify", after, {}) /\ DOMAIN after \subseteq Ids
        BY <2>1 DEF Read
    <2>6. after = Imports(a, ss, Seqs!SetToSeq(S))
        OBVIOUS
    <2> HIDE DEF ss, S, after
    <2>7. Proper("verify", after)
        BY <2>2, <2>3, <2>4, <2>5, <2>6, ImportsAre
    <2> QED BY <2>5, <2>7, ReadKeeps
<1> QED BY <1>1, <1>3, <1>4, <1>5, <1>6, <1>7, <1>9, <1>10, <1>11, CallbackKeeps DEF Consenting

-----------------------------------------------------------------------------
(* The theorems.                                                            *)

\* The invariant is inductive.
LEMMA NextKeeps == IInv /\ [Next]_vars => IInv'
<1> SUFFICES ASSUME IInv, [Next]_vars PROVE IInv'
    OBVIOUS
<1>1. CASE Next
    BY <1>1, SupplyingKeeps, CollectingKeeps, UsingKeeps, ImportingKeeps, ConsentingKeeps,
       CommitKeeps, RollbackKeeps DEF Next
<1>2. CASE UNCHANGED vars
    <2>1. db' = db /\ drawn' = drawn /\ job' = job /\ alone' = alone /\ left' = left
        BY <1>2 DEF vars
    <2>2. Typed'
        BY <2>1 DEF IInv, Typed, Ids
    <2>3. Numbered'
        BY <2>1 DEF IInv, Numbered, Ids
    <2>4. Fitting'
        BY <2>1 DEF IInv, Fitting, Ids
    <2>5. Spares'
        BY <2>1 DEF IInv, Spares
    <2>6. Looked'
        BY <2>1, OneOfStays DEF IInv, Looked
    <2> QED BY <2>2, <2>3, <2>4, <2>5, <2>6 DEF IInv
<1> QED BY <1>1, <1>2

\* What a request reads commits nothing.
Reads(r) == \E api, after, gone : Read(r, api, after, gone)

\* A request that reads takes no commit.
LEMMA ReadsOnly ==
    ASSUME NEW r, Reads(r)
    PROVE  left' = left
BY DEF Reads, Read

\* An insertion is read first,
LEMMA InsertReads == ASSUME NEW r, NEW api, NEW row, Insert(r, api, row) PROVE Reads(r)
BY DEF Insert, Reads

\* a rewriting is,
LEMMA RewriteReads == ASSUME NEW r, NEW api, NEW i, NEW row, Rewrite(r, api, i, row) PROVE Reads(r)
BY DEF Rewrite, Reads

\* and a deletion.
LEMMA RemoveReads == ASSUME NEW r, NEW api, NEW S, Remove(r, api, S) PROVE Reads(r)
BY DEF Remove, Reads

\* Every request but a commit or a rollback reads.
LEMMA OnlyReads ==
    ASSUME NEW r \in Requests,
           Supplying(r) \/ Collecting(r) \/ Using(r) \/ Importing(r) \/ Consenting(r)
    PROVE  Reads(r)
<1>1. CASE Supplying(r)
    BY <1>1, InsertReads, RewriteReads, RemoveReads DEF Supplying, CreateSupplier, CreateCategory,
       UpdateSupplier, CreateEntity, UpdateEntity, UpdateCategory, CreateSource, DeleteSupplier,
       DeleteSource, DeleteEntity, DeleteCategory
<1>2. CASE Collecting(r)
    BY <1>2, InsertReads, RewriteReads, RemoveReads DEF Collecting, CreateAccount, UpdateAccount,
       CreateDataSource, CreateGcpView, UpdateDataSource, DeleteAccount, DeleteDataSource
<1>3. CASE Using(r)
    BY <1>3, InsertReads, RewriteReads DEF Using, Bind, Collect, Bill, Discover, DiscoverNothing, Reads
<1>4. CASE Importing(r)
    BY <1>4 DEF Importing, IngestDay, FromBlob, Reads
<1>5. CASE Consenting(r)
    BY <1>5, InsertReads, RewriteReads, RemoveReads DEF Consenting, Start, Revoke, DeleteInvite,
       Refuse, Callback, DeleteInvites, Register, VerifyFails, VerifyOnly, Verify, Reads
<1> QED BY <1>1, <1>2, <1>3, <1>4, <1>5

\* The only step that commits a request is its own.
LEMMA CommitsItself ==
    ASSUME IInv, [Next]_vars, NEW r \in Requests, Committed(r)
    PROVE  Commit(r)
<1>1. left \in Nat
    BY DEF IInv, Typed
<1>2. left' # left
    BY <1>1 DEF Committed
<1>3. ASSUME NEW q \in Requests,
             Supplying(q) \/ Collecting(q) \/ Using(q) \/ Importing(q) \/ Consenting(q)
      PROVE  FALSE
    BY <1>2, <1>3, OnlyReads, ReadsOnly DEF Reads
<1>4. ASSUME NEW q \in Requests, Rollback(q) PROVE FALSE
    BY <1>2, <1>4 DEF Rollback
<1>5. PICK q \in Requests : Commit(q)
    BY <1>2, <1>3, <1>4 DEF Next, vars
<1>6. job' = [job EXCEPT ![q] = Idle] /\ DOMAIN job = Requests
    BY <1>5, CommitIs DEF IInv, Typed
<1>7. q = r
    BY <1>6 DEF Committed
<1> QED BY <1>5, <1>7

(* A deletion that nobody overlaps takes nothing from anybody, whatever the tables were   *)
(* to start with and whoever else is at work: the counts of suppliers.py:163, 243 and 477  *)
(* and of data_sources.py:253 cover what the cascades and the ORM's NULLs would reach.      *)
THEOREM DeletionsCutNothing == Spec => NothingIsCut
<1>1. IInv /\ [Next]_vars =>
        [\A r \in Requests : Committed(r) /\ r \in alone /\ job[r].gone # {} =>
            \A i \in Ids \ job[r].gone : db[i].kind \in Kept /\ Homed(i) => db'[i] = db[i]]_vars
    <2> SUFFICES ASSUME IInv, [Next]_vars, NEW r \in Requests, Committed(r), r \in alone, job[r].gone # {},
                        NEW i \in Ids \ job[r].gone, db[i].kind \in Kept, Homed(i)
                 PROVE  db'[i] = db[i]
        OBVIOUS
    <2>1. Commit(r)
        BY CommitsItself
    <2> QED BY <2>1, DeletionSpares
<1>2. Spec => []IInv
    BY InitIInv, NextKeeps, PTL DEF Spec
<1> QED BY <1>1, <1>2, PTL DEF Spec, NothingIsCut

(* The rows stay rows of their tables and the ids that the sequences draw stay within      *)
(* bounds, whoever is at work: a commit writes over rows that others have changed, moved    *)
(* their foreign keys of or taken away since it read them, a rollback gives ids back.       *)
THEOREM DirectoryTypes == Spec => []TypeOK
<1>1. IInv => TypeOK
    <2> SUFFICES ASSUME IInv PROVE TypeOK
        OBVIOUS
    <2>1. \A r \in Requests : JobOK(job[r])
        BY DEF IInv, Typed, Pending, JobOK
    <2> QED BY <2>1 DEF IInv, Typed, Fitting, TypeOK
<1>2. Spec => []IInv
    BY InitIInv, NextKeeps, PTL DEF Spec
<1> QED BY <1>1, <1>2, PTL

\* Nothing goes with no rows.
LEMMA DoomedNone ==
    ASSUME NEW d
    PROVE  Doomed(d, {}) = {}
<1>1. Below(d, {}) = {}
    BY DEF Below
<1> QED BY <1>1 DEF Doomed

\* The commit of a request that nobody has overlapped writes what the request has read for.
LEMMA AloneCommit ==
    ASSUME IInv, NEW r \in Requests, Commit(r), r \in alone, DOMAIN job[r].after # {}, NEW i \in Ids
    PROVE  db'[i] = IF i \in DOMAIN job[r].after /\ ~Conflicting(job[r].after[i])
                      THEN job[r].after[i] ELSE db[i]
<1> DEFINE after == job[r].after
<1> USE DEF IInv
<1>1. job[r].gone = {}
    BY DEF Typed, Pending
<1>2. db' = Deleted(Merged(r), {}) /\ Finds(job[r])
    BY <1>1, CommitIs, DoomedNone
<1>3. Merged(r)[i] = IF i \in DOMAIN after /\ ~Conflicting(after[i]) THEN after[i] ELSE db[i]
    <2>1. CASE i \in DOMAIN after /\ ~Conflicting(after[i])
        <3>1. Merged(r)[i] = Written(db[i], job[r].before[i], after[i])
            BY <2>1 DEF Merged
        <3>2. job[r].before[i] = db[i]
            BY <2>1 DEF Looked
        <3>3. after[i] \in Row /\ db[i] \in Row \cup {NoRow}
            BY <2>1 DEF Typed, Pending
        <3>4. db[i] # NoRow => after[i].kind = db[i].kind
            BY <2>1, <3>2 DEF Fitting
        <3> HIDE DEF after
        <3>5. CASE db[i] = NoRow
            BY <2>1, <3>1, <3>2, <3>5 DEF Written
        <3>6. CASE db[i] # NoRow
            BY <2>1, <3>1, <3>2, <3>3, <3>4, <3>6, WrittenIs
        <3> QED BY <3>5, <3>6
    <2>2. CASE ~(i \in DOMAIN after /\ ~Conflicting(after[i]))
        BY <2>2 DEF Merged
    <2> QED BY <2>1, <2>2
<1>4. Merged(r) \in [Ids -> Row \cup {NoRow}]
    <2>1. \A j \in Ids : Merged(r)[j] \in Row \cup {NoRow}
        BY <1>2, MergedIs
    <2>2. DOMAIN Merged(r) = Ids /\ Merged(r) = [j \in Ids |-> Merged(r)[j]]
        BY DEF Merged
    <2> QED BY <2>1, <2>2
<1>5. db'[i] = Merged(r)[i]
    BY <1>2, <1>4, DeletedIs
<1> QED BY <1>3, <1>5

\* What such a commit inserts has been looked for.
LEMMA InsertedIs ==
    ASSUME IInv, NEW r \in Requests, Commit(r), r \in alone, NEW i \in Ids, Inserted(i)
    PROVE  /\ i \in DOMAIN job[r].after /\ db'[i] = job[r].after[i] /\ OneOf(job[r].api, job[r].after, i)
           /\ \A j \in DOMAIN job[r].after :
                 job[r].after[j].kind # "billing" => j \in Ids /\ db'[j] = job[r].after[j]
           /\ \A j \in Ids \ DOMAIN job[r].after : db'[j] = db[j]
<1>1. db[i] = NoRow /\ db'[i] # NoRow
    BY DEF Inserted, Exists
<1>2. i \in DOMAIN job[r].after
    BY <1>1, CommittedIs DEF Vain
<1>3. db'[i] = job[r].after[i]
    BY <1>1, <1>2, AloneCommit
<1>4. OneOf(job[r].api, job[r].after, i)
    BY <1>1, <1>2 DEF IInv, Looked
<1>5. ASSUME NEW j \in DOMAIN job[r].after, job[r].after[j].kind # "billing"
      PROVE  j \in Ids /\ db'[j] = job[r].after[j]
    <2>1. j \in Ids
        BY DEF IInv, Typed, Pending
    <2>2. ~Conflicting(job[r].after[j])
        BY <1>5 DEF Conflicting
    <2> QED BY <1>2, <2>1, <2>2, AloneCommit
<1>6. ASSUME NEW j \in Ids \ DOMAIN job[r].after PROVE db'[j] = db[j]
    BY <1>2, AloneCommit
<1> QED BY <1>2, <1>3, <1>4, <1>5, <1>6

\* An import of Taiji that nobody has overlapped inserts no twin, and bills what it can.
LEMMA SharedIsOne ==
    ASSUME IInv, NEW r \in Requests, Commit(r), r \in alone, NEW i \in Ids, Inserted(i),
           job[r].api \in {"taiji_from_blob", "taiji_ingest_day"}
    PROVE  OneOfShared(i)
<1> DEFINE after == job[r].after
           w == after[i]
<1>1. /\ i \in DOMAIN after /\ db'[i] = w /\ OneOf(job[r].api, after, i)
      /\ \A j \in DOMAIN after : after[j].kind # "billing" => j \in Ids /\ db'[j] = after[j]
      /\ \A j \in Ids \ DOMAIN after : db'[j] = db[j]
    BY InsertedIs
<1>2. Twinless(w) \/ Billed(after, w)
    BY <1>1 DEF OneOf
<1> HIDE DEF after, w
<1>3. CASE Twinless(w)
    BY <1>1, <1>3 DEF Twinless, OneOfShared
<1>4. CASE Billed(after, w)
    <2>1. w.kind = "billing"
        BY <1>4 DEF Billed
    <2>2. \E p \in Ids : db'[p].kind = "project" /\ db'[p].key = w.key /\ db'[p].refs["site"] = w.refs["site"]
        <3>1. CASE \E p \in DOMAIN after : after[p].kind = "project" /\ after[p].key = w.key
                                              /\ after[p].refs["site"] = w.refs["site"]
            <4>1. PICK p \in DOMAIN after : after[p].kind = "project" /\ after[p].key = w.key
                                              /\ after[p].refs["site"] = w.refs["site"]
                BY <3>1
            <4>2. p \in Ids /\ db'[p] = after[p]
                BY <1>1, <4>1
            <4> QED BY <4>1, <4>2
        <3>2. CASE \E p \in Ids \ DOMAIN after : db[p].kind = "project" /\ db[p].key = w.key
                                                    /\ db[p].refs["site"] = w.refs["site"]
            <4>1. PICK p \in Ids \ DOMAIN after : db[p].kind = "project" /\ db[p].key = w.key
                                                    /\ db[p].refs["site"] = w.refs["site"]
                BY <3>2
            <4>2. p \in Ids /\ db'[p] = db[p]
                BY <1>1, <4>1
            <4> QED BY <4>1, <4>2
        <3> QED BY <1>4, <3>1, <3>2 DEF Billed
    <2> QED BY <1>1, <2>1, <2>2 DEF OneOfShared
<1> QED BY <1>2, <1>3, <1>4

(* What a request looks for before it inserts, it does not insert a second time, if nobody  *)
(* overlaps it, whatever others have committed before it read: no second supplier of a name,  *)
(* view of an account, account of a tenant, service account of a subscription or of a pair,   *)
(* no second shared account or data source of a supply source (suppliers.py:86,                *)
(* data_sources.py:187, azure_consent.py:348, 446, service_accounts.py:1316, 1363, 1539).       *)
THEOREM NoTwins == Spec => OneOfEach
<1> DEFINE Once(r, i) ==
             CASE job[r].api \in {"create_supplier", "discover"} /\ db'[i].kind = "supplier"
                    -> Named("supplier", db'[i].key) = {}
               [] job[r].api = "create_gcp_view"
                    -> \A d \in Pointing("data_source", "account", db'[i].refs["account"]) :
                          db[d].key # db'[i].key
               [] job[r].api = "callback"
                    -> \A a \in Of("account") : Multi(a) /\ db[a].cloud = "azure"
                          => db[a].key # db'[i].key
               [] job[r].api = "verify" /\ db'[i].kind = "project"
                    -> \A p \in Named("project", db'[i].key) :
                          \A d \in Of("data_source") : db[p].refs["site"] = d =>
                             db[d].refs["account"] # db'[db'[i].refs["site"]].refs["account"]
               [] job[r].api \in {"taiji_from_blob", "taiji_ingest_day"} -> OneOfShared(i)
               [] OTHER -> TRUE
<1>1. ASSUME IInv, [Next]_vars, NEW r \in Requests, Committed(r), r \in alone, NEW i \in Ids, Inserted(i)
      PROVE  Once(r, i)
    <2> DEFINE after == job[r].after
               api == job[r].api
               w == after[i]
    <2>1. Commit(r)
        BY <1>1, CommitsItself
    <2>2. /\ i \in DOMAIN after /\ db'[i] = w /\ OneOf(api, after, i)
          /\ \A j \in DOMAIN after : after[j].kind # "billing" => j \in Ids /\ db'[j] = after[j]
        BY <1>1, <2>1, InsertedIs
    <2>3. api \in {"taiji_from_blob", "taiji_ingest_day"} => OneOfShared(i)
        BY <1>1, <2>1, SharedIsOne
    <2> HIDE DEF after, api
    <2>4. api = "verify" /\ w.kind = "project" =>
             \A p \in Named("project", w.key) : \A d \in Of("data_source") :
                db[p].refs["site"] = d => db[d].refs["account"] # db'[w.refs["site"]].refs["account"]
        <3> SUFFICES ASSUME api = "verify" /\ w.kind = "project"
                     PROVE  \A p \in Named("project", w.key) : \A d \in Of("data_source") :
                               db[p].refs["site"] = d => db[d].refs["account"] # db'[w.refs["site"]].refs["account"]
            OBVIOUS
        <3>1. /\ w.refs["site"] \in DOMAIN after /\ after[w.refs["site"]].kind = "data_source"
              /\ \A p \in Named("project", w.key) : \A d \in Of("data_source") :
                    db[p].refs["site"] = d => db[d].refs["account"] # after[w.refs["site"]].refs["account"]
            BY <2>2 DEF OneOf
        <3>2. db'[w.refs["site"]] = after[w.refs["site"]]
            BY <2>2, <3>1
        <3> QED BY <3>1, <3>2
    <2>5. CASE api \in {"create_supplier", "discover"}
        BY <2>2, <2>5 DEF OneOf, api
    <2>6. CASE api = "create_gcp_view"
        BY <2>2, <2>6 DEF OneOf, api
    <2>7. CASE api = "callback"
        BY <2>2, <2>7 DEF OneOf, api
    <2>8. CASE api = "verify"
        BY <2>2, <2>4, <2>8 DEF api
    <2>9. CASE api \in {"taiji_from_blob", "taiji_ingest_day"}
        BY <2>3, <2>9 DEF api
    <2>10. CASE api \notin Looking
        BY <2>10 DEF Looking, api
    <2> QED BY <2>5, <2>6, <2>7, <2>8, <2>9, <2>10 DEF Looking
<1>2. IInv /\ [Next]_vars =>
        [\A r \in Requests : Committed(r) /\ r \in alone => \A i \in Ids : Inserted(i) => Once(r, i)]_vars
    BY <1>1
<1>3. Spec => []IInv
    BY InitIInv, NextKeeps, PTL DEF Spec
<1> QED BY <1>2, <1>3, PTL DEF Spec, OneOfEach

-----------------------------------------------------------------------------
(* AzureDeploy, for any items, requests, places and retries: what the document *)
(* of a deployment says is true.                                               *)

\* A document whose counters agree with its items, and what it says was made was.
Good(d, made) ==
    /\ d \in Doc
    /\ d.succeeded = Cardinality(InState(d, "succeeded"))
    /\ d.failed = Cardinality(InState(d, "failed"))
    /\ InState(d, "succeeded") \subseteq made

\* Where a coroutine is says how its item is marked in the copy of the mine.
Marks(mine) ==
    \A i \in Items :
        /\ mine.hand[i] = "waiting" => mine.copy.items[i] = "pending"
        /\ mine.hand[i] \in {"begun", "creating"} => mine.copy.items[i] = "deploying"
        /\ mine.hand[i] = "ended" => mine.copy.items[i] \in {"succeeded", "failed"}

\* What a mine will write is good, and it has items in hand only while it runs.
GoodJob(mine, made) ==
    /\ mine.pc \in {"save_start", "save_retry", "run"} => Good(mine.copy, made)
    /\ mine.pc = "run" => Marks(mine)
    /\ mine.pc = "save_token" => mine.copy = NoDoc
    /\ mine.pc # "run" => \A i \in Items : mine.hand[i] = "none"

\* Every copy and the document are good, at any time and whatever overlaps.
Truth ==
    /\ azure \subseteq Items
    /\ token \in BOOLEAN /\ orderly \in BOOLEAN
    /\ doc # NoDoc => Good(doc, azure)
    /\ jobs \in [Jobs -> Job]
    /\ \A j \in Jobs : GoodJob(jobs[j], azure)

-----------------------------------------------------------------------------
(* Documents.                                                              *)

\* The items of a status are finitely many.
LEMMA Finite == \A d, s : IsFiniteSet(InState(d, s)) /\ Cardinality(InState(d, s)) \in Nat
<1> SUFFICES ASSUME NEW d, NEW s
             PROVE  IsFiniteSet(InState(d, s)) /\ Cardinality(InState(d, s)) \in Nat
  OBVIOUS
<1>1. InState(d, s) \subseteq Items
  BY DEF InState
<1>2. IsFiniteSet(InState(d, s))
  BY <1>1, DeployOK, FS_Subset
<1> QED BY <1>2, FS_CardinalityType

\* More deployments make no document worse.
LEMMA GoodStays ==
  ASSUME NEW d, NEW made, NEW more, made \subseteq more, Good(d, made)
  PROVE  Good(d, more)
BY DEF Good

\* start_deployment writes a good document.
LEMMA FreshIsGood == \A made : Good(FreshDoc, made)
<1> SUFFICES ASSUME NEW made PROVE Good(FreshDoc, made)
  OBVIOUS
<1>1. InState(FreshDoc, "succeeded") = {} /\ InState(FreshDoc, "failed") = {}
  BY DEF InState, FreshDoc
<1>2. FreshDoc \in Doc
  BY DEF FreshDoc, Doc, ItemStatus
<1> QED BY <1>1, <1>2, FS_EmptySet DEF Good, FreshDoc

\* retry_failed resets the counter of the items it puts back.
LEMMA RetriedIsGood ==
  ASSUME NEW d, NEW made, Good(d, made)
  PROVE  Good(Retried(d), made)
<1>1. Retried(d) \in Doc
  BY DEF Good, Retried, Doc, ItemStatus
<1>2. InState(Retried(d), "succeeded") = InState(d, "succeeded")
  BY DEF Good, Retried, Doc, ItemStatus, InState
<1>3. InState(Retried(d), "failed") = {}
  BY DEF Good, Retried, Doc, ItemStatus, InState
<1>4. Retried(d).succeeded = d.succeeded /\ Retried(d).failed = 0
  BY DEF Good, Retried, Doc
<1> QED BY <1>1, <1>2, <1>3, <1>4, FS_EmptySet DEF Good

\* An item marked: still a document, and this is what changed of it.
LEMMA MarkedParts ==
  ASSUME NEW d \in Doc, NEW i \in Items, NEW s \in ItemStatus
  PROVE  /\ Marked(d, i, s) \in Doc
         /\ Marked(d, i, s).status = d.status
         /\ Marked(d, i, s).items = [d.items EXCEPT ![i] = s]
         /\ Marked(d, i, s).succeeded = IF s = "succeeded" THEN d.succeeded + 1 ELSE d.succeeded
         /\ Marked(d, i, s).failed = IF s = "failed" THEN d.failed + 1 ELSE d.failed
<1>1. /\ d.items \in [Items -> ItemStatus]
      /\ d.succeeded \in Nat /\ d.failed \in Nat /\ d.status \in {"running", "completed"}
  BY DEF Doc
<1> SUFFICES ASSUME NEW e, e = Marked(d, i, s)
             PROVE  /\ e \in Doc
                    /\ e.status = d.status /\ e.items = [d.items EXCEPT ![i] = s]
                    /\ e.succeeded = IF s = "succeeded" THEN d.succeeded + 1 ELSE d.succeeded
                    /\ e.failed = IF s = "failed" THEN d.failed + 1 ELSE d.failed
  OBVIOUS
<1>2. e = [status |-> e.status, succeeded |-> e.succeeded, failed |-> e.failed, items |-> e.items]
  BY DEF Marked, Doc
<1>3. /\ e.status = d.status /\ e.items = [d.items EXCEPT ![i] = s]
      /\ e.succeeded = IF s = "succeeded" THEN d.succeeded + 1 ELSE d.succeeded
      /\ e.failed = IF s = "failed" THEN d.failed + 1 ELSE d.failed
  BY DEF Marked, Doc
<1>4. e.items \in [Items -> ItemStatus] /\ e.succeeded \in Nat /\ e.failed \in Nat
  BY <1>1, <1>3
<1>5. e \in Doc
  BY <1>1, <1>2, <1>3, <1>4 DEF Doc
<1> QED BY <1>3, <1>5

\* An item marked the way deploy_one goes: begun, then ended one way or the other.
LEMMA MarkedIsGood ==
  ASSUME NEW d, NEW made, NEW i \in Items, NEW s, Good(d, made),
         \/ s = "deploying" /\ d.items[i] = "pending"
         \/ s \in {"succeeded", "failed"} /\ d.items[i] = "deploying"
  PROVE  Good(Marked(d, i, s), IF s = "succeeded" THEN made \cup {i} ELSE made)
<1> DEFINE e == Marked(d, i, s)
<1>1. d \in Doc /\ d.items \in [Items -> ItemStatus] /\ s \in ItemStatus
  BY DEF Good, Doc, ItemStatus
<1>2. /\ e \in Doc /\ e.items = [d.items EXCEPT ![i] = s]
      /\ e.succeeded = IF s = "succeeded" THEN d.succeeded + 1 ELSE d.succeeded
      /\ e.failed = IF s = "failed" THEN d.failed + 1 ELSE d.failed
  BY <1>1, MarkedParts
<1> HIDE DEF e
<1>3. i \notin InState(d, "succeeded") /\ i \notin InState(d, "failed")
  BY <1>1 DEF InState
<1>4. \A t \in {"succeeded", "failed"} :
          InState(e, t) = IF t = s THEN InState(d, t) \cup {i} ELSE InState(d, t)
  BY <1>1, <1>2 DEF InState
<1>5. \A t \in {"succeeded", "failed"} :
          Cardinality(InState(e, t)) =
              IF t = s THEN Cardinality(InState(d, t)) + 1 ELSE Cardinality(InState(d, t))
  BY <1>3, <1>4, Finite, FS_AddElement
<1>6. e.succeeded = Cardinality(InState(e, "succeeded"))
  BY <1>2, <1>5 DEF Good
<1>7. e.failed = Cardinality(InState(e, "failed"))
  BY <1>2, <1>5 DEF Good
<1>8. InState(e, "succeeded") \subseteq IF s = "succeeded" THEN made \cup {i} ELSE made
  BY <1>4 DEF Good
<1> QED BY <1>2, <1>6, <1>7, <1>8 DEF Good, e

\* The status of the task is not part of the count.
LEMMA CompletedIsGood ==
  ASSUME NEW d, NEW made, Good(d, made)
  PROVE  Good([d EXCEPT !.status = "completed"], made)
<1> DEFINE e == [d EXCEPT !.status = "completed"]
<1>1. e \in Doc /\ e.items = d.items /\ e.succeeded = d.succeeded /\ e.failed = d.failed
  BY DEF Good, Doc
<1> QED BY <1>1 DEF Good, InState

-----------------------------------------------------------------------------
(* Steps of one mine.                                                       *)

\* A step that changes one mine, and leaves it and the document good.
LEMMA OneJob ==
  ASSUME Truth, NEW j \in Jobs, NEW mine \in Job, GoodJob(mine, azure'),
         jobs' = [jobs EXCEPT ![j] = mine],
         azure \subseteq azure', azure' \subseteq Items,
         token' \in BOOLEAN, orderly' \in BOOLEAN,
         doc' # NoDoc => Good(doc', azure')
  PROVE  Truth'
<1>1. jobs' \in [Jobs -> Job] /\ jobs'[j] = mine /\ \A k \in Jobs \ {j} : jobs'[k] = jobs[k]
  BY DEF Truth
<1>2. ASSUME NEW k \in Jobs PROVE GoodJob(jobs'[k], azure')
  <2>1. CASE k = j
    BY <1>1, <2>1
  <2>2. CASE k # j
    <3>1. GoodJob(jobs[k], azure) /\ jobs'[k] = jobs[k]
      BY <1>1, <2>2 DEF Truth
    <3> QED BY <3>1, GoodStays DEF GoodJob
  <2> QED BY <2>1, <2>2
<1> QED BY <1>1, <1>2 DEF Truth

\* A mine that is free or over has nothing in hand.
LEMMA IdleIsGood ==
  \A made : IdleJob \in Job /\ Over \in Job /\ GoodJob(IdleJob, made) /\ GoodJob(Over, made)
<1>1. [i \in Items |-> "none"] \in [Items -> Hands] /\ [i \in Items |-> 0] \in [Items -> 0 .. MaxRetries]
  BY DeployOK DEF Hands
<1>2. IdleJob \in Job
  BY <1>1 DEF IdleJob, Job
<1>3. Over = [pc |-> "over", copy |-> NoDoc, hand |-> [i \in Items |-> "none"],
              throttled |-> [i \in Items |-> 0]]
  BY DEF Over, IdleJob
<1>4. Over \in Job
  BY <1>1, <1>3 DEF Job
<1> QED BY <1>2, <1>3, <1>4 DEF IdleJob, GoodJob

\* POST /execute takes the fresh document in hand.
LEMMA ExecuteStep == ASSUME Truth, NEW j \in Jobs, Execute(j) PROVE Truth'
<1> DEFINE mine == [jobs[j] EXCEPT !.pc = "save_start", !.copy = FreshDoc]
<1>1. jobs[j] \in Job /\ GoodJob(jobs[j], azure) /\ jobs[j].pc = "free"
  BY DEF Truth, Execute
<1>2. jobs' = [jobs EXCEPT ![j] = mine]
  BY DEF Execute
<1>3. Good(FreshDoc, azure) /\ FreshDoc \in Doc
  BY FreshIsGood DEF Good
<1>4. mine \in Job
  BY <1>1, <1>3 DEF Job
<1>5. GoodJob(mine, azure)
  BY <1>1, <1>3 DEF GoodJob, Job
<1> QED BY <1>2, <1>4, <1>5, OneJob DEF Truth, Execute

\* A retry takes a good document in hand.
LEMMA RetryStep == ASSUME Truth, NEW j \in Jobs, Retry(j) PROVE Truth'
<1> DEFINE mine == [jobs[j] EXCEPT !.pc = "save_retry", !.copy = Retried(doc)]
<1>1. jobs[j] \in Job /\ GoodJob(jobs[j], azure) /\ jobs[j].pc = "free"
  BY DEF Truth, Retry
<1>2. jobs' = [jobs EXCEPT ![j] = mine]
  BY DEF Retry
<1>3. Good(Retried(doc), azure) /\ Retried(doc) \in Doc
  BY RetriedIsGood DEF Good, Truth, Retry
<1>4. mine \in Job
  BY <1>1, <1>3 DEF Job
<1>5. GoodJob(mine, azure)
  BY <1>1, <1>3 DEF GoodJob, Job
<1>6. orderly' \in BOOLEAN
  BY DEF Retry, Truth
<1> QED BY <1>2, <1>4, <1>5, <1>6, OneJob DEF Truth, Retry

\* A request writes what it has in hand.
LEMMA SaveRequestStep == ASSUME Truth, NEW j \in Jobs, SaveRequest(j) PROVE Truth'
<1> DEFINE mine == [jobs[j] EXCEPT !.pc = "save_token", !.copy = NoDoc]
<1>1. jobs[j] \in Job /\ GoodJob(jobs[j], azure) /\ jobs[j].pc \in {"save_start", "save_retry"}
  BY DEF Truth, SaveRequest
<1>2. jobs' = [jobs EXCEPT ![j] = mine]
  BY DEF SaveRequest
<1>4. mine \in Job
  BY <1>1 DEF Job
<1>5. GoodJob(mine, azure)
  BY <1>1 DEF GoodJob, Job
<1>6. Good(doc', azure)
  BY <1>1 DEF GoodJob, SaveRequest
<1> QED BY <1>2, <1>4, <1>5, <1>6, OneJob DEF Truth, SaveRequest

\* The token is no part of the document.
LEMMA SaveTokenStep == ASSUME Truth, NEW j \in Jobs, SaveToken(j) PROVE Truth'
<1> DEFINE mine == [jobs[j] EXCEPT !.pc = "load"]
<1>1. jobs[j] \in Job /\ GoodJob(jobs[j], azure) /\ jobs[j].pc = "save_token"
  BY DEF Truth, SaveToken
<1>2. jobs' = [jobs EXCEPT ![j] = mine]
  BY DEF SaveToken
<1>4. mine \in Job
  BY <1>1 DEF Job
<1>5. GoodJob(mine, azure)
  BY <1>1 DEF GoodJob, Job
<1> QED BY <1>2, <1>4, <1>5, OneJob DEF Truth, SaveToken

\* Requests and jobs that end in the midst leave the document as it was or as they had it.
LEMMA EndingStep ==
  ASSUME Truth, NEW j \in Jobs,
         RequestFails(j) \/ LoadMissing(j) \/ Complete(j) \/ GiveUp(j) \/ CompleteFails(j)
  PROVE  Truth'
<1>1. jobs[j] \in Job /\ GoodJob(jobs[j], azure)
  BY DEF Truth
<1>2. jobs' = [jobs EXCEPT ![j] = Over] /\ azure' = azure /\ token' = token /\ orderly' \in BOOLEAN
  BY DEF Truth, RequestFails, LoadMissing, Complete, GiveUp, CompleteFails
<1>3. doc' # NoDoc => Good(doc', azure)
  <2>1. CASE RequestFails(j)
    <3>1. jobs[j].pc = "save_token" => jobs[j].copy = NoDoc
      BY <1>1 DEF GoodJob
    <3> QED BY <1>1, <2>1, <3>1 DEF GoodJob, RequestFails, Truth
  <2>2. CASE LoadMissing(j) \/ GiveUp(j)
    BY <2>2 DEF Truth, LoadMissing, GiveUp
  <2>3. CASE Complete(j) \/ CompleteFails(j)
    <3>1. Good([jobs[j].copy EXCEPT !.status = "completed"], azure)
      BY <1>1, <2>3, CompletedIsGood DEF GoodJob, Complete, CompleteFails
    <3> QED BY <2>3, <3>1 DEF Truth, Complete, CompleteFails
  <2> QED BY <2>1, <2>2, <2>3
<1> QED BY <1>2, <1>3, IdleIsGood, OneJob DEF Truth

\* execute makes a coroutine for every pending item of the copy it loads.
LEMMA LoadStep == ASSUME Truth, NEW j \in Jobs, Load(j) PROVE Truth'
<1> DEFINE hands == [i \in Items |-> IF doc.items[i] = "pending" THEN "waiting" ELSE "none"]
           mine == [jobs[j] EXCEPT !.pc = "run", !.copy = doc, !.hand = hands]
<1>1. jobs[j] \in Job /\ jobs[j].pc = "load" /\ Good(doc, azure) /\ doc \in Doc
  BY DEF Truth, Load, Good
<1>2. jobs' = [jobs EXCEPT ![j] = mine]
  BY DEF Load
<1>3. hands \in [Items -> Hands]
  BY DEF Hands
<1>4. mine \in Job
  BY <1>1, <1>3 DEF Job
<1>5. mine.pc = "run" /\ mine.copy = doc /\ mine.hand = hands
  BY <1>1 DEF Job
<1>6. Marks(mine)
  BY <1>5 DEF Marks
<1>7. GoodJob(mine, azure)
  BY <1>1, <1>5, <1>6 DEF GoodJob
<1> QED BY <1>2, <1>4, <1>7, OneJob DEF Truth, Load

\* A coroutine with something in hand belongs to a mine that runs.
LEMMA InHand ==
  ASSUME Truth, NEW j \in Jobs, NEW i \in Items, jobs[j].hand[i] # "none"
  PROVE  /\ jobs[j] \in Job /\ jobs[j].pc = "run"
         /\ Good(jobs[j].copy, azure) /\ jobs[j].copy \in Doc /\ Marks(jobs[j])
BY DEF Truth, GoodJob, Good

\* A step of a coroutine: its mine has a copy as good, with its item marked as its hand says.
LEMMA OneHand ==
  ASSUME NEW mine \in Job, NEW new, NEW i \in Items, NEW made,
         mine.pc = "run", Marks(mine), mine.copy \in Doc,
         new.pc = "run", Good(new.copy, made), new.hand \in [Items -> Hands],
         \A k \in Items \ {i} : new.hand[k] = mine.hand[k] /\ new.copy.items[k] = mine.copy.items[k],
         new.hand[i] = "waiting" => new.copy.items[i] = "pending",
         new.hand[i] \in {"begun", "creating"} => new.copy.items[i] = "deploying",
         new.hand[i] = "ended" => new.copy.items[i] \in {"succeeded", "failed"}
  PROVE  GoodJob(new, made)
<1>1. Marks(new)
  BY DEF Marks
<1> QED BY <1>1 DEF GoodJob

\* A coroutine that gets its place marks its item.
LEMMA BeginStep ==
  ASSUME Truth, NEW j \in Jobs, NEW i \in Items, Begin(j, i)
  PROVE  Truth'
<1> DEFINE copy == Marked(jobs[j].copy, i, "deploying")
           mine == [jobs[j] EXCEPT !.copy = copy, !.hand[i] = "begun"]
<1>1. /\ jobs[j] \in Job /\ jobs[j].pc = "run"
      /\ Good(jobs[j].copy, azure) /\ jobs[j].copy \in Doc /\ Marks(jobs[j])
  BY InHand DEF Begin
<1>2. jobs' = [jobs EXCEPT ![j] = mine]
  BY DEF Begin
<1>3. jobs[j].copy.items[i] = "pending"
  BY <1>1 DEF Begin, Marks
<1>4. Good(copy, azure) /\ copy \in Doc
  BY <1>1, <1>3, MarkedIsGood DEF Good
<1>8. copy.items = [jobs[j].copy.items EXCEPT ![i] = "deploying"]
  BY <1>1, MarkedParts DEF ItemStatus
<1> HIDE DEF copy
<1>5. mine.pc = "run" /\ mine.copy = copy /\ mine.hand = [jobs[j].hand EXCEPT ![i] = "begun"]
  BY <1>1 DEF Job
<1>6. [jobs[j].hand EXCEPT ![i] = "begun"] \in [Items -> Hands]
  BY <1>1 DEF Job, Hands
<1>7. mine \in Job
  BY <1>1, <1>4, <1>6 DEF Job
<1>9. GoodJob(mine, azure)
  <2>1. /\ mine.hand[i] = "begun" /\ copy.items[i] = "deploying"
        /\ \A k \in Items \ {i} :
              mine.hand[k] = jobs[j].hand[k] /\ copy.items[k] = jobs[j].copy.items[k]
    BY <1>1, <1>5, <1>8 DEF Job, Doc
  <2>. HIDE DEF mine
  <2> QED BY <1>1, <1>4, <1>5, <1>6, <2>1, OneHand
<1> QED BY <1>2, <1>7, <1>9, OneJob DEF Truth, Begin

\* Every save writes the copy as it is, with the marks of all the coroutines.
LEMMA SaveItemStep ==
  ASSUME Truth, NEW j \in Jobs, NEW i \in Items, SaveItem(j, i) \/ SaveItemFails(j, i)
  PROVE  Truth'
<1>1. PICK to \in Hands, n \in 0 .. MaxRetries :
        /\ to \in {"dead", "none"} \/ (to = "creating" /\ jobs[j].hand[i] = "begun")
        /\ jobs' = [jobs EXCEPT ![j] = [jobs[j] EXCEPT !.hand[i] = to, !.throttled[i] = n]]
        /\ jobs[j].hand[i] # "none"
        /\ doc' \in {doc, jobs[j].copy} /\ azure' = azure /\ token' = token /\ orderly' \in BOOLEAN
  <2>1. CASE SaveItem(j, i)
    <3>1. (IF jobs[j].hand[i] = "begun" THEN "creating" ELSE "none") \in Hands /\ 0 \in 0 .. MaxRetries
      BY DeployOK DEF Hands
    <3> QED BY <2>1, <3>1 DEF SaveItem, Truth
  <2>2. CASE SaveItemFails(j, i)
    <3>1. jobs[j].throttled \in [Items -> 0 .. MaxRetries] /\ "dead" \in Hands
      BY DEF Truth, Job, Hands
    <3>2. [jobs[j] EXCEPT !.hand[i] = "dead"]
            = [jobs[j] EXCEPT !.hand[i] = "dead", !.throttled[i] = jobs[j].throttled[i]]
      BY <3>1 DEF Truth, Job
    <3> QED BY <2>2, <3>1, <3>2 DEF SaveItemFails, Truth
  <2> QED BY <2>1, <2>2
<1>2. /\ jobs[j] \in Job /\ jobs[j].pc = "run"
      /\ Good(jobs[j].copy, azure) /\ jobs[j].copy \in Doc /\ Marks(jobs[j])
  BY <1>1, InHand
<1> DEFINE mine == [jobs[j] EXCEPT !.hand[i] = to, !.throttled[i] = n]
<1>3. mine.pc = "run" /\ mine.copy = jobs[j].copy /\ mine.hand = [jobs[j].hand EXCEPT ![i] = to]
  BY <1>2 DEF Job
<1>4. [jobs[j].hand EXCEPT ![i] = to] \in [Items -> Hands]
  BY <1>2 DEF Job
<1>5. [jobs[j].throttled EXCEPT ![i] = n] \in [Items -> 0 .. MaxRetries]
  BY <1>2 DEF Job
<1>6. mine \in Job
  BY <1>2, <1>4, <1>5 DEF Job
<1>7. GoodJob(mine, azure)
  <2>1. /\ mine.hand[i] = to
        /\ \A k \in Items \ {i} : mine.hand[k] = jobs[j].hand[k]
    BY <1>2, <1>3 DEF Job
  <2>2. to = "creating" => jobs[j].copy.items[i] = "deploying"
    BY <1>1, <1>2 DEF Marks
  <2> HIDE DEF mine
  <2> QED BY <1>1, <1>2, <1>3, <1>4, <2>1, <2>2, OneHand
<1>8. doc' # NoDoc => Good(doc', azure)
  BY <1>1, <1>2 DEF Truth
<1> QED BY <1>1, <1>6, <1>7, <1>8, OneJob DEF Truth

\* The end of an attempt marks the item and counts it in one step.
LEMMA CreateStep ==
  ASSUME Truth, NEW j \in Jobs, NEW i \in Items, CreateSucceeds(j, i) \/ CreateFails(j, i)
  PROVE  Truth'
<1>1. PICK s \in {"succeeded", "failed"} :
        /\ jobs' = [jobs EXCEPT ![j] =
             [jobs[j] EXCEPT !.hand[i] = "ended", !.copy = Marked(jobs[j].copy, i, s)]]
        /\ azure \subseteq azure' /\ azure' \subseteq Items
        /\ s = "succeeded" => azure' = azure \cup {i}
        /\ jobs[j].hand[i] = "creating"
        /\ doc' = doc /\ token' = token /\ orderly' = orderly
  BY DEF CreateSucceeds, CreateFails, Truth
<1>2. /\ jobs[j] \in Job /\ jobs[j].pc = "run"
      /\ Good(jobs[j].copy, azure) /\ jobs[j].copy \in Doc /\ Marks(jobs[j])
  BY <1>1, InHand
<1> DEFINE copy == Marked(jobs[j].copy, i, s)
           mine == [jobs[j] EXCEPT !.hand[i] = "ended", !.copy = copy]
<1>3. Good(copy, azure') /\ copy \in Doc
  <2>1. jobs[j].copy.items[i] = "deploying"
    BY <1>1, <1>2 DEF Marks
  <2>2. Good(copy, IF s = "succeeded" THEN azure \cup {i} ELSE azure)
    BY <1>2, <2>1, MarkedIsGood
  <2>3. Good(copy, azure')
    BY <1>1, <2>2, GoodStays
  <2> QED BY <2>3 DEF Good
<1>4. copy.items = [jobs[j].copy.items EXCEPT ![i] = s]
  <2>1. s \in ItemStatus
    BY <1>1 DEF ItemStatus
  <2> QED BY <1>2, <2>1, MarkedParts
<1> HIDE DEF copy
<1>5. mine.pc = "run" /\ mine.copy = copy /\ mine.hand = [jobs[j].hand EXCEPT ![i] = "ended"]
  BY <1>2 DEF Job
<1>6. [jobs[j].hand EXCEPT ![i] = "ended"] \in [Items -> Hands]
  BY <1>2 DEF Job, Hands
<1>7. mine \in Job
  BY <1>2, <1>3, <1>6 DEF Job
<1>8. GoodJob(mine, azure')
  <2>1. /\ mine.hand[i] = "ended" /\ copy.items[i] = s
        /\ \A k \in Items \ {i} :
              mine.hand[k] = jobs[j].hand[k] /\ copy.items[k] = jobs[j].copy.items[k]
    BY <1>2, <1>4, <1>5 DEF Job, Doc
  <2> HIDE DEF mine
  <2> QED BY <1>2, <1>3, <1>5, <1>6, <2>1, OneHand
<1>9. doc' # NoDoc => Good(doc', azure')
  BY <1>1, GoodStays DEF Truth
<1> QED BY <1>1, <1>7, <1>8, <1>9, OneJob DEF Truth, copy

\* A throttled attempt touches no document, and there are boundedly many.
LEMMA ThrottledStep ==
  ASSUME Truth, NEW j \in Jobs, NEW i \in Items, CreateThrottled(j, i)
  PROVE  Truth'
<1> DEFINE mine == [jobs[j] EXCEPT !.throttled[i] = jobs[j].throttled[i] + 1]
<1>1. /\ jobs[j] \in Job /\ jobs[j].pc = "run"
      /\ Good(jobs[j].copy, azure) /\ jobs[j].copy \in Doc /\ Marks(jobs[j])
  BY InHand DEF CreateThrottled
<1>2. [jobs[j].throttled EXCEPT ![i] = jobs[j].throttled[i] + 1] \in [Items -> 0 .. MaxRetries]
  <2>1. jobs[j].throttled \in [Items -> 0 .. MaxRetries] /\ jobs[j].throttled[i] < MaxRetries
    BY <1>1 DEF Job, CreateThrottled
  <2>2. jobs[j].throttled[i] + 1 \in 0 .. MaxRetries
    BY <2>1, DeployOK
  <2> QED BY <2>1, <2>2
<1>3. mine \in Job
  BY <1>1, <1>2 DEF Job
<1>4. GoodJob(mine, azure)
  BY <1>1 DEF GoodJob, Marks, Job
<1>5. jobs' = [jobs EXCEPT ![j] = mine]
  BY DEF CreateThrottled
<1> QED BY <1>3, <1>4, <1>5, OneJob DEF Truth, CreateThrottled

-----------------------------------------------------------------------------
(* The inductive invariant Truth.                                          *)

\* At first there is no document and no mine.
LEMMA TruthInit == DeployInit => Truth
<1> SUFFICES ASSUME DeployInit PROVE Truth
  OBVIOUS
<1> QED BY IdleIsGood DEF DeployInit, Truth

\* A restart forgets copies only.
LEMMA RestartStep == ASSUME Truth, Restart PROVE Truth'
BY IdleIsGood DEF Truth, Restart

\* Truth is inductive: a lemma for every action.
LEMMA TruthStep == Truth /\ [DeployNext]_deployVars => Truth'
<1> SUFFICES ASSUME Truth, [DeployNext]_deployVars PROVE Truth'
  OBVIOUS
<1>1. ASSUME NEW j \in Jobs, Request(j) PROVE Truth'
  BY <1>1, ExecuteStep, RetryStep, SaveRequestStep, SaveTokenStep, EndingStep DEF Request
<1>2. ASSUME NEW j \in Jobs, Run(j) PROVE Truth'
  BY <1>2, LoadStep, EndingStep, BeginStep, SaveItemStep, CreateStep, ThrottledStep
     DEF Run, DeployOne
<1>3. CASE Restart
  BY <1>3, RestartStep
<1>4. CASE ExpireTask \/ ExpireToken
  BY <1>4 DEF ExpireTask, ExpireToken, Truth
<1>5. CASE UNCHANGED deployVars
  BY <1>5 DEF deployVars, Truth
<1> QED BY <1>1, <1>2, <1>3, <1>4, <1>5 DEF DeployNext

-----------------------------------------------------------------------------
(* While all goes in order: no mine was lost and none started beside another. *)

\* The task reads running and no item is half way.
Settled(d) == d.status = "running" /\ InState(d, "deploying") = {}

\* What a mine holds, or will load, has no item half way that is nobody's; a
\* coroutine that has nothing in hand has ended its item.
InOrder(mine, d) ==
    /\ mine.pc \in {"save_start", "save_retry"} => Settled(mine.copy)
    /\ mine.pc \in {"save_token", "load"} /\ d # NoDoc => Settled(d)
    /\ mine.pc = "run" =>
          /\ mine.copy.status = "running"
          /\ \A i \in Items :
                /\ mine.hand[i] # "dead"
                /\ mine.hand[i] = "none" => mine.copy.items[i] \in {"succeeded", "failed"}

Order ==
    orderly =>
        /\ \A j, k \in Jobs : Active(j) /\ Active(k) => j = k
        /\ \A j \in Jobs : InOrder(jobs[j], doc)
        /\ CompletedIsFinal

\* A step of the only mine at work, which stays at work.
LEMMA AloneStep ==
  ASSUME Truth, Order, orderly, NEW j \in Jobs, \A k \in Jobs \ {j} : ~Active(k),
         NEW mine \in Job, jobs' = [jobs EXCEPT ![j] = mine],
         mine.pc \notin {"free", "over"}, InOrder(mine, doc'),
         doc' = doc \/ doc'.status = "running"
  PROVE  Order'
<1>1. jobs'[j] = mine /\ \A k \in Jobs \ {j} : jobs'[k] = jobs[k]
  BY DEF Truth
<1>2. Active(j)' /\ \A k \in Jobs \ {j} : ~(Active(k)')
  BY <1>1 DEF Active
<1>3. \A k \in Jobs \ {j} : InOrder(jobs'[k], doc')
  BY <1>1 DEF Active, InOrder
<1>4. doc' # NoDoc /\ doc'.status = "completed" =>
          InState(doc', "pending") \cup InState(doc', "deploying") = {}
  BY DEF Order, CompletedIsFinal
<1>5. CompletedIsFinal'
  BY <1>2, <1>4 DEF CompletedIsFinal
<1> QED BY <1>1, <1>2, <1>3, <1>5 DEF Order

\* A mine at work while all is in order is the only one.
LEMMA OnlyOne ==
  ASSUME Order, orderly, NEW j \in Jobs, jobs[j].pc \notin {"free", "over"}
  PROVE  \A k \in Jobs \ {j} : ~Active(k)
BY DEF Order, Active

\* A request in order finds no mine at work, and a document at its end.
LEMMA OrderOfRequests ==
  ASSUME Truth, Order, orderly', NEW j \in Jobs, Request(j)
  PROVE  Order'
<1>1. jobs[j] \in Job /\ GoodJob(jobs[j], azure)
  BY DEF Truth
<1>2. CASE Execute(j)
  <2> DEFINE mine == [jobs[j] EXCEPT !.pc = "save_start", !.copy = FreshDoc]
  <2>1. Settled(FreshDoc) /\ FreshDoc \in Doc
    BY FreshIsGood DEF Settled, FreshDoc, InState, Good
  <2>2. mine \in Job /\ mine.pc = "save_start" /\ mine.copy = FreshDoc
    BY <1>1, <2>1 DEF Job
  <2>3. InOrder(mine, doc')
    BY <2>1, <2>2 DEF InOrder
  <2>4. jobs' = [jobs EXCEPT ![j] = mine] /\ \A k \in Jobs : ~Active(k)
    BY <1>2 DEF Execute, Active
  <2> QED BY <1>2, <2>2, <2>3, <2>4, AloneStep DEF Execute
<1>3. CASE Retry(j)
  <2> DEFINE mine == [jobs[j] EXCEPT !.pc = "save_retry", !.copy = Retried(doc)]
  <2>1. orderly /\ (\A k \in Jobs : ~Active(k)) /\ doc # NoDoc
    BY <1>3 DEF Retry
  <2>2. InState(doc, "deploying") = {} /\ Good(doc, azure)
    BY <2>1 DEF Order, CompletedIsFinal, Truth
  <2>3. Settled(Retried(doc)) /\ Retried(doc) \in Doc
    <3>1. Retried(doc) \in Doc
      BY <2>2, RetriedIsGood DEF Good
    <3> QED BY <2>2, <3>1 DEF Settled, Retried, InState, Good, Doc
  <2>4. mine \in Job /\ mine.pc = "save_retry" /\ mine.copy = Retried(doc)
    BY <1>1, <2>3 DEF Job
  <2>5. InOrder(mine, doc')
    BY <2>3, <2>4 DEF InOrder
  <2>6. jobs' = [jobs EXCEPT ![j] = mine]
    BY <1>3 DEF Retry
  <2> QED BY <1>3, <2>1, <2>4, <2>5, <2>6, AloneStep DEF Retry
<1>4. CASE SaveRequest(j)
  <2> DEFINE mine == [jobs[j] EXCEPT !.pc = "save_token", !.copy = NoDoc]
  <2>1. orderly /\ jobs' = [jobs EXCEPT ![j] = mine] /\ doc' = jobs[j].copy
    BY <1>4 DEF SaveRequest
  <2>2. Settled(doc')
    BY <1>4, <2>1 DEF Order, InOrder, SaveRequest
  <2>3. mine \in Job /\ mine.pc = "save_token"
    BY <1>1 DEF Job
  <2>4. InOrder(mine, doc')
    BY <2>2, <2>3 DEF InOrder
  <2>5. \A k \in Jobs \ {j} : ~Active(k)
    BY <1>4, <2>1, OnlyOne DEF SaveRequest
  <2> QED BY <2>1, <2>2, <2>3, <2>4, <2>5, AloneStep DEF Settled
<1>5. CASE SaveToken(j)
  <2> DEFINE mine == [jobs[j] EXCEPT !.pc = "load"]
  <2>1. orderly /\ jobs' = [jobs EXCEPT ![j] = mine] /\ doc' = doc /\ jobs[j].pc = "save_token"
    BY <1>5 DEF SaveToken
  <2>2. mine \in Job /\ mine.pc = "load"
    BY <1>1 DEF Job
  <2>3. InOrder(mine, doc')
    BY <2>1, <2>2 DEF Order, InOrder
  <2>4. \A k \in Jobs \ {j} : ~Active(k)
    BY <2>1, OnlyOne
  <2> QED BY <2>1, <2>2, <2>3, <2>4, AloneStep
<1>6. CASE RequestFails(j)
  BY <1>6 DEF RequestFails
<1> QED BY <1>2, <1>3, <1>4, <1>5, <1>6 DEF Request

\* A coroutine of the only mine leaves an item half way only while it has it in hand.
LEMMA OrderOfCoroutines ==
  ASSUME Truth, Order, orderly', NEW j \in Jobs, NEW i \in Items, DeployOne(j, i)
  PROVE  Order'
<1>1. CASE SaveItemFails(j, i)
  BY <1>1 DEF SaveItemFails
<1>2. CASE ~SaveItemFails(j, i)
  <2>1. orderly /\ jobs[j].hand[i] # "none"
    BY <1>2 DEF DeployOne, Begin, SaveItem, CreateSucceeds, CreateFails, CreateThrottled
  <2>2. /\ jobs[j] \in Job /\ jobs[j].pc = "run"
        /\ Good(jobs[j].copy, azure) /\ jobs[j].copy \in Doc /\ Marks(jobs[j])
    BY <2>1, InHand
  <2>3. \A k \in Jobs \ {j} : ~Active(k)
    BY <2>1, <2>2, OnlyOne
  <2>4. InOrder(jobs[j], doc) /\ jobs[j].copy.status = "running"
    BY <2>1, <2>2 DEF Order, InOrder
  <2>5. jobs'[j] \in Job /\ jobs' = [jobs EXCEPT ![j] = jobs'[j]]
    <3>1. Truth'
      BY <1>2, BeginStep, SaveItemStep, CreateStep, ThrottledStep DEF DeployOne
    <3> QED BY <1>2, <3>1 DEF Truth, DeployOne, Begin, SaveItem, CreateSucceeds, CreateFails, CreateThrottled
  <2>6. doc' = doc \/ doc'.status = "running"
    BY <1>2, <2>4 DEF DeployOne, Begin, SaveItem, CreateSucceeds, CreateFails, CreateThrottled
  <2>7. jobs'[j].pc = "run" /\ InOrder(jobs'[j], doc')
    <3>1. CASE Begin(j, i) \/ CreateSucceeds(j, i) \/ CreateFails(j, i)
      <4>1. PICK s \in ItemStatus, h \in {"begun", "ended"} :
               /\ jobs'[j].pc = "run" /\ jobs'[j].copy = Marked(jobs[j].copy, i, s)
               /\ jobs'[j].hand = [jobs[j].hand EXCEPT ![i] = h]
               /\ h = "ended" => s \in {"succeeded", "failed"}
        <5>1. {"deploying", "succeeded", "failed"} \subseteq ItemStatus
          BY DEF ItemStatus
        <5>2. CASE Begin(j, i)
          BY <5>1, <5>2, <2>2 DEF Begin, Truth, Job
        <5>3. CASE CreateSucceeds(j, i)
          BY <5>1, <5>3, <2>2 DEF CreateSucceeds, Truth, Job
        <5>4. CASE CreateFails(j, i)
          BY <5>1, <5>4, <2>2 DEF CreateFails, Truth, Job
        <5> QED BY <3>1, <5>2, <5>3, <5>4
      <4>2. /\ Marked(jobs[j].copy, i, s).status = "running"
            /\ Marked(jobs[j].copy, i, s).items = [jobs[j].copy.items EXCEPT ![i] = s]
        BY <2>2, <2>4, MarkedParts
      <4> QED BY <2>2, <2>4, <4>1, <4>2 DEF InOrder, Job, Doc
    <3>2. CASE SaveItem(j, i)
      <4>1. /\ jobs'[j].pc = "run" /\ jobs'[j].copy = jobs[j].copy
            /\ jobs'[j].hand = [jobs[j].hand EXCEPT
                  ![i] = IF jobs[j].hand[i] = "begun" THEN "creating" ELSE "none"]
        BY <2>2, <3>2 DEF SaveItem, Truth, Job
      <4>2. jobs[j].hand[i] = "begun" \/ jobs[j].copy.items[i] \in {"succeeded", "failed"}
        BY <2>2, <3>2 DEF SaveItem, Marks
      <4> QED BY <2>2, <2>4, <4>1, <4>2 DEF InOrder, Job
    <3>3. CASE CreateThrottled(j, i)
      <4>1. /\ jobs'[j].pc = "run" /\ jobs'[j].copy = jobs[j].copy
            /\ jobs'[j].hand = jobs[j].hand
        BY <2>2, <3>3 DEF CreateThrottled, Truth, Job
      <4> QED BY <2>2, <2>4, <4>1 DEF InOrder
    <3> QED BY <1>2, <3>1, <3>2, <3>3 DEF DeployOne
  <2> QED BY <2>1, <2>3, <2>5, <2>6, <2>7, AloneStep
<1> QED BY <1>1, <1>2

\* A mine of its own completes a document that has nothing left over.
LEMMA OrderOfJobs ==
  ASSUME Truth, Order, orderly', NEW j \in Jobs,
         Load(j) \/ LoadMissing(j) \/ Complete(j) \/ GiveUp(j) \/ CompleteFails(j)
  PROVE  Order'
<1>1. jobs[j] \in Job /\ GoodJob(jobs[j], azure)
  BY DEF Truth
<1>2. CASE Load(j)
  <2> DEFINE hands == [i \in Items |-> IF doc.items[i] = "pending" THEN "waiting" ELSE "none"]
             mine == [jobs[j] EXCEPT !.pc = "run", !.copy = doc, !.hand = hands]
  <2>1. /\ orderly /\ jobs' = [jobs EXCEPT ![j] = mine] /\ doc' = doc
        /\ jobs[j].pc = "load" /\ doc # NoDoc
    BY <1>2 DEF Load
  <2>2. Settled(doc) /\ doc \in Doc
    BY <2>1 DEF Order, InOrder, Truth, Good
  <2>3. hands \in [Items -> Hands]
    BY DEF Hands
  <2>4. mine \in Job /\ mine.pc = "run" /\ mine.copy = doc /\ mine.hand = hands
    BY <1>1, <2>2, <2>3 DEF Job
  <2>5. \A i \in Items : doc.items[i] \in {"pending", "succeeded", "failed"}
    BY <2>2 DEF Settled, InState, Doc, ItemStatus
  <2>6. InOrder(mine, doc')
    BY <2>2, <2>4, <2>5 DEF InOrder, Settled
  <2>7. \A k \in Jobs \ {j} : ~Active(k)
    BY <2>1, OnlyOne
  <2> HIDE DEF mine
  <2> QED BY <2>1, <2>4, <2>6, <2>7, AloneStep
<1>3. CASE Complete(j)
  <2>1. /\ orderly /\ jobs' = [jobs EXCEPT ![j] = Over] /\ jobs[j].pc = "run"
        /\ doc' = [jobs[j].copy EXCEPT !.status = "completed"]
        /\ \A i \in Items : jobs[j].hand[i] = "none"
    BY <1>3 DEF Complete
  <2>2. \A i \in Items : jobs[j].copy.items[i] \in {"succeeded", "failed"}
    BY <2>1 DEF Order, InOrder
  <2>3. jobs[j].copy \in Doc
    BY <1>1, <2>1 DEF GoodJob, Good
  <2>4. doc'.status = "completed" /\ doc'.items = jobs[j].copy.items
    BY <2>1, <2>3 DEF Doc
  <2>5. InState(doc', "pending") \cup InState(doc', "deploying") = {}
    BY <2>2, <2>4 DEF InState
  <2>6. \A k \in Jobs : jobs'[k].pc \in {"free", "over"}
    <3>1. \A k \in Jobs \ {j} : ~Active(k)
      BY <2>1, OnlyOne
    <3>2. jobs'[j].pc = "over" /\ \A k \in Jobs \ {j} : jobs'[k] = jobs[k]
      BY <2>1 DEF Truth, Over, IdleJob
    <3> QED BY <3>1, <3>2 DEF Active
  <2> QED BY <2>4, <2>5, <2>6 DEF Order, InOrder, Active, CompletedIsFinal
<1>4. CASE GiveUp(j)
  BY <1>4 DEF GiveUp, Order, InOrder
<1>5. CASE LoadMissing(j) \/ CompleteFails(j)
  BY <1>5 DEF LoadMissing, CompleteFails
<1> QED BY <1>2, <1>3, <1>4, <1>5

\* Order is inductive relative to Truth.
LEMMA OrderStep == Truth /\ Order /\ [DeployNext]_deployVars => Order'
<1> SUFFICES ASSUME Truth, Order, [DeployNext]_deployVars, orderly' PROVE Order'
  BY DEF Order
<1>1. ASSUME NEW j \in Jobs, Request(j) PROVE Order'
  BY <1>1, OrderOfRequests
<1>2. ASSUME NEW j \in Jobs, Run(j) PROVE Order'
  BY <1>2, OrderOfJobs, OrderOfCoroutines DEF Run
<1>3. CASE Restart
  BY <1>3 DEF Restart
<1>4. CASE ExpireTask
  BY <1>4 DEF ExpireTask, Order, InOrder, Active, CompletedIsFinal
<1>5. CASE ExpireToken \/ UNCHANGED deployVars
  BY <1>5 DEF ExpireToken, deployVars, Order, InOrder, Active, CompletedIsFinal
<1> QED BY <1>1, <1>2, <1>3, <1>4, <1>5 DEF DeployNext

-----------------------------------------------------------------------------
(* The theorems.                                                           *)

\* The two together hold in every state.
LEMMA Inductive == DeploySpec => [](Truth /\ Order)
<1>1. DeployInit => Truth /\ Order
  BY TruthInit DEF DeployInit, Order, InOrder, Active, IdleJob, CompletedIsFinal
<1>2. Truth /\ Order /\ [DeployNext]_deployVars => (Truth /\ Order)'
  BY TruthStep, OrderStep
<1> QED BY <1>1, <1>2, PTL DEF DeploySpec

\* Every state of the deployment is one its types allow.
THEOREM DeployTypes == DeploySpec => []DeployTypeOK
<1>1. Truth => DeployTypeOK
  BY DEF Truth, Good, DeployTypeOK
<1> QED BY <1>1, Inductive, PTL

\* However many requests, retries, failures, restarts and expiries there were:
\* the counters of the document agree with the progress its items show, what
\* reads succeeded exists at Azure, and without a lost or a second mine a
\* completed task has nothing left over and a running one is somebody's.
THEOREM ProgressIsAlwaysTrue == DeploySpec => []ProgressIsTrue
<1>1. Truth /\ Order => ProgressIsTrue
  <2> SUFFICES ASSUME Truth, Order, doc # NoDoc
               PROVE  /\ doc.succeeded = Progress(doc)["succeeded"]
                      /\ doc.failed = Progress(doc)["failed"]
                      /\ InState(doc, "succeeded") \subseteq azure
                      /\ CompletedIsFinal
    BY DEF ProgressIsTrue
  <2>1. Good(doc, azure)
    BY DEF Truth
  <2>2. CompletedIsFinal
    BY DEF Order, CompletedIsFinal
  <2> QED BY <2>1, <2>2 DEF Good, Progress, ItemStatus
<1> QED BY <1>1, Inductive, PTL

=============================================================================
