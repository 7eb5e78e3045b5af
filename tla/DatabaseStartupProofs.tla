----------------------- MODULE DatabaseStartupProofs -----------------------
(***************************************************************************)
(* Proofs about DatabaseStartup, for every number of processes, migrations *)
(* and legacy files.                                                       *)
(***************************************************************************)
EXTENDS DatabaseStartup, FiniteSetTheorems, TLAPS

\* The inductive invariant, first part: what is recorded has run, and the versions
\* that a process has neither to apply nor sees as recorded are none.
SchemaInv ==
    /\ recorded \subseteq schema
    /\ writer # None => draft.recorded \subseteq schema /\ recorded \subseteq draft.recorded
    /\ \A p \in Procs : pc[p] = "record" =>
        \A v \in Versions : First(v, pending[p]) => v \in schema
    /\ \A p \in Procs : pc[p] \in {"migrate", "record"} =>
        Versions \subseteq pending[p] \cup View(p).recorded
    /\ \A p \in Procs : pc[p] \in {"check", "read", "insert", "archive", "up"} =>
        recorded = Versions

\* What the transaction of p may have changed: rows of files that were archived in
\* it, and rows of the file that p is about to archive.
DraftInv(p) ==
    /\ pc[p] \in {"migrate", "record", "check", "read", "insert", "archive"}
    /\ pc[p] \in {"migrate", "record"} => draft.row = row
    /\ \A f \in Files :
        \/ draft.row[f] = row[f]
        \/ draft.row[f] = "imported" /\ row[f] = "absent" /\ f \notin file
        \/ draft.row[f] = "imported" /\ pc[p] = "archive" /\ First(f, todo[p])

\* Second part: rows of a file in place are never committed.
ImportInv ==
    /\ \A f \in file : row[f] = "absent"
    /\ \A p \in Procs : writer = p => DraftInv(p)
    /\ \A p \in Procs : pc[p] \in {"check", "read", "insert", "archive"} => file \subseteq todo[p]
    /\ \A p \in Procs : pc[p] = "up" => file = {}

\* Third part, until a file could not be read: a refused file and those after it stay
\* in place.
Held(g) ==
    /\ \A f \in Files : g <= f => f \in file
    /\ \A p \in Procs : First(g, todo[p]) =>
        pc[p] # "archive" /\ (pc[p] = "insert" => got[p])
HeldInv == \A g \in Files : content[g] = "refused" => Held(g)

\* A file that is good, as are all files after it.
Trailing(f) == \A g \in Files : f <= g => content[g] = "good"

\* Fourth part, until a process died or a file could not be read: a process that holds
\* the lock is the only one that archives such files, and what it has in its
\* transaction it will also commit.
OnlyWriterArchives(p) ==
    /\ writer = p /\ pc[p] \in {"read", "insert"} =>
        \A f \in Files : First(f, todo[p]) /\ Trailing(f) => f \in file
    /\ pc[p] = "insert" /\ ~got[p] =>
        \A f \in Files : First(f, todo[p]) /\ Trailing(f) => f \notin file
    /\ pc[p] = "archive" =>
        \A f \in file : First(f, todo[p]) /\ Trailing(f) =>
            writer = p /\ draft.row[f] = "imported"
    /\ writer = p /\ pc[p] = "archive" =>
        \A f \in Files : First(f, todo[p]) /\ Trailing(f) /\ f \notin file =>
            \A g \in Files : g # f => draft.row[g] = row[g]
DraftIsBehind(p) ==
    writer = p => \A f \in Files : draft.row[f] # row[f] => \A g \in todo[p] : f <= g
Stored(f) ==
    \/ row[f] # "absent"
    \/ \E p \in Procs :
        /\ writer = p /\ draft.row[f] # "absent"
        /\ ~(pc[p] = "archive" /\ First(f, todo[p]))
KeepInv ==
    /\ \A p \in Procs : OnlyWriterArchives(p) /\ DraftIsBehind(p)
    /\ \A f \in Files \ file : Trailing(f) => Stored(f)

Readable == "unreadable" \notin happened
Clean == happened \cap {"crash", "unreadable"} = {}

IInv ==
    /\ TypeOK /\ SchemaInv /\ ImportInv
    /\ Readable => HeldInv
    /\ Clean => KeepInv

-----------------------------------------------------------------------------
(* Types. *)

LEMMA TypeInit == Init => TypeOK
BY DEF Init, TypeOK, NoDraft, RowStates, Phases

LEMMA TypeStep ==
    ASSUME TypeOK, [Next]_vars
    PROVE  TypeOK'
<1> USE NoneAssumption DEF TypeOK, RowStates, Phases
<1>1. ASSUME NEW p \in Procs, Open(p) PROVE TypeOK'
    BY <1>1 DEF Open, tables, files, locals
<1>2. ASSUME NEW p \in Procs, RunScript(p) PROVE TypeOK'
    BY <1>2 DEF RunScript, tables, files, locals, Commit, View, Committed, NoDraft
<1>3. ASSUME NEW p \in Procs, Record(p) PROVE TypeOK'
    BY <1>3 DEF Record, tables, files, locals, View, Committed, CanWrite
<1>4. ASSUME NEW p \in Procs, RecordTwice(p) PROVE TypeOK'
    BY <1>4 DEF RecordTwice, tables, files, locals, GoDown, NoDraft
<1>5. ASSUME NEW p \in Procs, Migrated(p) PROVE TypeOK'
    BY <1>5 DEF Migrated, tables, files, locals, Commit, View, Committed, NoDraft
<1>6. ASSUME NEW p \in Procs, Check(p) PROVE TypeOK'
    BY <1>6 DEF Check, tables, files, locals, View, Committed, CanWrite, Proceed
<1>7. ASSUME NEW p \in Procs, Read(p) PROVE TypeOK'
    BY <1>7 DEF Read, tables, files, locals, Happens
<1>8. ASSUME NEW p \in Procs, Insert(p) PROVE TypeOK'
    <2>1. PICK f \in Files :
            draft' = [recorded |-> View(p).recorded,
                      row |-> [View(p).row EXCEPT ![f] = "imported"]]
        BY <1>8 DEF Insert
    <2>2. View(p).recorded \subseteq Versions /\ View(p).row \in [Files -> RowStates]
        BY DEF View, Committed
    <2>3. [View(p).row EXCEPT ![f] = "imported"] \in [Files -> RowStates]
        BY <2>2
    <2>4. draft' \in [recorded : SUBSET Versions, row : [Files -> RowStates]]
        BY <2>1, <2>2, <2>3
    <2> QED
        BY <1>8, <2>4 DEF Insert, tables, files
<1>9. ASSUME NEW p \in Procs, InsertNothing(p) PROVE TypeOK'
    BY <1>9 DEF InsertNothing, tables, files, locals
<1>10. ASSUME NEW p \in Procs, Refuse(p) PROVE TypeOK'
    BY <1>10 DEF Refuse, tables, files, locals, GoDown, NoDraft, Happens
<1>11. ASSUME NEW p \in Procs, Archive(p) PROVE TypeOK'
    BY <1>11 DEF Archive, tables, files, locals, Proceed
<1>12. ASSUME NEW p \in Procs, ArchiveTwice(p) PROVE TypeOK'
    BY <1>12 DEF ArchiveTwice, tables, files, locals, GoDown, NoDraft
<1>13. ASSUME NEW p \in Procs, Finish(p) PROVE TypeOK'
    BY <1>13 DEF Finish, tables, files, locals, Commit, View, Committed, NoDraft
<1>14. ASSUME NEW p \in Procs, Change(p) PROVE TypeOK'
    BY <1>14 DEF Change, tables, files, locals
<1>15. ASSUME NEW p \in Procs, LockTimeout(p) PROVE TypeOK'
    BY <1>15 DEF LockTimeout, tables, files, locals, GoDown, NoDraft, Happens
<1>16. ASSUME NEW p \in Procs, Crash(p) PROVE TypeOK'
    BY <1>16 DEF Crash, tables, files, locals, GoDown, NoDraft, Happens
<1>17. CASE UNCHANGED vars
    BY <1>17 DEF vars, tables, files, locals
<1> QED
    BY <1>1, <1>2, <1>3, <1>4, <1>5, <1>6, <1>7, <1>8, <1>9, <1>10, <1>11, <1>12, <1>13, <1>14, <1>15, <1>16, <1>17 DEF Next

-----------------------------------------------------------------------------
(* The schema. *)

\* There is one first member.
LEMMA FirstIsUnique ==
    ASSUME NEW S \in SUBSET Nat, NEW v, NEW w, First(v, S), First(w, S)
    PROVE  v = w
BY DEF First

LEMMA SchemaInit == Init => SchemaInv
BY NoneAssumption DEF Init, SchemaInv, View, Committed, First

LEMMA SchemaStep ==
    ASSUME TypeOK, SchemaInv, [Next]_vars
    PROVE  SchemaInv'
<1> USE NoneAssumption, NumbersAssumption DEF TypeOK, SchemaInv, View, Committed, First
<1>1. ASSUME NEW p \in Procs, Open(p) PROVE SchemaInv'
    BY <1>1 DEF Open, tables, files, locals
<1>2. ASSUME NEW p \in Procs, RunScript(p) PROVE SchemaInv'
    <2>1. PICK m \in Versions : First(m, pending[p]) /\ schema' = schema \cup {m}
        BY <1>2 DEF RunScript
    <2>2. recorded' \subseteq schema'
        BY <1>2, <2>1 DEF RunScript, tables, files, locals, Commit, NoDraft
    <2>3. writer' # None => draft'.recorded \subseteq schema' /\ recorded' \subseteq draft'.recorded
        BY <1>2, <2>1 DEF RunScript, tables, files, locals, Commit, NoDraft
    <2>4. \A q \in Procs : pc'[q] = "record" =>
            \A v \in Versions : First(v, pending'[q]) => v \in schema'
        <3>1. ASSUME NEW w \in Versions, First(w, pending[p]) PROVE w = m
            BY <3>1, <2>1
        <3> QED
            BY <1>2, <2>1, <3>1 DEF RunScript, tables, files, locals
    <2>5. \A q \in Procs : pc'[q] \in {"migrate", "record"} =>
            Versions \subseteq pending'[q] \cup View(q)'.recorded
        BY <1>2, <2>1 DEF RunScript, tables, files, locals, Commit, NoDraft
    <2>6. \A q \in Procs : pc'[q] \in {"check", "read", "insert", "archive", "up"} =>
            recorded' = Versions
        BY <1>2, <2>1 DEF RunScript, tables, files, locals, Commit, NoDraft
    <2> QED
        BY <2>2, <2>3, <2>4, <2>5, <2>6
<1>3. ASSUME NEW p \in Procs, Record(p) PROVE SchemaInv'
    <2>1. PICK m \in Versions :
            /\ First(m, pending[p])
            /\ draft' = [recorded |-> View(p).recorded \cup {m}, row |-> View(p).row]
            /\ pending' = [pending EXCEPT ![p] = @ \ {m}]
        BY <1>3 DEF Record
    <2>2. draft'.recorded = View(p).recorded \cup {m}
        BY <2>1
    <2>3. recorded' \subseteq schema'
        BY <1>3, <2>1, <2>2 DEF Record, tables, files, locals, CanWrite
    <2>4. writer' # None => draft'.recorded \subseteq schema' /\ recorded' \subseteq draft'.recorded
        <3>1. m \in schema
            BY <1>3, <2>1 DEF Record
        <3>2. View(p).recorded \subseteq schema /\ recorded \subseteq View(p).recorded
            OBVIOUS
        <3>3. recorded' = recorded /\ schema' = schema
            BY <1>3 DEF Record, tables
        <3> QED
            BY <2>2, <3>1, <3>2, <3>3
    <2>5. \A q \in Procs : pc'[q] = "record" =>
            \A v \in Versions : First(v, pending'[q]) => v \in schema'
        BY <1>3, <2>1, <2>2 DEF Record, tables, files, locals, CanWrite
    <2>6. \A q \in Procs : pc'[q] \in {"migrate", "record"} =>
            Versions \subseteq pending'[q] \cup View(q)'.recorded
        BY <1>3, <2>1, <2>2 DEF Record, tables, files, locals, CanWrite
    <2>7. \A q \in Procs : pc'[q] \in {"check", "read", "insert", "archive", "up"} =>
            recorded' = Versions
        BY <1>3, <2>1, <2>2 DEF Record, tables, files, locals, CanWrite
    <2> QED
        BY <2>3, <2>4, <2>5, <2>6, <2>7
<1>4. ASSUME NEW p \in Procs, RecordTwice(p) PROVE SchemaInv'
    BY <1>4 DEF RecordTwice, tables, files, locals, GoDown, NoDraft
<1>5. ASSUME NEW p \in Procs, Migrated(p) PROVE SchemaInv'
    BY <1>5 DEF Migrated, tables, files, locals, Commit, NoDraft
<1>6. ASSUME NEW p \in Procs, Check(p) PROVE SchemaInv'
    BY <1>6 DEF Check, tables, files, locals, Proceed
<1>7. ASSUME NEW p \in Procs, Read(p) PROVE SchemaInv'
    BY <1>7 DEF Read, tables, files, locals
<1>8. ASSUME NEW p \in Procs, Insert(p) PROVE SchemaInv'
    <2>1. draft'.recorded = View(p).recorded
        BY <1>8 DEF Insert
    <2>2. recorded' \subseteq schema'
        BY <1>8, <2>1 DEF Insert, tables, files, locals, CanWrite
    <2>3. writer' # None => draft'.recorded \subseteq schema' /\ recorded' \subseteq draft'.recorded
        BY <1>8, <2>1 DEF Insert, tables, files, locals, CanWrite
    <2>4. \A q \in Procs : pc'[q] = "record" =>
            \A v \in Versions : First(v, pending'[q]) => v \in schema'
        BY <1>8, <2>1 DEF Insert, tables, files, locals, CanWrite
    <2>5. \A q \in Procs : pc'[q] \in {"migrate", "record"} =>
            Versions \subseteq pending'[q] \cup View(q)'.recorded
        BY <1>8, <2>1 DEF Insert, tables, files, locals, CanWrite
    <2>6. \A q \in Procs : pc'[q] \in {"check", "read", "insert", "archive", "up"} =>
            recorded' = Versions
        BY <1>8, <2>1 DEF Insert, tables, files, locals, CanWrite
    <2> QED
        BY <2>2, <2>3, <2>4, <2>5, <2>6
<1>9. ASSUME NEW p \in Procs, InsertNothing(p) PROVE SchemaInv'
    BY <1>9 DEF InsertNothing, tables, files, locals
<1>10. ASSUME NEW p \in Procs, Refuse(p) PROVE SchemaInv'
    BY <1>10 DEF Refuse, tables, files, locals, GoDown, NoDraft
<1>11. ASSUME NEW p \in Procs, Archive(p) PROVE SchemaInv'
    BY <1>11 DEF Archive, tables, files, locals, Proceed
<1>12. ASSUME NEW p \in Procs, ArchiveTwice(p) PROVE SchemaInv'
    BY <1>12 DEF ArchiveTwice, tables, files, locals, GoDown, NoDraft
<1>13. ASSUME NEW p \in Procs, Finish(p) PROVE SchemaInv'
    BY <1>13 DEF Finish, tables, files, locals, Commit, NoDraft
<1>14. ASSUME NEW p \in Procs, Change(p) PROVE SchemaInv'
    BY <1>14 DEF Change, tables, files, locals
<1>15. ASSUME NEW p \in Procs, LockTimeout(p) PROVE SchemaInv'
    BY <1>15 DEF LockTimeout, tables, files, locals, GoDown, NoDraft, CanWrite
<1>16. ASSUME NEW p \in Procs, Crash(p) PROVE SchemaInv'
    BY <1>16 DEF Crash, tables, files, locals, GoDown, NoDraft
<1>17. CASE UNCHANGED vars
    BY <1>17 DEF vars, tables, files, locals
<1> QED
    BY <1>1, <1>2, <1>3, <1>4, <1>5, <1>6, <1>7, <1>8, <1>9, <1>10, <1>11, <1>12, <1>13, <1>14, <1>15, <1>16, <1>17 DEF Next

-----------------------------------------------------------------------------
(* The import. *)

LEMMA ImportInit == Init => ImportInv
BY NoneAssumption DEF Init, ImportInv, DraftInv

LEMMA ImportStep ==
    ASSUME TypeOK, ImportInv, [Next]_vars
    PROVE  ImportInv'
<1> USE NoneAssumption, NumbersAssumption DEF TypeOK, ImportInv, DraftInv, View, Committed, First
<1>1. ASSUME NEW p \in Procs, Open(p) PROVE ImportInv'
    BY <1>1 DEF Open, tables, files, locals
<1>2. ASSUME NEW p \in Procs, RunScript(p) PROVE ImportInv'
    BY <1>2 DEF RunScript, tables, files, locals, Commit, NoDraft
<1>3. ASSUME NEW p \in Procs, Record(p) PROVE ImportInv'
    BY <1>3 DEF Record, tables, files, locals, CanWrite
<1>4. ASSUME NEW p \in Procs, RecordTwice(p) PROVE ImportInv'
    <2>1. UNCHANGED <<row, file>>
        BY <1>4 DEF RecordTwice, GoDown, tables, files
    <2>2. pc'[p] = "down" /\ \A q \in Procs : q # p => pc'[q] = pc[q] /\ todo'[q] = todo[q]
        BY <1>4 DEF RecordTwice, GoDown
    <2>3. \A q \in Procs : writer' = q => q # p /\ writer = q /\ draft' = draft
        BY <1>4 DEF RecordTwice, GoDown
    <2>4. ASSUME NEW q \in Procs, writer' = q PROVE DraftInv(q)'
        <3>1. DraftInv(q) /\ pc'[q] = pc[q] /\ todo'[q] = todo[q] /\ draft' = draft
            BY <2>2, <2>3, <2>4
        <3> QED
            BY <2>1, <3>1
    <2>5. \A f \in file' : row'[f] = "absent"
        BY <2>1
    <2>6. \A q \in Procs : pc'[q] \in {"check", "read", "insert", "archive"} => file' \subseteq todo'[q]
        BY <2>1, <2>2
    <2>7. \A q \in Procs : pc'[q] = "up" => file' = {}
        BY <2>1, <2>2
    <2> QED
        BY <2>4, <2>5, <2>6, <2>7
<1>5. ASSUME NEW p \in Procs, Migrated(p) PROVE ImportInv'
    BY <1>5 DEF Migrated, tables, files, locals, Commit, NoDraft
<1>6. ASSUME NEW p \in Procs, Check(p) PROVE ImportInv'
    <2>1. PICK f \in Files :
            /\ First(f, todo[p])
            /\ IF f \in file /\ View(p).row[f] = "absent"
               THEN pc' = [pc EXCEPT ![p] = "read"] /\ UNCHANGED todo
               ELSE Proceed(p, f)
        BY <1>6 DEF Check
    <2>2. f \in file => View(p).row[f] = "absent"
        BY <1>6 DEF Check
    <2>3. /\ pc[p] = "check" /\ UNCHANGED <<row, draft, writer, file>>
          /\ pc' = [pc EXCEPT ![p] = "read"] \/ pc' = [pc EXCEPT ![p] = "check"]
          /\ \/ todo' = todo
             \/ f \notin file /\ todo' = [todo EXCEPT ![p] = @ \ {f}]
        <3>1. pc[p] = "check" /\ UNCHANGED <<row, draft, writer, file>>
            BY <1>6 DEF Check, tables, files
        <3>2. CASE f \in file /\ View(p).row[f] = "absent"
            <4>1. pc' = [pc EXCEPT ![p] = "read"] /\ todo' = todo
                BY <2>1, <3>2
            <4> QED
                BY <3>1, <4>1
        <3>3. CASE ~(f \in file /\ View(p).row[f] = "absent")
            <4>1. Proceed(p, f)
                BY <2>1, <3>3
            <4>2. f \notin file
                BY <2>2, <3>3
            <4> QED
                BY <3>1, <4>1, <4>2 DEF Proceed
        <3> QED
            BY <3>2, <3>3
    <2>4. pc'[p] \in {"read", "check"} /\ \A q \in Procs : q # p => pc'[q] = pc[q] /\ todo'[q] = todo[q]
        BY <2>3
    <2>5. \A g \in file' : row'[g] = "absent"
        BY <2>3
    <2>6. ASSUME NEW q \in Procs, writer' = q PROVE DraftInv(q)'
        <3>1. CASE q = p
            BY <3>1, <2>3, <2>4, <2>6
        <3>2. CASE q # p
            <4>1. DraftInv(q) /\ pc'[q] = pc[q] /\ todo'[q] = todo[q]
                BY <3>2, <2>3, <2>4, <2>6
            <4> QED
                BY <2>3, <4>1
        <3> QED
            BY <3>1, <3>2
    <2>7. \A q \in Procs : pc'[q] \in {"check", "read", "insert", "archive"} => file' \subseteq todo'[q]
        BY <2>3, <2>4
    <2>8. \A q \in Procs : pc'[q] = "up" => file' = {}
        BY <2>3, <2>4
    <2> QED
        BY <2>5, <2>6, <2>7, <2>8
<1>7. ASSUME NEW p \in Procs, Read(p) PROVE ImportInv'
    BY <1>7 DEF Read, tables, files, locals
<1>8. ASSUME NEW p \in Procs, Insert(p) PROVE ImportInv'
    BY <1>8 DEF Insert, tables, files, locals, CanWrite
<1>9. ASSUME NEW p \in Procs, InsertNothing(p) PROVE ImportInv'
    BY <1>9 DEF InsertNothing, tables, files, locals
<1>10. ASSUME NEW p \in Procs, Refuse(p) PROVE ImportInv'
    BY <1>10 DEF Refuse, tables, files, locals, GoDown, NoDraft
<1>11. ASSUME NEW p \in Procs, Archive(p) PROVE ImportInv'
    BY <1>11 DEF Archive, tables, files, locals, Proceed
<1>12. ASSUME NEW p \in Procs, ArchiveTwice(p) PROVE ImportInv'
    BY <1>12 DEF ArchiveTwice, tables, files, locals, GoDown, NoDraft
<1>13. ASSUME NEW p \in Procs, Finish(p) PROVE ImportInv'
    BY <1>13 DEF Finish, tables, files, locals, Commit, NoDraft
<1>14. ASSUME NEW p \in Procs, Change(p) PROVE ImportInv'
    BY <1>14 DEF Change, tables, files, locals
<1>15. ASSUME NEW p \in Procs, LockTimeout(p) PROVE ImportInv'
    BY <1>15 DEF LockTimeout, tables, files, locals, GoDown, NoDraft, CanWrite
<1>16. ASSUME NEW p \in Procs, Crash(p) PROVE ImportInv'
    BY <1>16 DEF Crash, tables, files, locals, GoDown, NoDraft
<1>17. CASE UNCHANGED vars
    BY <1>17 DEF vars, tables, files, locals
<1> QED
    BY <1>1, <1>2, <1>3, <1>4, <1>5, <1>6, <1>7, <1>8, <1>9, <1>10, <1>11, <1>12, <1>13, <1>14, <1>15, <1>16, <1>17 DEF Next

-----------------------------------------------------------------------------
(* A refused file stays in place. *)

LEMMA ContentStays == ASSUME [Next]_vars PROVE content' = content
BY DEF Next, vars, files, Open, RunScript, Record, RecordTwice, Migrated, Check, Read, Insert,
    InsertNothing, Refuse, Archive, ArchiveTwice, Finish, Change, LockTimeout, Crash

LEMMA HeldInit == Init => HeldInv
BY DEF Init, HeldInv, Held, First

LEMMA HeldStep ==
    ASSUME TypeOK, ImportInv, Readable => HeldInv, [Next]_vars, Readable'
    PROVE  HeldInv'
<1> USE NumbersAssumption DEF TypeOK, ImportInv, Readable, HeldInv, Held, First
<1>1. ASSUME NEW p \in Procs, Open(p) PROVE HeldInv'
    BY <1>1 DEF Open, tables, files, locals
<1>2. ASSUME NEW p \in Procs, RunScript(p) PROVE HeldInv'
    BY <1>2 DEF RunScript, tables, files, locals, Commit, NoDraft
<1>3. ASSUME NEW p \in Procs, Record(p) PROVE HeldInv'
    BY <1>3 DEF Record, tables, files, locals, CanWrite
<1>4. ASSUME NEW p \in Procs, RecordTwice(p) PROVE HeldInv'
    BY <1>4 DEF RecordTwice, tables, files, locals, GoDown, NoDraft
<1>5. ASSUME NEW p \in Procs, Migrated(p) PROVE HeldInv'
    BY <1>5 DEF Migrated, tables, files, locals, Commit, NoDraft
<1>6. ASSUME NEW p \in Procs, Check(p) PROVE HeldInv'
    BY <1>6 DEF Check, tables, files, locals, Proceed
<1>7. ASSUME NEW p \in Procs, Read(p) PROVE HeldInv'
    BY <1>7 DEF Read, tables, files, locals, Happens
<1>8. ASSUME NEW p \in Procs, Insert(p) PROVE HeldInv'
    BY <1>8 DEF Insert, tables, files, locals, CanWrite
<1>9. ASSUME NEW p \in Procs, InsertNothing(p) PROVE HeldInv'
    BY <1>9 DEF InsertNothing, tables, files, locals
<1>10. ASSUME NEW p \in Procs, Refuse(p) PROVE HeldInv'
    BY <1>10 DEF Refuse, tables, files, locals, GoDown, NoDraft
<1>11. ASSUME NEW p \in Procs, Archive(p) PROVE HeldInv'
    BY <1>11 DEF Archive, tables, files, locals, Proceed
<1>12. ASSUME NEW p \in Procs, ArchiveTwice(p) PROVE HeldInv'
    BY <1>12 DEF ArchiveTwice, tables, files, locals, GoDown, NoDraft
<1>13. ASSUME NEW p \in Procs, Finish(p) PROVE HeldInv'
    BY <1>13 DEF Finish, tables, files, locals, Commit, NoDraft
<1>14. ASSUME NEW p \in Procs, Change(p) PROVE HeldInv'
    BY <1>14 DEF Change, tables, files, locals
<1>15. ASSUME NEW p \in Procs, LockTimeout(p) PROVE HeldInv'
    BY <1>15 DEF LockTimeout, tables, files, locals, GoDown, NoDraft, CanWrite, Happens
<1>16. ASSUME NEW p \in Procs, Crash(p) PROVE HeldInv'
    BY <1>16 DEF Crash, tables, files, locals, GoDown, NoDraft, Happens
<1>17. CASE UNCHANGED vars
    BY <1>17 DEF vars, tables, files, locals
<1> QED
    BY <1>1, <1>2, <1>3, <1>4, <1>5, <1>6, <1>7, <1>8, <1>9, <1>10, <1>11, <1>12, <1>13, <1>14, <1>15, <1>16, <1>17 DEF Next

-----------------------------------------------------------------------------
(* What is archived is kept. *)

LEMMA KeepInit == Init => KeepInv
BY NoneAssumption DEF Init, KeepInv, OnlyWriterArchives, DraftIsBehind

\* What a step that leaves the files alone does not change about another process.
LEMMA OthersArchive ==
    ASSUME NEW q \in Procs, OnlyWriterArchives(q), UNCHANGED <<row, file>>, file \subseteq Files,
           \A f \in Files : Trailing(f)' <=> Trailing(f),
           pc'[q] = pc[q], todo'[q] = todo[q], got'[q] = got[q],
           writer' = q <=> writer = q, writer = q => draft' = draft
    PROVE  OnlyWriterArchives(q)'
<1>1. CASE writer = q
    BY <1>1 DEF OnlyWriterArchives
<1>2. CASE writer # q
    BY <1>2 DEF OnlyWriterArchives
<1> QED
    BY <1>1, <1>2

LEMMA StillBehind ==
    ASSUME NEW q \in Procs, DraftIsBehind(q), UNCHANGED row, todo'[q] \subseteq todo[q],
           writer' = q => writer = q /\ draft' = draft
    PROVE  DraftIsBehind(q)'
BY DEF DraftIsBehind

\* A file that stands behind no file but good ones is good itself.
LEMMA TrailingIsGood ==
    ASSUME NEW f \in Files, Trailing(f)
    PROVE  content[f] = "good"
<1>1. f \in Nat
    BY NumbersAssumption
<1>2. f <= f
    BY <1>1
<1> QED
    BY <1>2 DEF Trailing

\* The commit at the end keeps what the transaction has stored.
LEMMA KeepFinish ==
    ASSUME TypeOK, ImportInv, KeepInv, NEW p \in Procs, Finish(p),
           \A f \in Files : Trailing(f)' <=> Trailing(f)
    PROVE  KeepInv'
<1>1. /\ UNCHANGED <<file, todo, got>> /\ pc[p] = "check"
      /\ pc' = [pc EXCEPT ![p] = "up"]
    BY DEF Finish, files, locals
<1>2. pc'[p] = "up" /\ \A q \in Procs : q # p => pc'[q] = pc[q]
    BY <1>1 DEF TypeOK
<1>3. writer = p => writer' = None /\ row' = draft.row
    BY DEF Finish, Commit, View
<1>4. writer # p => UNCHANGED <<writer, draft, row>>
    BY DEF Finish, Commit, View, Committed
<1>5. p # None /\ file \subseteq Files
    BY NoneAssumption DEF TypeOK
<1>6. ASSUME NEW q \in Procs PROVE OnlyWriterArchives(q)'
    <2>0. q # None /\ OnlyWriterArchives(q)
        BY NoneAssumption DEF KeepInv
    <2>1. CASE q = p
        BY <1>2, <2>1 DEF OnlyWriterArchives
    <2>2. CASE q # p /\ writer # p
        <3>1. pc'[q] = pc[q] /\ todo'[q] = todo[q] /\ got'[q] = got[q]
            BY <1>1, <1>2, <2>2
        <3> QED
            BY <1>1, <1>4, <1>5, <2>0, <2>2, <3>1, OthersArchive
    <2>3. CASE q # p /\ writer = p
        <3>1. writer' # q /\ writer # q
            BY <1>3, <2>0, <2>3
        <3>2. pc'[q] = pc[q] /\ todo'[q] = todo[q] /\ got'[q] = got[q] /\ file' = file
            BY <1>1, <1>2, <2>3
        <3> QED
            BY <1>5, <2>0, <3>1, <3>2 DEF OnlyWriterArchives
    <2> QED
        BY <2>1, <2>2, <2>3
<1>7. ASSUME NEW q \in Procs PROVE DraftIsBehind(q)'
    <2>1. CASE writer = p
        <3>1. writer' # q
            BY <1>3, <2>1, NoneAssumption
        <3> QED
            BY <3>1 DEF DraftIsBehind
    <2>2. CASE writer # p
        BY <1>1, <1>4, <2>2 DEF KeepInv, DraftIsBehind
    <2> QED
        BY <2>1, <2>2
<1>8. ASSUME NEW f \in Files \ file', Trailing(f)' PROVE Stored(f)'
    <2>1. Stored(f)
        BY <1>1, <1>8 DEF KeepInv
    <2>2. CASE row[f] # "absent"
        <3>1. CASE writer = p
            <4>1. draft.row[f] = row[f] \/ draft.row[f] = "imported"
                BY <3>1 DEF ImportInv, DraftInv
            <4> QED
                BY <1>3, <2>2, <3>1, <4>1 DEF Stored
        <3>2. CASE writer # p
            BY <1>4, <2>2, <3>2 DEF Stored
        <3> QED
            BY <3>1, <3>2
    <2>3. CASE row[f] = "absent"
        <3>1. PICK q \in Procs :
                /\ writer = q /\ draft.row[f] # "absent"
                /\ ~(pc[q] = "archive" /\ First(f, todo[q]))
            BY <2>1, <2>3 DEF Stored
        <3>2. CASE q = p
            BY <1>3, <3>1, <3>2 DEF Stored
        <3>3. CASE q # p
            <4>1. UNCHANGED <<writer, draft, row>> /\ pc'[q] = pc[q] /\ todo'[q] = todo[q]
                BY <1>1, <1>2, <1>4, <3>1, <3>3
            <4>2. /\ writer' = q /\ draft'.row[f] # "absent"
                  /\ ~(pc'[q] = "archive" /\ First(f, todo'[q]))
                BY <3>1, <4>1 DEF First
            <4> QED
                BY <4>2 DEF Stored
        <3> QED
            BY <3>2, <3>3
    <2> QED
        BY <2>2, <2>3
<1> QED
    BY <1>6, <1>7, <1>8 DEF KeepInv

LEMMA KeepStep ==
    ASSUME TypeOK, ImportInv, ImportInv', Clean => KeepInv, [Next]_vars, Clean'
    PROVE  KeepInv'
<1> USE NoneAssumption, NumbersAssumption DEF TypeOK, ImportInv, DraftInv, Clean, KeepInv,
        OnlyWriterArchives, DraftIsBehind, Stored, View, Committed, First
<1>0. \A f \in Files : Trailing(f)' <=> Trailing(f)
    BY ContentStays DEF Trailing
<1>1. ASSUME NEW p \in Procs, Open(p) PROVE KeepInv'
    BY <1>0, <1>1 DEF Open, tables, files, locals
<1>2. ASSUME NEW p \in Procs, RunScript(p) PROVE KeepInv'
    BY <1>0, <1>2 DEF RunScript, tables, files, locals, Commit, NoDraft
<1>3. ASSUME NEW p \in Procs, Record(p) PROVE KeepInv'
    BY <1>0, <1>3 DEF Record, tables, files, locals, CanWrite
<1>4. ASSUME NEW p \in Procs, RecordTwice(p) PROVE KeepInv'
    BY <1>0, <1>4 DEF RecordTwice, tables, files, locals, GoDown, NoDraft
<1>5. ASSUME NEW p \in Procs, Migrated(p) PROVE KeepInv'
    <2>1. KeepInv /\ UNCHANGED <<row, file, got>> /\ pc[p] = "migrate"
        BY <1>5 DEF Migrated, Commit, files
    <2>2. pc'[p] = "check" /\ \A q \in Procs : q # p => pc'[q] = pc[q] /\ todo'[q] = todo[q]
        BY <1>5 DEF Migrated
    <2>3. writer = p => writer' = None /\ draft.row = row
        BY <1>5, <2>1 DEF Migrated, Commit
    <2>4. writer # p => writer' = writer /\ draft' = draft
        BY <1>5 DEF Migrated, Commit
    <2>5. ASSUME NEW q \in Procs \ {p} PROVE OnlyWriterArchives(q)' /\ DraftIsBehind(q)'
        <3>1. /\ OnlyWriterArchives(q) /\ DraftIsBehind(q)
              /\ pc'[q] = pc[q] /\ todo'[q] = todo[q] /\ got'[q] = got[q]
              /\ (writer' = q) <=> (writer = q)
              /\ writer' = q => draft' = draft
            <4>1. OnlyWriterArchives(q) /\ DraftIsBehind(q)
                BY <2>1
            <4>2. pc'[q] = pc[q] /\ todo'[q] = todo[q] /\ got'[q] = got[q]
                BY <2>1, <2>2
            <4>3. q # p /\ q # None
                OBVIOUS
            <4>4. (writer' = q) <=> (writer = q)
                BY <2>3, <2>4, <4>3
            <4>5. writer' = q => draft' = draft
                BY <2>3, <2>4, <4>3
            <4> QED
                BY <4>1, <4>2, <4>4, <4>5, Zenon
        <3> QED
            <4>1. OnlyWriterArchives(q)'
                BY <1>0, <2>1, <3>1, OthersArchive
            <4>2. DraftIsBehind(q)'
                BY <2>1, <3>1, StillBehind
            <4> QED
                BY <4>1, <4>2
    <2>6. OnlyWriterArchives(p)' /\ DraftIsBehind(p)'
        BY <2>2, <2>3, <2>4
    <2>7. \A f \in Files \ file' : Trailing(f)' => Stored(f)'
        BY <1>0, <2>1, <2>2, <2>3, <2>4
    <2> QED
        BY <2>5, <2>6, <2>7
<1>6. ASSUME NEW p \in Procs, Check(p) PROVE KeepInv'
    <2>1. KeepInv /\ UNCHANGED <<row, file, writer, draft, got>> /\ pc[p] = "check"
        BY <1>6 DEF Check, files, tables
    <2>2. PICK e \in Files :
            /\ First(e, todo[p])
            /\ \/ e \in file /\ pc' = [pc EXCEPT ![p] = "read"] /\ todo' = todo
               \/ Proceed(p, e)
        BY <1>6 DEF Check
    <2>3. /\ \A q \in Procs : q # p => pc'[q] = pc[q] /\ todo'[q] = todo[q]
          /\ \/ pc'[p] = "read" /\ e \in file /\ todo'[p] = todo[p]
             \/ pc'[p] = "check" /\ todo'[p] = todo[p] \ {e}
        BY <2>2 DEF Proceed
    <2>4. \A q \in Procs : OnlyWriterArchives(q)'
        BY <1>0, <2>1, <2>2, <2>3
    <2>5. ASSUME NEW q \in Procs PROVE DraftIsBehind(q)'
        <3>1. DraftIsBehind(q) /\ todo'[q] \subseteq todo[q]
            BY <2>1, <2>3
        <3> QED
            BY <2>1, <3>1
    <2>6. \A f \in Files \ file' : Trailing(f)' => Stored(f)'
        BY <1>0, <2>1, <2>2, <2>3
    <2> QED
        BY <2>4, <2>5, <2>6
<1>7. ASSUME NEW p \in Procs, Read(p) PROVE KeepInv'
    <2>1. PICK e \in Files :
            /\ First(e, todo[p])
            /\ \/ e \in file /\ got' = [got EXCEPT ![p] = TRUE]
               \/ e \notin file /\ got' = [got EXCEPT ![p] = FALSE]
               \/ content[e] = "blank" /\ got' = [got EXCEPT ![p] = FALSE]
        BY <1>7 DEF Read, Happens
    <2>2. /\ KeepInv /\ UNCHANGED <<row, file, writer, draft, todo>>
          /\ pc[p] = "read" /\ pc' = [pc EXCEPT ![p] = "insert"]
        <3>1. UNCHANGED happened
            BY <1>7 DEF Read, Happens
        <3>2. KeepInv
            BY <3>1
        <3>3. UNCHANGED <<row, file, writer, draft, todo>>
            BY <1>7 DEF Read, files, tables
        <3>4. pc[p] = "read" /\ pc' = [pc EXCEPT ![p] = "insert"]
            BY <1>7 DEF Read
        <3> QED
            BY <3>2, <3>3, <3>4, Zenon
    <2>3. Trailing(e) => (got'[p] <=> e \in file)
        <3>1. Trailing(e) => content[e] # "blank"
            BY TrailingIsGood
        <3>2. p \in DOMAIN got
            OBVIOUS
        <3> QED
            BY <2>1, <3>1, <3>2
    <2>4. \A q \in Procs : q # p => pc'[q] = pc[q] /\ got'[q] = got[q]
        BY <2>1, <2>2
    <2>5. ASSUME NEW q \in Procs \ {p} PROVE OnlyWriterArchives(q)'
        <3>1. OnlyWriterArchives(q) /\ pc'[q] = pc[q] /\ got'[q] = got[q]
            BY <2>2, <2>4
        <3> QED
            BY <1>0, <2>2, <3>1, OthersArchive
    <2>6. OnlyWriterArchives(p)'
        <3>1. OnlyWriterArchives(p) /\ pc'[p] = "insert"
            BY <2>2
        <3>2. \A f \in Files : First(f, todo[p]) => f = e
            BY <2>1
        <3> QED
            BY <1>0, <2>1, <2>2, <2>3, <3>1, <3>2
    <2>7. ASSUME NEW q \in Procs PROVE DraftIsBehind(q)'
        BY <2>2
    <2>8. ASSUME NEW f \in Files \ file', Trailing(f)' PROVE Stored(f)'
        <3>1. Stored(f)
            BY <1>0, <2>2, <2>8
        <3> QED
            BY <2>2, <3>1
    <2> QED
        BY <2>5, <2>6, <2>7, <2>8
<1>8. ASSUME NEW p \in Procs, Insert(p) PROVE KeepInv'
    BY <1>0, <1>8 DEF Insert, tables, files, locals, CanWrite
<1>9. ASSUME NEW p \in Procs, InsertNothing(p) PROVE KeepInv'
    BY <1>0, <1>9 DEF InsertNothing, tables, files, locals
<1>10. ASSUME NEW p \in Procs, Refuse(p) PROVE KeepInv'
    <2>1. KeepInv /\ UNCHANGED <<row, file>> /\ pc[p] \in {"read", "insert"}
        BY <1>10 DEF Refuse, GoDown, tables, files
    <2>2. PICK e \in Files : First(e, todo[p]) /\ content[e] = "refused"
        BY <1>10 DEF Refuse
    <2>3. pc'[p] = "down" /\ \A q \in Procs : q # p =>
            pc'[q] = pc[q] /\ todo'[q] = todo[q] /\ got'[q] = got[q]
        BY <1>10 DEF Refuse, GoDown
    <2>4. ASSUME writer = p, NEW g \in Files \ file, Trailing(g) PROVE row[g] # "absent"
        <3>1. row[g] # "absent" \/ draft.row[g] # row[g]
            BY <2>1, <2>4
        <3>2. draft.row[g] # row[g] => g <= e
            BY <2>1, <2>2, <2>4
        <3> QED
            BY <2>2, <2>4, <3>1, <3>2 DEF Trailing
    <2>5. writer = p => writer' = None
        BY <1>10 DEF Refuse, GoDown
    <2>6. writer # p => writer' = writer /\ draft' = draft
        BY <1>10 DEF Refuse, GoDown
    <2>7. \A q \in Procs : OnlyWriterArchives(q)'
        BY <1>0, <2>1, <2>3, <2>5, <2>6
    <2>8. ASSUME NEW q \in Procs PROVE DraftIsBehind(q)'
        <3>1. CASE q = p
            BY <2>5, <2>6, <3>1
        <3>2. CASE q # p
            <4>1. DraftIsBehind(q) /\ todo'[q] = todo[q]
                BY <2>1, <2>3, <3>2
            <4>2. writer' = q => writer = q /\ draft' = draft
                BY <2>5, <2>6, <3>2
            <4> QED
                BY <2>1, <4>1, <4>2, StillBehind
        <3> QED
            BY <3>1, <3>2
    <2>9. \A f \in Files \ file' : Trailing(f)' => Stored(f)'
        BY <1>0, <2>1, <2>3, <2>4, <2>6
    <2> QED
        BY <2>7, <2>8, <2>9
<1>11. ASSUME NEW p \in Procs, Archive(p) PROVE KeepInv'
    BY <1>0, <1>11 DEF Archive, tables, files, locals, Proceed
<1>12. ASSUME NEW p \in Procs, ArchiveTwice(p) PROVE KeepInv'
    <2>1. KeepInv /\ UNCHANGED <<row, file>> /\ pc[p] \in {"archive"}
        BY <1>12 DEF ArchiveTwice, GoDown, tables, files
    <2>2. PICK e \in Files : First(e, todo[p]) /\ e \notin file
        BY <1>12 DEF ArchiveTwice
    <2>3. pc'[p] = "down" /\ \A q \in Procs : q # p =>
            pc'[q] = pc[q] /\ todo'[q] = todo[q] /\ got'[q] = got[q]
        BY <1>12 DEF ArchiveTwice, GoDown
    <2>4. ASSUME writer = p, NEW g \in Files \ file, Trailing(g) PROVE row[g] # "absent"
        <3>1. \/ row[g] # "absent"
              \/ draft.row[g] # row[g] /\ ~First(g, todo[p])
            <4>1. Stored(g)
                BY <2>1, <2>4
            <4> QED
                BY <2>1, <2>4, <4>1
        <3>2. CASE Trailing(e)
            <4>1. g # e => draft.row[g] = row[g]
                BY <2>1, <2>2, <2>4, <3>2
            <4> QED
                BY <2>2, <3>1, <4>1
        <3>3. CASE ~Trailing(e)
            <4>1. draft.row[g] # row[g] => g <= e
                BY <2>1, <2>2, <2>4
            <4>2. ~(g <= e)
                BY <2>4, <3>3 DEF Trailing
            <4> QED
                BY <3>1, <4>1, <4>2
        <3> QED
            BY <3>2, <3>3
    <2>5. writer = p => writer' = None
        BY <1>12 DEF ArchiveTwice, GoDown
    <2>6. writer # p => writer' = writer /\ draft' = draft
        BY <1>12 DEF ArchiveTwice, GoDown
    <2>7. \A q \in Procs : OnlyWriterArchives(q)'
        BY <1>0, <2>1, <2>3, <2>5, <2>6
    <2>8. ASSUME NEW q \in Procs PROVE DraftIsBehind(q)'
        <3>1. CASE q = p
            BY <2>5, <2>6, <3>1
        <3>2. CASE q # p
            <4>1. DraftIsBehind(q) /\ todo'[q] = todo[q]
                BY <2>1, <2>3, <3>2
            <4>2. writer' = q => writer = q /\ draft' = draft
                BY <2>5, <2>6, <3>2
            <4> QED
                BY <2>1, <4>1, <4>2, StillBehind
        <3> QED
            BY <3>1, <3>2
    <2>9. \A f \in Files \ file' : Trailing(f)' => Stored(f)'
        BY <1>0, <2>1, <2>3, <2>4, <2>6
    <2> QED
        BY <2>7, <2>8, <2>9, Zenon
<1>13. ASSUME NEW p \in Procs, Finish(p) PROVE KeepInv'
    <2>1. KeepInv
        BY <1>13 DEF Finish
    <2> QED
        BY <1>0, <1>13, <2>1, KeepFinish
<1>14. ASSUME NEW p \in Procs, Change(p) PROVE KeepInv'
    BY <1>0, <1>14 DEF Change, tables, files, locals
<1>15. ASSUME NEW p \in Procs, LockTimeout(p) PROVE KeepInv'
    BY <1>0, <1>15 DEF LockTimeout, tables, files, locals, GoDown, NoDraft, CanWrite, Happens
<1>16. ASSUME NEW p \in Procs, Crash(p) PROVE KeepInv'
    BY <1>0, <1>16 DEF Crash, tables, files, locals, GoDown, NoDraft, Happens
<1>17. CASE UNCHANGED vars
    BY <1>0, <1>17 DEF vars, tables, files, locals
<1> QED
    BY <1>1, <1>2, <1>3, <1>4, <1>5, <1>6, <1>7, <1>8, <1>9, <1>10, <1>11, <1>12, <1>13, <1>14, <1>15, <1>16, <1>17 DEF Next

-----------------------------------------------------------------------------
(* Theorems. *)

LEMMA Invariance == Spec => []IInv
<1>1. Init => IInv
    BY TypeInit, SchemaInit, ImportInit, HeldInit, KeepInit DEF IInv
<1>2. IInv /\ [Next]_vars => IInv'
    <2> SUFFICES ASSUME IInv, [Next]_vars PROVE IInv'
        OBVIOUS
    <2>1. TypeOK'
        BY TypeStep DEF IInv
    <2>2. SchemaInv'
        BY SchemaStep DEF IInv
    <2>3. ImportInv'
        BY ImportStep DEF IInv
    <2>4. Readable' => HeldInv'
        BY HeldStep DEF IInv
    <2>5. Clean' => KeepInv'
        BY <2>3, KeepStep DEF IInv
    <2> QED
        BY <2>1, <2>2, <2>3, <2>4, <2>5 DEF IInv
<1> QED
    BY <1>1, <1>2, PTL DEF Spec

\* The database, the files and the processes stay well typed.
THEOREM TypeCorrect == Spec => []TypeOK
<1>1. IInv => TypeOK
    BY DEF IInv
<1> QED
    BY <1>1, Invariance, PTL

\* No migration is recorded whose script has not run, whatever interleaving of starts
\* and whatever crashes there are.
THEOREM RecordedMigrationsHaveRun == Spec => []RecordedIsRun
<1>1. IInv => RecordedIsRun
    BY DEF IInv, SchemaInv, RecordedIsRun
<1> QED
    BY <1>1, Invariance, PTL

\* A process that has come up finds all migrations applied, and no legacy file waits
\* whose rows are missing.
THEOREM StartedMeansMigrated == Spec => []UpIsMigrated
<1>1. IInv => UpIsMigrated
    BY DEF IInv, SchemaInv, ImportInv, UpIsMigrated
<1> QED
    BY <1>1, Invariance, PTL

\* A legacy file that is refused, or comes after one that is, stays in place, and one
\* that is good, as are all after it, is in place or its rows are stored or about to be.
THEOREM LegacyIsNotLost == Spec => []LegacySurvives
<1>1. IInv => LegacySurvives
    <2> SUFFICES ASSUME IInv, "unreadable" \notin happened, NEW f \in Files
                 PROVE  /\ OutOfReach(f) => f \in file
                        /\ Safe(f) => \/ f \in file
                                      \/ row[f] # "absent"
                                      \/ writer # None /\ draft.row[f] # "absent"
        BY DEF LegacySurvives
    <2>1. OutOfReach(f) => f \in file
        BY DEF IInv, Readable, HeldInv, Held, OutOfReach
    <2>2. Safe(f) /\ f \notin file => Stored(f)
        BY DEF IInv, Clean, KeepInv, Safe, Trailing
    <2>3. Stored(f) => row[f] # "absent" \/ (writer # None /\ draft.row[f] # "absent")
        BY NoneAssumption DEF Stored
    <2> QED
        BY <2>1, <2>2, <2>3
<1> QED
    BY <1>1, Invariance, PTL

\* A legacy file that is refused keeps all processes from coming up, however often they
\* are started, unless a start finds a file unreadable and moves it away.
THEOREM RefusalsLast ==
    Spec => [](\A g \in Files : content[g] = "refused" /\ "unreadable" \notin happened
                => g \in file /\ \A p \in Procs : pc[p] # "up")
<1>1. ASSUME IInv, NEW g \in Files, content[g] = "refused", "unreadable" \notin happened
      PROVE  g \in file /\ \A p \in Procs : pc[p] # "up"
    <2>1. g \in file
        BY <1>1, NumbersAssumption DEF IInv, Readable, HeldInv, Held
    <2> QED
        BY <1>1, <2>1 DEF IInv, ImportInv
<1>2. IInv => \A g \in Files : content[g] = "refused" /\ "unreadable" \notin happened
                => g \in file /\ \A p \in Procs : pc[p] # "up"
    BY <1>1
<1> QED
    BY <1>2, Invariance, PTL

\* What the job queue and the other users of the tables have changed is not
\* overwritten by a late import.
THEOREM LateImportsChangeNothing == Spec => ChangesSurvive
<1> DEFINE Kept == \A f \in Files : row[f] = "changed" => row'[f] = "changed"
<1>1. IInv /\ [Next]_vars => [Kept]_vars
    <2> SUFFICES ASSUME IInv, [Next]_vars, NEW f \in Files, row[f] = "changed"
                 PROVE  row'[f] = "changed" \/ UNCHANGED vars
        BY DEF vars
    <2> USE NoneAssumption DEF IInv, TypeOK, ImportInv, DraftInv, View, Committed, Commit
    <2>1. ASSUME NEW p \in Procs, RunScript(p) PROVE row'[f] = "changed"
        BY <2>1 DEF RunScript
    <2>2. ASSUME NEW p \in Procs, Migrated(p) PROVE row'[f] = "changed"
        BY <2>2 DEF Migrated
    <2>3. ASSUME NEW p \in Procs, Finish(p) PROVE row'[f] = "changed"
        BY <2>3 DEF Finish
    <2>4. ASSUME NEW p \in Procs, Change(p) PROVE row'[f] = "changed"
        BY <2>4 DEF Change
    <2>5. CASE UNCHANGED row
        BY <2>5
    <2> QED
        BY <2>1, <2>2, <2>3, <2>4, <2>5
        DEF Next, Open, Record, RecordTwice, Check, Read, Insert, InsertNothing, Refuse,
            Archive, ArchiveTwice, LockTimeout, Crash, GoDown, tables, vars
<1> QED
    BY <1>1, Invariance, PTL DEF Spec, ChangesSurvive

\* A migration script is run only when those before it have run, whoever ran them.
THEOREM ScriptsRunInOrder ==
    Spec => [][\A v \in schema' \ schema, w \in Versions : w < v => w \in schema]_vars
<1>1. ASSUME IInv, [Next]_vars, NEW v \in schema' \ schema, NEW w \in Versions, w < v
      PROVE  w \in schema
    <2>1. PICK p \in Procs : RunScript(p)
        BY <1>1 DEF Next, Open, Record, RecordTwice, Migrated, Check, Read, Insert, InsertNothing, Refuse,
            Archive, ArchiveTwice, Finish, Change, LockTimeout, Crash, GoDown, tables, vars
    <2>2. PICK m \in Versions : First(m, pending[p]) /\ schema' = schema \cup {m}
        BY <2>1 DEF RunScript
    <2>3. v = m /\ m \in Nat /\ w \in Nat
        BY <1>1, <2>2, NumbersAssumption
    <2>4. w \notin pending[p]
        BY <1>1, <2>2, <2>3 DEF First
    <2>5. w \in View(p).recorded
        BY <1>1, <2>1, <2>4 DEF IInv, SchemaInv, RunScript
    <2>6. View(p).recorded \subseteq schema
        BY <1>1, NoneAssumption DEF IInv, SchemaInv, View, Committed
    <2> QED
        BY <2>5, <2>6
<1> DEFINE InOrder == \A v \in schema' \ schema, w \in Versions : w < v => w \in schema
<1>2. IInv /\ [Next]_vars => [InOrder]_vars
    BY <1>1
<1> QED
    BY <1>2, Invariance, PTL DEF Spec

-----------------------------------------------------------------------------
(* Starts end, and conflicts run out. *)

LEMMA Removed ==
    ASSUME NEW S, IsFiniteSet(S), NEW T \in SUBSET S, NEW x \in T
    PROVE  /\ Cardinality(T) \in Nat /\ Cardinality(T \ {x}) \in Nat
           /\ Cardinality(T \ {x}) = Cardinality(T) - 1
BY FS_Subset, FS_RemoveElement, FS_CardinalityType

LEMMA Sized ==
    ASSUME NEW S, IsFiniteSet(S), NEW T \in SUBSET S
    PROVE  Cardinality(T) \in 0..Cardinality(S) /\ Cardinality(S) \in Nat
BY FS_Subset, FS_CardinalityType

LEMMA Shrinks ==
    ASSUME NEW S, IsFiniteSet(S), NEW T \in SUBSET S, NEW U \in SUBSET T
    PROVE  /\ Cardinality(U) \in Nat /\ Cardinality(T) \in Nat
           /\ Cardinality(U) <= Cardinality(T)
           /\ U # T => Cardinality(U) < Cardinality(T)
<1>1. IsFiniteSet(T)
    BY FS_Subset
<1> QED
    BY <1>1, FS_Subset, FS_CardinalityType

\* What a process has left to do, and to whom the versions in a transaction are new.
StartInv ==
    /\ \A p \in Procs : pc[p] \notin {"migrate", "record"} => pending[p] = {}
    /\ \A p \in Procs : pc[p] \in {"down", "migrate", "record", "up"} => todo[p] = {}
    /\ \A p \in Procs : writer = p => draft.recorded \cap pending[p] \subseteq recorded

LEMMA StartInit == Init => StartInv
BY NoneAssumption DEF Init, StartInv

LEMMA StartStep ==
    ASSUME TypeOK, ImportInv, StartInv, [Next]_vars
    PROVE  StartInv'
<1> USE NoneAssumption DEF TypeOK, StartInv, View, Committed, CanWrite, tables, files, locals
<1>1. ASSUME NEW p \in Procs, Open(p) PROVE StartInv'
    BY <1>1 DEF Open, ImportInv, DraftInv
<1>2. ASSUME NEW p \in Procs, RunScript(p) PROVE StartInv'
    BY <1>2 DEF RunScript, Commit, NoDraft
<1>3. ASSUME NEW p \in Procs, Record(p) PROVE StartInv'
    <2>1. PICK m \in Versions :
            /\ First(m, pending[p])
            /\ draft' = [recorded |-> View(p).recorded \cup {m}, row |-> View(p).row]
            /\ pending' = [pending EXCEPT ![p] = @ \ {m}]
        BY <1>3 DEF Record
    <2>2. draft'.recorded = View(p).recorded \cup {m}
        BY <2>1
    <2>3. draft'.recorded \cap pending'[p] \subseteq recorded'
        BY <1>3, <2>1, <2>2 DEF Record
    <2> QED
        BY <1>3, <2>1, <2>3 DEF Record
<1>4. ASSUME NEW p \in Procs, RecordTwice(p) PROVE StartInv'
    BY <1>4 DEF RecordTwice, GoDown
<1>5. ASSUME NEW p \in Procs, Migrated(p) PROVE StartInv'
    BY <1>5 DEF Migrated, Commit, NoDraft
<1>6. ASSUME NEW p \in Procs, Check(p) PROVE StartInv'
    BY <1>6 DEF Check, Proceed
<1>7. ASSUME NEW p \in Procs, Read(p) PROVE StartInv'
    BY <1>7 DEF Read
<1>8. ASSUME NEW p \in Procs, Insert(p) PROVE StartInv'
    <2>1. draft'.recorded = View(p).recorded
        BY <1>8 DEF Insert
    <2> QED
        BY <1>8, <2>1 DEF Insert
<1>9. ASSUME NEW p \in Procs, InsertNothing(p) PROVE StartInv'
    BY <1>9 DEF InsertNothing
<1>10. ASSUME NEW p \in Procs, Refuse(p) PROVE StartInv'
    BY <1>10 DEF Refuse, GoDown
<1>11. ASSUME NEW p \in Procs, Archive(p) PROVE StartInv'
    BY <1>11 DEF Archive, Proceed
<1>12. ASSUME NEW p \in Procs, ArchiveTwice(p) PROVE StartInv'
    BY <1>12 DEF ArchiveTwice, GoDown
<1>13. ASSUME NEW p \in Procs, Finish(p) PROVE StartInv'
    BY <1>13 DEF Finish, Commit, NoDraft
<1>14. ASSUME NEW p \in Procs, Change(p) PROVE StartInv'
    BY <1>14 DEF Change
<1>15. ASSUME NEW p \in Procs, LockTimeout(p) PROVE StartInv'
    BY <1>15 DEF LockTimeout, GoDown
<1>16. ASSUME NEW p \in Procs, Crash(p) PROVE StartInv'
    BY <1>16 DEF Crash, GoDown
<1>17. CASE UNCHANGED vars
    BY <1>17 DEF vars
<1> QED
    BY <1>1, <1>2, <1>3, <1>4, <1>5, <1>6, <1>7, <1>8, <1>9, <1>10, <1>11, <1>12, <1>13, <1>14, <1>15, <1>16, <1>17 DEF Next

\* The steps that a start of process p still has to make, at most.
Places ==
    [down |-> 0, migrate |-> 4 * Cardinality(Files) + 5, record |-> 4 * Cardinality(Files) + 4,
     check |-> 4, read |-> 3, insert |-> 2, archive |-> 1, up |-> 0]
StartLeft(p) == 2 * Cardinality(pending[p]) + 4 * Cardinality(todo[p]) + Places[pc[p]]
StartBound == 2 * Cardinality(Versions) + 4 * Cardinality(Files) + 5

\* Another process has recorded a version that p was to apply, or has moved the file
\* that p imports.
Overtaken(p) ==
    \/ pending[p] \cap recorded # {}
    \/ pc[p] \in {"read", "insert", "archive"} /\ \E f \in Files \ file : First(f, todo[p])

\* How often other processes may still make a start of process p raise, at most.
ConflictsLeft(p) ==
    Cardinality(Versions \ recorded) + Cardinality(file) + (IF Overtaken(p) THEN 1 ELSE 0)

LEMMA NumbersOfStart ==
    ASSUME TypeOK, NEW p \in Procs
    PROVE  /\ Cardinality(pending[p]) \in 0..Cardinality(Versions)
           /\ Cardinality(todo[p]) \in 0..Cardinality(Files)
           /\ Cardinality(Versions) \in Nat /\ Cardinality(Files) \in Nat
BY FinitenessAssumption, Sized DEF TypeOK

LEMMA StartBounded ==
    ASSUME TypeOK, StartInv, NEW p \in Procs
    PROVE  StartLeft(p) \in 0..StartBound
<1>1. CASE pc[p] \in {"migrate", "record"}
    <2>1. todo[p] = {} /\ Cardinality(todo[p]) = 0
        BY <1>1, FS_EmptySet DEF StartInv
    <2> QED
        BY <1>1, <2>1, NumbersOfStart DEF StartLeft, StartBound, Places
<1>2. CASE pc[p] \notin {"migrate", "record"}
    <2>1. pending[p] = {} /\ Cardinality(pending[p]) = 0
        BY <1>2, FS_EmptySet DEF StartInv
    <2>2. pc[p] \in {"down", "check", "read", "insert", "archive", "up"}
        BY <1>2 DEF TypeOK, Phases
    <2> QED
        BY <2>1, <2>2, NumbersOfStart DEF StartLeft, StartBound, Places
<1> QED BY <1>1, <1>2

\* What one process does leaves the places and the lists of the others alone.
LEMMA OthersWait ==
    ASSUME TypeOK, NEW p \in Procs, NEW q \in Procs \ {p},
           \/ Working(p) \/ Change(p) \/ LockTimeout(p) \/ Crash(p)
    PROVE  pc'[q] = pc[q] /\ pending'[q] = pending[q] /\ todo'[q] = todo[q]
BY DEF TypeOK, locals, Working,
        Open, RunScript, Record, RecordTwice, Migrated, Check, Read, Insert, InsertNothing,
        Refuse, Archive, ArchiveTwice, Finish, Change, LockTimeout, Crash, GoDown, Proceed

\* A start that goes on comes closer to its end, whether it succeeds or raises.
LEMMA StartGoesOn ==
    ASSUME TypeOK, StartInv, TypeOK', NEW p \in Procs,
           \/ Working(p) \/ Change(p) \/ LockTimeout(p) \/ Crash(p)
    PROVE  /\ Open(p) \/ StartLeft(p)' <= StartLeft(p)
           /\ Working(p) => Open(p) \/ StartLeft(p)' < StartLeft(p)
<1> DEFINE a == Cardinality(pending[p])    a2 == Cardinality(pending'[p])
           b == Cardinality(todo[p])       b2 == Cardinality(todo'[p])
           n == Cardinality(Files)
<1>1. a \in Nat /\ b \in Nat /\ n \in Nat
    BY NumbersOfStart
<1>2. /\ StartLeft(p) = 2 * a + 4 * b + Places[pc[p]]
      /\ StartLeft(p)' = 2 * a2 + 4 * b2 + Places[pc'[p]]
    BY DEF StartLeft
<1>3. pending'[p] = pending[p] => a2 = a
    OBVIOUS
<1>4. todo'[p] = todo[p] => b2 = b
    OBVIOUS
<1>5. ASSUME NEW v \in pending[p], pending'[p] = pending[p] \ {v} PROVE a2 = a - 1
    BY <1>5, Removed, FinitenessAssumption DEF TypeOK
<1>6. ASSUME NEW f \in todo[p], todo'[p] = todo[p] \ {f} PROVE b2 = b - 1
    BY <1>6, Removed, FinitenessAssumption DEF TypeOK
<1>7. todo[p] = {} => b = 0
    BY FS_EmptySet
<1>8. ASSUME pending'[p] = {}, todo'[p] = {} PROVE a2 = 0 /\ b2 = 0
    BY <1>8, FS_EmptySet
<1>9. todo'[p] = Files => b2 = n
    OBVIOUS
<1>10. /\ Places["down"] = 0 /\ Places["migrate"] = 4 * n + 5 /\ Places["record"] = 4 * n + 4
       /\ Places["check"] = 4 /\ Places["read"] = 3 /\ Places["insert"] = 2
       /\ Places["archive"] = 1 /\ Places["up"] = 0
    BY DEF Places
<1>11. Places[pc[p]] \in Nat
    BY <1>1, <1>10 DEF TypeOK, Phases
<1> HIDE DEF a, a2, b, b2, n
<1>12. ASSUME GoDown(p) PROVE StartLeft(p)' = 0
    <2>1. pc'[p] = "down" /\ pending'[p] = {} /\ todo'[p] = {}
        BY <1>12 DEF GoDown, TypeOK
    <2> QED BY <1>2, <1>8, <1>10, <2>1
<1>13. CASE LockTimeout(p) \/ Crash(p)
    <2>1. GoDown(p) /\ pc[p] # "down"
        BY <1>13 DEF LockTimeout, Crash
    <2>2. StartLeft(p)' <= StartLeft(p)
        BY <1>1, <1>2, <1>11, <1>12, <2>1
    <2>3. ~Working(p) \/ StartLeft(p)' < StartLeft(p)
        <3>1. CASE pc[p] = "up"
            BY <3>1, <1>13, <2>1 DEF Working, LockTimeout, Crash, Open, RunScript, Record,
               RecordTwice, Migrated, Check, Read, Insert, InsertNothing, Refuse, Archive,
               ArchiveTwice, Finish
        <3>2. CASE pc[p] # "up"
            <4>1. Places[pc[p]] > 0
                BY <1>1, <1>10, <2>1, <3>2 DEF TypeOK, Phases
            <4> QED BY <1>1, <1>2, <1>11, <1>12, <2>1, <4>1
        <3> QED BY <3>1, <3>2
    <2> QED BY <2>2, <2>3
<1>14. CASE Change(p)
    <2>1. pc[p] = "up" /\ UNCHANGED <<pc, pending, todo>>
        BY <1>14 DEF Change, locals
    <2>2. ~Working(p)
        BY <2>1 DEF Working, Open, RunScript, Record, RecordTwice, Migrated, Check, Read,
               Insert, InsertNothing, Refuse, Archive, ArchiveTwice, Finish
    <2> QED BY <1>1, <1>2, <1>3, <1>4, <1>11, <2>1, <2>2
<1>15. CASE Working(p) /\ ~Open(p)
    <2>1. CASE RecordTwice(p) \/ Refuse(p) \/ ArchiveTwice(p)
        <3>1. pc[p] \in {"record", "read", "insert", "archive"} /\ GoDown(p)
            BY <2>1 DEF RecordTwice, Refuse, ArchiveTwice
        <3>2. Places[pc[p]] > 0
            BY <1>1, <1>10, <3>1
        <3> QED BY <1>1, <1>2, <1>11, <1>12, <3>1, <3>2
    <2>2. CASE RunScript(p)
        <3>1. pc[p] = "migrate" /\ pc'[p] = "record" /\ pending' = pending /\ todo' = todo
            BY <2>2 DEF RunScript, locals, TypeOK
        <3> QED BY <1>1, <1>2, <1>3, <1>4, <1>10, <3>1
    <2>3. CASE Record(p)
        <3>1. PICK v \in Versions : First(v, pending[p]) /\ pending' = [pending EXCEPT ![p] = @ \ {v}]
            BY <2>3 DEF Record
        <3>2. v \in pending[p] /\ pending'[p] = pending[p] \ {v}
            BY <3>1 DEF First, TypeOK
        <3>3. pc[p] = "record" /\ pc'[p] = "migrate" /\ todo' = todo
            BY <2>3 DEF Record, TypeOK
        <3>4. a2 = a - 1 /\ b2 = b
            BY <1>4, <1>5, <3>2, <3>3
        <3> QED BY <1>1, <1>2, <1>10, <3>3, <3>4
    <2>4. CASE Migrated(p)
        <3>1. pc[p] = "migrate" /\ pc'[p] = "check" /\ pending' = pending /\ todo'[p] = Files
            BY <2>4 DEF Migrated, TypeOK
        <3>2. a2 = a /\ b = 0 /\ b2 = n
            BY <1>3, <1>7, <1>9, <3>1 DEF StartInv
        <3> QED BY <1>1, <1>2, <1>10, <3>1, <3>2
    <2>5. CASE Check(p) \/ Archive(p)
        <3>1. PICK f \in Files :
                /\ First(f, todo[p])
                /\ Proceed(p, f) \/ (Check(p) /\ pc' = [pc EXCEPT ![p] = "read"] /\ todo' = todo)
            BY <2>5 DEF Check, Archive
        <3>2. pending' = pending /\ pc[p] \in {"check", "archive"} /\ (Check(p) => pc[p] = "check")
            BY <2>5 DEF Check, Archive
        <3>3. CASE Proceed(p, f)
            <4>1. f \in todo[p] /\ todo'[p] = todo[p] \ {f} /\ pc'[p] = "check"
                BY <3>1, <3>3 DEF Proceed, First, TypeOK
            <4>2. a2 = a /\ b2 = b - 1
                BY <1>3, <1>6, <3>2, <4>1
            <4> QED BY <1>1, <1>2, <1>10, <3>2, <4>1, <4>2
        <3>4. CASE Check(p) /\ pc' = [pc EXCEPT ![p] = "read"] /\ todo' = todo
            <4>1. pc[p] = "check" /\ pc'[p] = "read" /\ a2 = a /\ b2 = b
                BY <1>3, <1>4, <3>2, <3>4 DEF TypeOK
            <4> QED BY <1>1, <1>2, <1>10, <4>1
        <3> QED BY <3>1, <3>3, <3>4
    <2>6. CASE Read(p) \/ Insert(p) \/ InsertNothing(p) \/ Finish(p)
        <3>1. /\ pending' = pending /\ todo' = todo
              /\ \/ pc[p] = "read" /\ pc'[p] = "insert"
                 \/ pc[p] = "insert" /\ pc'[p] = "archive"
                 \/ pc[p] = "check" /\ pc'[p] = "up"
            BY <2>6 DEF Read, Insert, InsertNothing, Finish, locals, TypeOK
        <3> QED BY <1>1, <1>2, <1>3, <1>4, <1>10, <3>1
    <2>7. StartLeft(p)' < StartLeft(p)
        BY <1>15, <2>1, <2>2, <2>3, <2>4, <2>5, <2>6 DEF Working
    <2>8. StartLeft(p)' \in Int /\ StartLeft(p) \in Int
        <3>1. a2 \in Nat /\ b2 \in Nat /\ Places[pc'[p]] \in Nat
            BY FinitenessAssumption, Sized, <1>1, <1>10 DEF TypeOK, Phases, a2, b2
        <3> QED BY <1>1, <1>2, <1>11, <3>1
    <2> QED BY <2>7, <2>8
<1> QED BY <1>13, <1>14, <1>15

\* Who overtakes a process has brought the database closer to its final state.
LEMMA OvertakingIsProgress ==
    ASSUME TypeOK, SchemaInv, StartInv, NEW q \in Procs, NEW p \in Procs,
           \/ Working(p) \/ Change(p) \/ LockTimeout(p) \/ Crash(p)
    PROVE  /\ recorded \subseteq recorded' /\ file' \subseteq file
           /\ (recorded' = recorded /\ file' = file /\ Overtaken(q)') => Overtaken(q)
<1> USE NoneAssumption DEF TypeOK, View, Committed, tables, files, locals
<1>1. recorded \subseteq recorded'
    BY DEF SchemaInv, Working, Commit,
        Open, RunScript, Record, RecordTwice, Migrated, Check, Read, Insert, InsertNothing,
        Refuse, Archive, ArchiveTwice, Finish, Change, LockTimeout, Crash, GoDown, Proceed
<1>2. file' \subseteq file
    BY DEF Working, Commit,
        Open, RunScript, Record, RecordTwice, Migrated, Check, Read, Insert, InsertNothing,
        Refuse, Archive, ArchiveTwice, Finish, Change, LockTimeout, Crash, GoDown, Proceed
<1>3. ASSUME recorded' = recorded, file' = file, Overtaken(q)' PROVE Overtaken(q)
    <2>1. CASE q # p
        BY <1>3, <2>1, OthersWait DEF Overtaken
    <2>2. CASE q = p
        <3>1. CASE Open(p)
            BY <1>3, <2>2, <3>1 DEF Open, Overtaken
        <3>2. CASE RunScript(p)
            BY <1>3, <2>2, <3>2 DEF RunScript, Overtaken
        <3>3. CASE Record(p)
            BY <1>3, <2>2, <3>3 DEF Record, Overtaken
        <3>4. CASE GoDown(p)
            BY <1>3, <2>2, <3>4 DEF GoDown, Overtaken
        <3>5. CASE Migrated(p) \/ Finish(p)
            BY <1>3, <2>2, <3>5 DEF Migrated, Finish, Overtaken
        <3>6. CASE Check(p)
            <4>1. PICK f \in Files :
                    /\ First(f, todo[p])
                    /\ \/ f \in file /\ pc' = [pc EXCEPT ![p] = "read"] /\ todo' = todo
                       \/ Proceed(p, f)
                BY <3>6 DEF Check
            <4>2. CASE Proceed(p, f)
                BY <1>3, <2>2, <3>6, <4>2 DEF Check, Proceed, Overtaken
            <4>3. CASE f \in file /\ pc' = [pc EXCEPT ![p] = "read"] /\ todo' = todo
                <5>1. \A g \in Files : First(g, todo[p]) => g = f
                    BY <4>1, FirstIsUnique, NumbersAssumption
                <5> QED BY <1>3, <2>2, <3>6, <4>3, <5>1 DEF Check, Overtaken
            <4> QED BY <4>1, <4>2, <4>3
        <3>7. CASE Read(p) \/ Insert(p) \/ InsertNothing(p)
            BY <1>3, <2>2, <3>7 DEF Read, Insert, InsertNothing, Overtaken
        <3>8. CASE Archive(p)
            BY <1>3, <2>2, <3>8 DEF Archive, Proceed, Overtaken
        <3>9. CASE Change(p)
            BY <1>3, <2>2, <3>9 DEF Change, Overtaken
        <3> QED BY <3>1, <3>2, <3>3, <3>4, <3>5, <3>6, <3>7, <3>8, <3>9
                DEF Working, RecordTwice, ArchiveTwice, Refuse, LockTimeout, Crash
    <2> QED BY <2>1, <2>2
<1> QED BY <1>1, <1>2, <1>3

\* A start that raises because of another process was overtaken, and is no longer.
LEMMA ConflictsAreOvertaken ==
    ASSUME TypeOK, StartInv, NEW p \in Procs, RecordTwice(p) \/ ArchiveTwice(p)
    PROVE  /\ Overtaken(p) /\ ~Overtaken(p)'
           /\ recorded' = recorded /\ file' = file
<1> USE NoneAssumption DEF TypeOK, tables
<1>1. GoDown(p) /\ file' = file
    BY DEF RecordTwice, ArchiveTwice, files
<1>2. recorded' = recorded /\ ~Overtaken(p)'
    BY <1>1 DEF GoDown, Overtaken
<1>3. CASE RecordTwice(p)
    <2>1. PICK v \in Versions : First(v, pending[p]) /\ v \in View(p).recorded
        BY <1>3 DEF RecordTwice
    <2>2. v \in pending[p] /\ v \in recorded
        BY <2>1 DEF First, View, Committed, StartInv
    <2> QED BY <1>1, <1>2, <2>2 DEF Overtaken
<1>4. CASE ArchiveTwice(p)
    BY <1>1, <1>2, <1>4 DEF ArchiveTwice, Overtaken
<1> QED BY <1>3, <1>4

LEMMA ConflictsRunOut ==
    ASSUME TypeOK, TypeOK', SchemaInv, StartInv, [Next]_vars, NEW q \in Procs
    PROVE  /\ ConflictsLeft(q)' <= ConflictsLeft(q)
           /\ RecordTwice(q) \/ ArchiveTwice(q) => ConflictsLeft(q)' < ConflictsLeft(q)
<1> DEFINE a == Cardinality(Versions \ recorded)    a2 == Cardinality(Versions \ recorded')
           b == Cardinality(file)                   b2 == Cardinality(file')
<1>1. /\ ConflictsLeft(q) = a + b + (IF Overtaken(q) THEN 1 ELSE 0)
      /\ ConflictsLeft(q)' = a2 + b2 + (IF Overtaken(q)' THEN 1 ELSE 0)
    BY DEF ConflictsLeft
<1>2. /\ recorded \subseteq recorded' /\ file' \subseteq file
      /\ (recorded' = recorded /\ file' = file /\ Overtaken(q)') => Overtaken(q)
    <2>1. CASE UNCHANGED vars
        BY <2>1 DEF vars, tables, files, locals, Overtaken
    <2>2. CASE ~UNCHANGED vars
        <3>1. PICK p \in Procs : \/ Working(p) \/ Change(p) \/ LockTimeout(p) \/ Crash(p)
            BY <2>2 DEF Next, Working
        <3> QED BY <3>1, OvertakingIsProgress
    <2> QED BY <2>1, <2>2
<1>3. /\ a \in Nat /\ a2 \in Nat /\ a2 <= a
      /\ recorded' # recorded => a2 < a
    <2>1. /\ Versions \ recorded \in SUBSET Versions
          /\ Versions \ recorded' \in SUBSET (Versions \ recorded)
          /\ recorded' # recorded => Versions \ recorded' # Versions \ recorded
        BY <1>2 DEF TypeOK
    <2> QED BY <2>1, Shrinks, FinitenessAssumption
<1>4. /\ b \in Nat /\ b2 \in Nat /\ b2 <= b
      /\ file' # file => b2 < b
    <2>1. file \in SUBSET Files /\ file' \in SUBSET file
        BY <1>2 DEF TypeOK
    <2> QED BY <2>1, Shrinks, FinitenessAssumption
<1>5. recorded' = recorded => a2 = a
    OBVIOUS
<1>6. file' = file => b2 = b
    OBVIOUS
<1> HIDE DEF a, a2, b, b2
<1>7. ConflictsLeft(q)' <= ConflictsLeft(q)
    <2>1. CASE recorded' = recorded /\ file' = file
        BY <1>1, <1>2, <1>3, <1>4, <1>5, <1>6, <2>1
    <2>2. CASE ~(recorded' = recorded /\ file' = file)
        <3>1. a2 + b2 + 1 <= a + b
            BY <1>3, <1>4, <2>2
        <3> QED BY <1>1, <1>3, <1>4, <3>1
    <2> QED BY <2>1, <2>2
<1>8. ASSUME RecordTwice(q) \/ ArchiveTwice(q) PROVE ConflictsLeft(q)' < ConflictsLeft(q)
    <2>1. /\ Overtaken(q) /\ ~Overtaken(q)'
          /\ recorded' = recorded /\ file' = file
        BY <1>8, ConflictsAreOvertaken
    <2> QED BY <1>1, <1>3, <1>4, <1>5, <1>6, <2>1
<1> QED BY <1>7, <1>8

LEMMA ConflictsBounded ==
    ASSUME TypeOK, NEW p \in Procs
    PROVE  ConflictsLeft(p) \in 0..(Cardinality(Versions) + Cardinality(Files))
<1>1. Versions \ recorded \in SUBSET Versions /\ file \in SUBSET Files
    BY DEF TypeOK
<1>2. /\ Cardinality(Versions \ recorded) \in Nat /\ Cardinality(Versions) \in Nat
      /\ Cardinality(Versions \ recorded) <= Cardinality(Versions)
      /\ Versions \ recorded # Versions => Cardinality(Versions \ recorded) < Cardinality(Versions)
    BY <1>1, Shrinks, FinitenessAssumption
<1>3. /\ Cardinality(file) \in Nat /\ Cardinality(Files) \in Nat
      /\ Cardinality(file) <= Cardinality(Files)
      /\ file # Files => Cardinality(file) < Cardinality(Files)
    BY <1>1, Shrinks, FinitenessAssumption
<1>4. Overtaken(p) => Versions \ recorded # Versions \/ file # Files
    BY DEF Overtaken, TypeOK
<1> QED BY <1>2, <1>3, <1>4 DEF ConflictsLeft

\* A call of initialize() ends, up or with an exception, after at most 2 * v + 4 * f + 5
\* steps, v and f being the numbers of migrations and legacy files, and other processes
\* delay it only by the write lock.
THEOREM StartsEndSoon ==
    Spec => /\ [](\A p \in Procs : StartLeft(p) \in 0..StartBound)
            /\ [][\A p \in Procs :
                    /\ Open(p) \/ StartLeft(p)' <= StartLeft(p)
                    /\ Working(p) => Open(p) \/ StartLeft(p)' < StartLeft(p)]_vars
<1>1. IInv /\ StartInv /\ [Next]_vars => StartInv'
    BY StartStep DEF IInv
<1>2. IInv /\ StartInv => \A p \in Procs : StartLeft(p) \in 0..StartBound
    BY StartBounded DEF IInv
<1>3. IInv /\ IInv' /\ StartInv /\ [Next]_vars
        => [\A p \in Procs :
                /\ Open(p) \/ StartLeft(p)' <= StartLeft(p)
                /\ Working(p) => Open(p) \/ StartLeft(p)' < StartLeft(p)]_vars
    <2> SUFFICES ASSUME IInv, IInv', StartInv, [Next]_vars, ~UNCHANGED vars, NEW p \in Procs
                 PROVE  /\ Open(p) \/ StartLeft(p)' <= StartLeft(p)
                        /\ Working(p) => Open(p) \/ StartLeft(p)' < StartLeft(p)
        OBVIOUS
    <2>1. PICK q \in Procs : \/ Working(q) \/ Change(q) \/ LockTimeout(q) \/ Crash(q)
        BY DEF Next, Working
    <2>2. CASE Working(p) \/ q = p
        BY <2>1, <2>2, StartGoesOn DEF IInv
    <2>3. CASE ~Working(p) /\ q # p
        <3>1. StartLeft(p)' = StartLeft(p)
            BY <2>1, <2>3, OthersWait DEF IInv, StartLeft
        <3>2. StartLeft(p) \in Int
            BY StartBounded DEF IInv
        <3> QED BY <2>3, <3>1, <3>2
    <2> QED BY <2>2, <2>3
<1> QED
    BY <1>1, <1>2, <1>3, StartInit, Invariance, PTL DEF Spec

\* Other processes make initialize() raise at most v + f times for a process, however
\* often all of them are started again: such a conflict means that somebody has recorded
\* a migration or moved a file, of which there are only so many.
THEOREM ConflictsAreFew ==
    Spec => /\ [](\A p \in Procs :
                    ConflictsLeft(p) \in 0..(Cardinality(Versions) + Cardinality(Files)))
            /\ [][\A p \in Procs :
                    /\ ConflictsLeft(p)' <= ConflictsLeft(p)
                    /\ RecordTwice(p) \/ ArchiveTwice(p) => ConflictsLeft(p)' < ConflictsLeft(p)]_vars
<1>1. IInv /\ StartInv /\ [Next]_vars => StartInv'
    BY StartStep DEF IInv
<1>2. IInv => \A p \in Procs :
                ConflictsLeft(p) \in 0..(Cardinality(Versions) + Cardinality(Files))
    BY ConflictsBounded DEF IInv
<1>3. IInv /\ IInv' /\ StartInv /\ [Next]_vars
        => [\A p \in Procs :
                /\ ConflictsLeft(p)' <= ConflictsLeft(p)
                /\ RecordTwice(p) \/ ArchiveTwice(p) => ConflictsLeft(p)' < ConflictsLeft(p)]_vars
    BY ConflictsRunOut DEF IInv
<1> QED
    BY <1>1, <1>2, <1>3, StartInit, Invariance, PTL DEF Spec
=============================================================================
