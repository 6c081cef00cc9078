--------------------------- MODULE TaskRows_proofs ---------------------------
(* Proofs about TaskRows. *)
EXTENDS TaskRows, FiniteSetTheorems, TLAPS

-----------------------------------------------------------------------------
(* Agendas.                                                                *)

\* What is left of a sequence after its first element, position by position.
LEMMA TailAt ==
  ASSUME NEW S, NEW s \in Seq(S), s # <<>>
  PROVE  /\ Tail(s) \in Seq(S) /\ Len(Tail(s)) \in Nat /\ Len(s) = Len(Tail(s)) + 1
         /\ s[1] = Head(s) /\ Head(s) \in S
         /\ \A n \in 1..Len(Tail(s)) : n + 1 \in 1..Len(s) /\ Tail(s)[n] = s[n + 1]
         /\ \A n \in 1..Len(s) : n = 1 \/ (n - 1 \in 1..Len(Tail(s)) /\ s[n] = Tail(s)[n - 1])
OBVIOUS

\* Two sequences one after the other, position by position.
LEMMA ConcatAt ==
  ASSUME NEW S, NEW s \in Seq(S), NEW t \in Seq(S)
  PROVE  /\ s \o t \in Seq(S) /\ Len(s \o t) = Len(s) + Len(t)
         /\ Len(s) \in Nat /\ Len(t) \in Nat
         /\ \A n \in 1..Len(s) : n \in 1..Len(s \o t) /\ (s \o t)[n] = s[n]
         /\ \A n \in 1..Len(t) : Len(s) + n \in 1..Len(s \o t) /\ (s \o t)[Len(s) + n] = t[n]
         /\ \A n \in 1..Len(s \o t) : \/ n \in 1..Len(s)
                                      \/ n - Len(s) \in 1..Len(t) /\ (s \o t)[n] = t[n - Len(s)]
OBVIOUS

\* The items for a set of rows are for these rows, and for all of them.
Cover(items, S) == \A r \in S : \E n \in 1..Len(items) : items[n][2] = r

LEMMA EachRow ==
  ASSUME NEW what, NEW S, IsFiniteSet(S), NEW items \in Each(what, S)
  PROVE  /\ items \in Seq({what} \X S)
         /\ Cover(items, S)
<1>1. Cardinality(S) \in Nat
  BY FS_CardinalityType
<1> DEFINE D == 1..Cardinality(S)
<1>2. PICK s \in [D -> S] : /\ \A i, j \in D : i # j => s[i] # s[j]
                            /\ items = [j \in DOMAIN s |-> <<what, s[j]>>]
  BY DEF Each, SetToSeqs
<1>3. items = [j \in D |-> <<what, s[j]>>]
  BY <1>2
<1>4. items \in Seq({what} \X S) /\ Len(items) = Cardinality(S)
  <2>1. items \in [D -> {what} \X S]
    BY <1>3
  <2> DEFINE n == Cardinality(S)
  <2>2. n \in Nat /\ items \in [1..n -> {what} \X S]
    BY <1>1, <2>1
  <2> HIDE DEF n
  <2> QED
    BY <2>2 DEF n
<1>5. s \in Injection(D, S)
  BY <1>2 DEF Injection, IsInjective
<1>6. s \in Surjection(D, S)
  <2>1. Cardinality(D) = Cardinality(S)
    BY <1>1, FS_Interval
  <2> QED
    BY <1>5, <2>1, FS_Injection
<1>7. \A r \in S : \E n \in D : s[n] = r
  BY <1>6 DEF Surjection
<1>8. Cover(items, S)
  BY <1>3, <1>4, <1>7 DEF Cover
<1> QED
  BY <1>4, <1>8

LEMMA EachBelow ==
  ASSUME RowsAssumption, NEW what, NEW S \in SUBSET Runs, NEW items \in Each(what, S)
  PROVE  /\ items \in Seq({what} \X Runs)
         /\ Cover(items, S)
<1>1. IsFiniteSet(S)
  BY FS_Subset DEF RowsAssumption
<1>2. items \in Seq({what} \X S)
  BY <1>1, EachRow
<1>3. Cover(items, S)
  BY <1>1, EachRow
<1> QED
  BY <1>2, <1>3

-----------------------------------------------------------------------------
(* The parts of the invariant. *)

\* Who is between the acquire and the release of a semaphore is inside.
Busy == {"select", "insert", "leave", "duplicate", "abort"}
Guarded ==
  /\ \A i \in Inits, l \in Locks : i \in inside[l] <=> at[i] \in Busy /\ l = Lock(i)
  /\ \A l \in Locks : lapsed[l] \subseteq inside[l]

\* As long as no lease runs out one is inside alone, and what it has not found is not there.
Alone ==
  ~world.lapses =>
    /\ \A l \in Locks : lapsed[l] = {} /\ \A i, j \in inside[l] : i = j
    /\ \A i \in Inits : at[i] = "insert" => IF stage[i] = "type" THEN ~known ELSE ~Exists(i[1])

\* Who has found or inserted the row of its run can rely on it.
Registered ==
  \A i \in Inits : at[i] = "done" \/ (at[i] = "leave" /\ stage[i] = "run")
    => Exists(i[1]) \/ i[1] \in deleted

\* A transaction has the rows it has written to itself, while it lasts; it only writes rows
\* whose children it has loaded, and its agenda is of its own kind.
Apart == \A j, k \in Sessions : j # k => changed[j] \cap changed[k] = {}
Held(k) == \A r \in changed[k] : Exists(r) /\ r \in listed[k]
Kinds == [cancel |-> {"visit"}, delete |-> {"load", "delete"}]
OfItsKind(k) ==
  IF op[k] \in {"cancel", "delete"}
  THEN \A n \in 1..Len(agenda[k]) : agenda[k][n][1] \in Kinds[op[k]]
  ELSE agenda[k] = <<>> /\ changed[k] = {} /\ listed[k] = {}
DueListed(k) ==
  \A n \in 1..Len(agenda[k]) : agenda[k][n][1] = "delete" => agenda[k][n][2] \in listed[k]
Locked == Apart /\ \A k \in Sessions : Held(k) /\ OfItsKind(k) /\ DueListed(k)

\* A row's parent is the one it was inserted with.
Below == \A r \in Runs : Exists(r) => row[r].parent = world.parent[r]

\* What is below a row that a cascade has cancelled is cancelled too, or over, or was not there
\* yet, or is still on the agenda.
OnAgenda(k, r) == \E n \in 1..Len(agenda[k]) : agenda[k][n][2] = r
Cascading(k) ==
  op[k] = "cancel" =>
    \A p \in changed[k] : \A r \in Children(p) :
      r \in changed[k] \cup late \/ seen[k][r] \in Terminal \/ OnAgenda(k, r)

\* A row is deleted after what is below it: that has been deleted, or was not there yet, or is
\* further up on the agenda.
DeletedBelow(k) ==
  op[k] = "delete" =>
    \A p \in changed[k] : \A r \in Children(p) :
      r \in changed[k] \/ (r \in late /\ ~world.foreignKeys)
Earlier(k, n, r) == \E m \in 1..Len(agenda[k]) : m < n /\ agenda[k][m][2] = r
Ascending(k) ==
  op[k] = "delete" =>
    \A n \in 1..Len(agenda[k]) : agenda[k][n][1] = "delete" =>
      \A r \in Children(agenda[k][n][2]) : r \in changed[k] \cup late \/ Earlier(k, n, r)

-----------------------------------------------------------------------------
(* Types. *)

\* The agenda a transaction opens with is for rows that are there, and of its kind.
Opens(k, purpose, items, loaded) ==
  /\ Open(k, purpose, items, loaded)
  /\ \A r \in loaded : r \in Runs /\ Exists(r)
  /\ items \in Seq({IF purpose = "cancel" THEN "visit" ELSE "load"} \X Runs)

LEMMA BeginOpens ==
  ASSUME RowsAssumption, NEW k \in Sessions, Begin(k)
  PROVE  \E purpose \in {"cancel", "delete"} : \E items, loaded : Opens(k, purpose, items, loaded)
<1>1. ASSUME CancelRequested(k) PROVE \E items, loaded : Opens(k, "cancel", items, loaded)
  <2>1. PICK r \in Runs : Exists(r) /\ Open(k, "cancel", <<<<"visit", r>>>>, {r})
    BY <1>1 DEF CancelRequested
  <2>2. <<<<"visit", r>>>> \in Seq({"visit"} \X Runs)
    OBVIOUS
  <2>3. Opens(k, "cancel", <<<<"visit", r>>>>, {r})
    BY <2>1, <2>2 DEF Opens
  <2> QED
    BY <2>3
<1>2. ASSUME NEW what, NEW S \in SUBSET Runs, NEW items \in Each(what, S)
      PROVE  items \in Seq({what} \X Runs)
  BY EachBelow
<1>3. ASSUME Stonith(k) PROVE \E items, loaded : Opens(k, "cancel", items, loaded)
  <2>1. PICK S \in SUBSET {r \in Runs : Exists(r) /\ row[r].state \notin Terminal} :
             \E items \in Each("visit", S) : Open(k, "cancel", items, S)
    BY <1>3 DEF Stonith
  <2>2. PICK items \in Each("visit", S) : Open(k, "cancel", items, S)
    BY <2>1
  <2>3. Opens(k, "cancel", items, S)
    BY <1>2, <2>2 DEF Opens
  <2> QED
    BY <2>3
<1>4. ASSUME DeleteOldTaskRuns(k) PROVE \E items, loaded : Opens(k, "delete", items, loaded)
  <2>1. PICK S \in SUBSET {r \in Runs : Exists(r)} :
             \E items \in Each("load", S) : Open(k, "delete", items, S)
    BY <1>4 DEF DeleteOldTaskRuns
  <2>2. PICK items \in Each("load", S) : Open(k, "delete", items, S)
    BY <2>1
  <2>3. Opens(k, "delete", items, S)
    BY <1>2, <2>2 DEF Opens
  <2> QED
    BY <2>3
<1> QED
  BY <1>1, <1>3, <1>4 DEF Begin

LEMMA WorldType ==
  ASSUME RowsAssumption, TypeOK
  PROVE  /\ world \in World /\ RootedIn(world)
         /\ world.parent \in [Runs -> Runs \cup {Null}] /\ world.lapses \in BOOLEAN
         /\ world.foreignKeys \in BOOLEAN
         /\ \A r \in Runs : /\ NewRow(r) \in Row /\ NewRow(r) # Null
                           /\ NewRow(r).parent = world.parent[r]
<1>1. world \in World /\ RootedIn(world)
  BY DEF RowsAssumption, TypeOK
<1>2. /\ world.parent \in [Runs -> Runs \cup {Null}] /\ world.lapses \in BOOLEAN
      /\ world.foreignKeys \in BOOLEAN
  BY <1>1 DEF World
<1>3. \A r \in Runs : NewRow(r) \in Row /\ NewRow(r).parent = world.parent[r]
  BY <1>2 DEF NewRow, Row, States
<1> QED
  BY <1>1, <1>2, <1>3 DEF RowsAssumption

\* What the cascade of a transaction makes of the rest of its agenda.
LEMMA AgendaSteps ==
  ASSUME RowsAssumption, TypeOK, NEW k \in Sessions
  PROVE  /\ SkipTerminal(k) => agenda'[k] \in Seq({"visit", "load", "delete"} \X Runs)
         /\ CancelRow(k) => agenda'[k] \in Seq({"visit", "load", "delete"} \X Runs)
         /\ LoadChildren(k) => agenda'[k] \in Seq({"visit", "load", "delete"} \X Runs)
         /\ DeleteRow(k) => agenda'[k] \in Seq({"visit", "load", "delete"} \X Runs)
<1> DEFINE I == {"visit", "load", "delete"} \X Runs
<1>1. agenda[k] \in Seq(I) /\ agenda \in [Sessions -> Seq(I)]
  BY DEF TypeOK
<1>2. agenda[k] # <<>> => Tail(agenda[k]) \in Seq(I) /\ Item(k) \in Runs
  <2>1. agenda[k] # <<>> => Head(agenda[k]) \in I
    BY <1>1, TailAt
  <2> QED
    BY <1>1, <2>1, TailAt DEF Item, Next1
<1>3. ASSUME NEW what \in {"visit", "load"}, NEW S \in SUBSET Runs, NEW items \in Each(what, S)
      PROVE  items \in Seq(I)
  <2>1. items \in Seq({what} \X Runs)
    BY EachBelow
  <2> QED
    BY <2>1
<1> HIDE DEF I
<1>4. SkipTerminal(k) \/ DeleteRow(k) => agenda'[k] \in Seq(I)
  BY <1>1, <1>2 DEF SkipTerminal, DeleteRow, Due
<1>5. ASSUME CancelRow(k) PROVE agenda'[k] \in Seq(I)
  <2>1. PICK items \in Each("visit", Children(Item(k))) :
          agenda' = [agenda EXCEPT ![k] = items \o Tail(@)]
    BY <1>5 DEF CancelRow
  <2>2. items \in Seq(I)
    BY <1>3 DEF Children
  <2>3. agenda[k] # <<>> /\ agenda'[k] = items \o Tail(agenda[k])
    BY <1>1, <1>5, <2>1 DEF CancelRow, Due
  <2> QED
    BY <1>2, <2>2, <2>3, ConcatAt
<1>6. ASSUME LoadChildren(k) PROVE agenda'[k] \in Seq(I)
  <2>1. PICK items \in Each("load", Children(Item(k)) \ changed[k]) :
          agenda' = [agenda EXCEPT ![k] = items \o <<<<"delete", Item(k)>>>> \o Tail(@)]
    BY <1>6 DEF LoadChildren
  <2>2. items \in Seq(I)
    BY <1>3 DEF Children
  <2>3. <<<<"delete", Item(k)>>>> \in Seq(I)
    BY <1>2, <1>6 DEF I, LoadChildren, Due
  <2>4. agenda[k] # <<>> /\ agenda'[k] = items \o <<<<"delete", Item(k)>>>> \o Tail(agenda[k])
    BY <1>1, <1>6, <2>1 DEF LoadChildren, Due
  <2>5. items \o <<<<"delete", Item(k)>>>> \in Seq(I)
    BY <2>2, <2>3, ConcatAt
  <2> QED
    BY <1>2, <2>4, <2>5, ConcatAt
<1> QED
  BY <1>4, <1>5, <1>6 DEF I

LEMMA TypeNext ==
  ASSUME RowsAssumption, TypeOK, Locked, [Next]_vars
  PROVE  TypeOK'
<1> USE DEF TypeOK, creation, session
<1>0. /\ \A i \in Inits : Lock(i) \in Locks /\ i[1] \in Runs
      /\ \A r \in Runs : <<r, "call">> \in Inits
  BY DEF Inits, Lock, Locks
<1>1. ASSUME NEW i \in Inits, Call(i) \/ Select(i) PROVE TypeOK'
  BY <1>1 DEF Call, Select, Goto
<1>2. ASSUME NEW i \in Inits, Enter(i) PROVE TypeOK'
  BY <1>0, <1>2 DEF Enter, Goto
<1>3. ASSUME NEW i \in Inits, Lapse(i) PROVE TypeOK'
  BY <1>0, <1>3 DEF Lapse
<1>4. ASSUME NEW i \in Inits, InsertType(i) PROVE TypeOK'
  BY <1>4 DEF InsertType, Goto
<1>5. ASSUME NEW i \in Inits, InsertRun(i) PROVE TypeOK'
  <2>1. NewRow(i[1]) \in Row
    BY <1>0, WorldType
  <2>2. row' \in [Runs -> Row \cup {Null}]
    BY <1>0, <1>5, <2>1 DEF InsertRun
  <2>3. late' \subseteq Runs
    BY <1>0, <1>5 DEF InsertRun
  <2>4. PICK label \in {"duplicate", "abort", "leave"} : Goto(i, label)
    BY <1>5 DEF InsertRun
  <2> QED
    BY <1>5, <2>2, <2>3, <2>4 DEF InsertRun, Goto
<1>6. ASSUME NEW i \in Inits, LeaveLock(i) PROVE TypeOK'
  <2>1. /\ inside' = [inside EXCEPT ![Lock(i)] = @ \ {i}]
        /\ lapsed' = [lapsed EXCEPT ![Lock(i)] = @ \ {i}]
        /\ UNCHANGED <<world, row, known, run, session, late, deleted>>
    BY <1>6 DEF LeaveLock
  <2>2. /\ \E label \in {"enter", "done", "failed"} : Goto(i, label)
        /\ stage' \in [Inits -> {"type", "run"}]
    BY <1>6 DEF LeaveLock
  <2>3. PICK label \in {"enter", "done", "failed"} : Goto(i, label)
    BY <2>2
  <2> QED
    BY <1>0, <2>1, <2>2, <2>3 DEF Goto
<1>7. ASSUME NEW r \in Runs, Start(r) \/ Stop(r) \/ ReadState(r) PROVE TypeOK'
  BY <1>7 DEF Start, Stop, ReadState, RunGoes
<1>8. ASSUME NEW r \in Runs, WriteState(r) PROVE TypeOK'
  <2>1. row' \in [Runs -> Row \cup {Null}]
    <3>1. CASE Exists(r)
      <4>1. PICK s \in States : row' = [row EXCEPT ![r].state = s]
        BY <1>8, <3>1 DEF WriteState, States, Terminal
      <4>2. row[r] \in Row
        BY <3>1 DEF Exists
      <4>3. [row[r] EXCEPT !.state = s] \in Row
        BY <4>2 DEF Row
      <4> QED
        BY <4>1, <4>3
    <3>2. CASE ~Exists(r)
      BY <1>8, <3>2 DEF WriteState
    <3> QED
      BY <3>1, <3>2
  <2> QED
    BY <1>8, <2>1 DEF WriteState, RunGoes
<1>9. ASSUME NEW k \in Sessions, Begin(k) PROVE TypeOK'
  <2>0. PICK purpose \in {"cancel", "delete"} : \E items, loaded : Opens(k, purpose, items, loaded)
    BY <1>9, BeginOpens
  <2>1. PICK items, loaded : Opens(k, purpose, items, loaded)
    BY <2>0
  <2>2. items \in Seq({"visit", "load", "delete"} \X Runs)
    BY <2>1 DEF Opens
  <2>3. [r \in Runs |-> IF r \in loaded THEN row[r].state ELSE Null]
          \in [Runs -> States \cup {Null}]
    BY <2>1 DEF Opens, Exists, Row
  <2> QED
    BY <2>1, <2>2, <2>3 DEF Opens, Open
<1>10. ASSUME NEW k \in Sessions, SkipTerminal(k) PROVE TypeOK'
  <2>1. /\ agenda'[k] \in Seq({"visit", "load", "delete"} \X Runs)
        /\ agenda' = [agenda EXCEPT ![k] = agenda'[k]]
    BY <1>10, AgendaSteps DEF SkipTerminal
  <2> QED
    BY <1>10, <2>1 DEF SkipTerminal
<1>11. ASSUME NEW k \in Sessions, agenda[k] # <<>> PROVE Item(k) \in Runs
  <2>1. Head(agenda[k]) \in {"visit", "load", "delete"} \X Runs
    BY <1>11, TailAt
  <2> QED
    BY <2>1 DEF Item, Next1
<1>12. ASSUME NEW k \in Sessions, CancelRow(k) PROVE TypeOK'
  <2>1. /\ agenda'[k] \in Seq({"visit", "load", "delete"} \X Runs)
        /\ agenda' = [agenda EXCEPT ![k] = agenda'[k]]
    BY <1>12, AgendaSteps DEF CancelRow
  <2>2. Item(k) \in Runs
    BY <1>11, <1>12 DEF CancelRow, Due
  <2>3. seen' \in [Sessions -> [Runs -> States \cup {Null}]]
    <3>1. \A c \in Children(Item(k)) : row[c].state \in States
      BY DEF Children, Exists, Row
    <3> QED
      BY <1>12, <3>1 DEF CancelRow, States
  <2> QED
    BY <1>12, <2>1, <2>2, <2>3 DEF CancelRow
<1>13. ASSUME NEW k \in Sessions, LoadChildren(k) PROVE TypeOK'
  <2>1. /\ agenda'[k] \in Seq({"visit", "load", "delete"} \X Runs)
        /\ agenda' = [agenda EXCEPT ![k] = agenda'[k]]
    BY <1>13, AgendaSteps DEF LoadChildren
  <2>2. Item(k) \in Runs
    BY <1>11, <1>13 DEF LoadChildren, Due
  <2> QED
    BY <1>13, <2>1, <2>2 DEF LoadChildren
<1>14. ASSUME NEW k \in Sessions, DeleteRow(k) PROVE TypeOK'
  <2>1. /\ agenda'[k] \in Seq({"visit", "load", "delete"} \X Runs)
        /\ agenda' = [agenda EXCEPT ![k] = agenda'[k]]
    BY <1>14, AgendaSteps DEF DeleteRow
  <2>2. Item(k) \in Runs
    BY <1>11, <1>14 DEF DeleteRow, Due
  <2> QED
    BY <1>14, <2>1, <2>2 DEF DeleteRow
<1>15. ASSUME NEW k \in Sessions, Commit(k) \/ Rollback(k) PROVE TypeOK'
  <2>1. row' \in [Runs -> Row \cup {Null}]
    <3>1. \A r \in changed[k] : row[r] \in Row
      BY DEF Locked, Held, Exists
    <3>2. \A r \in changed[k] : [row[r] EXCEPT !.state = "CANCELLED"] \in Row
      BY <3>1 DEF Row, States
    <3>3. \A r \in Runs : row[r] \in Row \cup {Null}
      OBVIOUS
    <3>4. CASE Commit(k)
      BY <3>2, <3>3, <3>4 DEF Commit
    <3>5. CASE Rollback(k)
      BY <3>5 DEF Rollback
    <3> QED
      BY <1>15, <3>4, <3>5
  <2>2. deleted' \subseteq Runs
    BY <1>15 DEF Commit, Rollback
  <2>3. Close(k)
    BY <1>15 DEF Commit, Rollback
  <2>4. <<>> \in Seq({"visit", "load", "delete"} \X Runs)
    OBVIOUS
  <2> QED
    BY <2>1, <2>2, <2>3, <2>4 DEF Close
<1>16. ASSUME UNCHANGED vars PROVE TypeOK'
  BY <1>16 DEF vars
<1> QED
  BY <1>1, <1>2, <1>3, <1>4, <1>5, <1>6, <1>7, <1>8, <1>9, <1>10, <1>12, <1>13, <1>14, <1>15,
     <1>16 DEF Next, Initialise, Transition, Proceed

-----------------------------------------------------------------------------
(* Steps on the rows.                                                      *)

LEMMA WorldKept ==
  ASSUME [Next]_vars
  PROVE  world' = world
<1>1. ASSUME NEW i \in Inits, Call(i) \/ Lapse(i) \/ Initialise(i) PROVE world' = world
  BY <1>1 DEF Call, Lapse, Initialise, Enter, Select, InsertType, InsertRun, LeaveLock
<1>2. ASSUME NEW r \in Runs, Stop(r) \/ Transition(r) PROVE world' = world
  BY <1>2 DEF Stop, Transition, Start, ReadState, WriteState
<1>3. ASSUME NEW k \in Sessions, Begin(k) \/ Proceed(k) \/ Rollback(k) PROVE world' = world
  BY <1>3 DEF Begin, CancelRequested, Stonith, DeleteOldTaskRuns, Open, Proceed, SkipTerminal,
     CancelRow, LoadChildren, DeleteRow, Commit, Rollback, Close
<1> QED
  BY <1>1, <1>2, <1>3 DEF Next, vars

\* A step inserts a row, deletes what a transaction has written, or keeps which rows there are
\* and below which.
Inserts(i) ==
  /\ i[1] \in Runs /\ ~Exists(i[1])
  /\ row' = [row EXCEPT ![i[1]] = NewRow(i[1])]
DeletesRows(k) ==
  /\ op[k] = "delete" /\ agenda[k] = <<>> /\ Close(k)
  /\ row' = [r \in Runs |-> IF r \in changed[k] THEN Null ELSE row[r]]
  /\ deleted' = deleted \cup changed[k]
RowsKept ==
  /\ \A r \in Runs : Exists(r)' = Exists(r) /\ (Exists(r) => row'[r].parent = row[r].parent)
  /\ deleted' = deleted

LEMMA RowSteps ==
  ASSUME TypeOK, Locked, [Next]_vars
  PROVE  \/ RowsKept
         \/ \E i \in Inits : InsertRun(i) /\ Inserts(i) /\ deleted' = deleted
         \/ \E k \in Sessions : DeletesRows(k)
<1> USE DEF session
<1>0. row \in [Runs -> Row \cup {Null}] /\ \A i \in Inits : i[1] \in Runs
  BY DEF TypeOK, Inits
<1>1. ASSUME UNCHANGED <<row, deleted>> PROVE RowsKept
  BY <1>1 DEF RowsKept, Exists
<1>2. ASSUME NEW i \in Inits, Call(i) \/ Lapse(i) \/ Initialise(i)
      PROVE  RowsKept \/ (InsertRun(i) /\ Inserts(i) /\ deleted' = deleted)
  <2>1. CASE InsertRun(i)
    BY <1>0, <1>1, <2>1 DEF InsertRun, Inserts
  <2>2. CASE ~InsertRun(i)
    BY <1>1, <1>2, <2>2 DEF Call, Lapse, Initialise, Enter, Select, InsertType, LeaveLock
  <2> QED
    BY <2>1, <2>2
<1>3. ASSUME NEW r \in Runs, Stop(r) \/ Transition(r) PROVE RowsKept
  <2>1. CASE UNCHANGED <<row, deleted>>
    BY <1>1, <2>1
  <2>2. CASE WriteState(r) /\ Exists(r)
    <3>1. PICK s \in States : row' = [row EXCEPT ![r].state = s]
      BY <2>2 DEF WriteState, States, Terminal
    <3>2. row[r] \in Row
      BY <1>0, <2>2 DEF Exists
    <3>3. /\ row'[r] = [row[r] EXCEPT !.state = s] /\ row'[r] \in Row
          /\ \A q \in Runs \ {r} : row'[q] = row[q]
      BY <1>0, <3>1, <3>2 DEF Row
    <3>4. row'[r].parent = row[r].parent /\ row'[r] # Null
      BY <3>2, <3>3, RowsAssumption DEF RowsAssumption, Row
    <3> QED
      BY <2>2, <3>3, <3>4 DEF RowsKept, Exists, WriteState
  <2> QED
    BY <1>3, <2>1, <2>2 DEF Stop, Transition, Start, ReadState, WriteState
<1>4. ASSUME NEW k \in Sessions, Begin(k) \/ (Proceed(k) /\ ~Commit(k)) \/ Rollback(k)
      PROVE  RowsKept
  <2>1. UNCHANGED <<row, deleted>>
    BY <1>4 DEF Begin, CancelRequested, Stonith, DeleteOldTaskRuns, Open, Proceed, SkipTerminal,
       CancelRow, LoadChildren, DeleteRow, Rollback
  <2> QED
    BY <1>1, <2>1
<1>5. ASSUME NEW k \in Sessions, Commit(k) PROVE RowsKept \/ DeletesRows(k)
  <2>1. CASE op[k] = "delete"
    BY <1>5, <2>1 DEF Commit, DeletesRows
  <2>2. CASE op[k] # "delete"
    <3>1. row' = [r \in Runs |-> IF r \notin changed[k] THEN row[r]
                                 ELSE [row[r] EXCEPT !.state = "CANCELLED"]]
      BY <1>5, <2>2 DEF Commit
    <3>2. ASSUME NEW r \in Runs
          PROVE  Exists(r)' = Exists(r) /\ (Exists(r) => row'[r].parent = row[r].parent)
      <4>1. CASE r \notin changed[k]
        BY <3>1, <4>1 DEF Exists
      <4>2. CASE r \in changed[k]
        <5>1. row[r] # Null /\ row[r] \in Row
          BY <1>0, <4>2 DEF Locked, Held, Exists
        <5>2. row'[r] = [row[r] EXCEPT !.state = "CANCELLED"]
          BY <3>1, <4>2
        <5>3. row'[r] \in Row /\ row'[r].parent = row[r].parent
          BY <5>1, <5>2 DEF Row, States
        <5>4. row'[r] # Null
          BY <5>3, RowsAssumption DEF RowsAssumption
        <5> QED
          BY <5>1, <5>3, <5>4 DEF Exists
      <4> QED
        BY <4>1, <4>2
    <3> QED
      BY <1>5, <2>2, <3>2 DEF Commit, RowsKept
  <2> QED
    BY <2>1, <2>2
<1> QED
  BY <1>1, <1>2, <1>3, <1>4, <1>5 DEF Next, Proceed, vars

\* Rows come only by insertion, and go only by deletion.
LEMMA Existence ==
  ASSUME RowsAssumption, TypeOK, Locked, [Next]_vars
  PROVE  /\ \A r \in Runs : Exists(r)' => \/ Exists(r)
                                         \/ \E i \in Inits : i[1] = r /\ InsertRun(i)
         /\ \A r \in Runs : Exists(r) => Exists(r)' \/ r \in deleted'
         /\ deleted \subseteq deleted'
<1>0. row \in [Runs -> Row \cup {Null}]
  BY DEF TypeOK
<1>1. CASE RowsKept
  BY <1>1 DEF RowsKept
<1>2. ASSUME NEW i \in Inits, InsertRun(i), Inserts(i), deleted' = deleted
      PROVE  /\ \A r \in Runs : Exists(r)' => Exists(r) \/ r = i[1]
             /\ \A r \in Runs : Exists(r) => Exists(r)'
  BY <1>0, <1>2 DEF Inserts, Exists
<1>3. ASSUME NEW k \in Sessions, DeletesRows(k)
      PROVE  /\ \A r \in Runs : Exists(r)' => Exists(r)
             /\ \A r \in Runs : Exists(r) => Exists(r)' \/ r \in deleted'
             /\ deleted \subseteq deleted'
  BY <1>0, <1>3 DEF DeletesRows, Exists
<1> QED
  BY <1>1, <1>2, <1>3, RowSteps

-----------------------------------------------------------------------------
(* Initialisers.                                                           *)

LEMMA CreationNext ==
  ASSUME RowsAssumption, TypeOK, Locked, Guarded, Alone, Registered, [Next]_vars
  PROVE  Guarded' /\ Alone' /\ Registered'
<1> USE DEF creation, session
<1>0. /\ inside \in [Locks -> SUBSET Inits] /\ lapsed \in [Locks -> SUBSET Inits]
      /\ at \in [Inits -> {"idle", "enter", "select", "insert", "leave", "duplicate", "abort",
                           "done", "failed"}]
      /\ stage \in [Inits -> {"type", "run"}]
  BY DEF TypeOK
<1>l. \A i \in Inits : Lock(i) \in Locks /\ i[1] \in Runs
  BY DEF Inits, Lock, Locks
<1>w. world' = world
  BY WorldKept
\* A step of no initialiser: rows only go, to where it is remembered.
<1>1. ASSUME UNCHANGED creation, \A i \in Inits : ~InsertRun(i)
      PROVE  Guarded' /\ Alone' /\ Registered'
  <2>1. Guarded'
    BY <1>1 DEF Guarded, Lock
  <2>2. \A r \in Runs : Exists(r)' => Exists(r)
    BY <1>1, Existence
  <2>3. Alone'
    BY <1>1, <1>l, <1>w, <2>2 DEF Alone
  <2>4. Registered'
    BY <1>1, <1>l, Existence DEF Registered
  <2> QED
    BY <2>1, <2>3, <2>4
\* A step of an initialiser from and to one of the labels between which it is inside.
<1>2. ASSUME NEW i \in Inits, UNCHANGED <<inside, lapsed, stage>>,
             NEW label \in Busy, at[i] \in Busy, Goto(i, label)
      PROVE  Guarded'
  <2>1. \A j \in Inits : (at'[j] \in Busy <=> at[j] \in Busy) /\ Lock(j)' = Lock(j)
    BY <1>0, <1>2 DEF Goto, Lock
  <2> QED
    BY <1>2, <2>1 DEF Guarded
<1>3. ASSUME NEW i \in Inits, Call(i) PROVE Guarded' /\ Alone' /\ Registered'
  <2>1. /\ UNCHANGED <<row, known, inside, lapsed, stage, deleted>>
        /\ at[i] = "idle" /\ at'[i] = "enter" /\ \A j \in Inits \ {i} : at'[j] = at[j]
    BY <1>0, <1>3 DEF Call, Goto
  <2>2. \A j \in Inits : Lock(j)' = Lock(j) /\ (at'[j] \in Busy <=> at[j] \in Busy)
    BY <2>1 DEF Lock, Busy
  <2>3. Guarded'
    BY <2>1, <2>2 DEF Guarded
  <2>4. Alone' /\ Registered'
    BY <1>w, <2>1 DEF Alone, Registered, Exists
  <2> QED
    BY <2>3, <2>4
<1>4. ASSUME NEW i \in Inits, Enter(i) PROVE Guarded' /\ Alone' /\ Registered'
  <2>1. /\ UNCHANGED <<row, known, lapsed, stage, deleted>>
        /\ at[i] = "enter" /\ at'[i] = "select" /\ \A j \in Inits \ {i} : at'[j] = at[j]
        /\ inside[Lock(i)] \subseteq lapsed[Lock(i)]
        /\ inside' = [inside EXCEPT ![Lock(i)] = @ \cup {i}]
    BY <1>0, <1>4 DEF Enter, Goto
  <2>2. \A j \in Inits : Lock(j)' = Lock(j)
    BY <2>1 DEF Lock
  <2>3. Guarded'
    BY <1>0, <1>l, <2>1, <2>2 DEF Guarded, Busy
  <2>4. Alone'
    BY <1>0, <1>l, <1>w, <2>1 DEF Alone, Exists
  <2>5. Registered'
    BY <2>1 DEF Registered, Exists
  <2> QED
    BY <2>3, <2>4, <2>5
<1>5. ASSUME NEW i \in Inits, Lapse(i) PROVE Guarded' /\ Alone' /\ Registered'
  <2>1. /\ UNCHANGED <<row, known, inside, at, stage, deleted>>
        /\ world.lapses /\ i \in inside[Lock(i)]
        /\ lapsed' = [lapsed EXCEPT ![Lock(i)] = @ \cup {i}]
    BY <1>5 DEF Lapse
  <2>2. Guarded'
    BY <1>0, <2>1 DEF Guarded, Lock
  <2>3. Alone' /\ Registered'
    BY <1>w, <2>1 DEF Alone, Registered, Exists
  <2> QED
    BY <2>2, <2>3
<1>6. ASSUME NEW i \in Inits, Select(i) PROVE Guarded' /\ Alone' /\ Registered'
  <2>1. /\ UNCHANGED <<row, known, inside, lapsed, stage, deleted>>
        /\ at[i] = "select" /\ \A j \in Inits \ {i} : at'[j] = at[j]
        /\ at'[i] = IF (IF stage[i] = "type" THEN known ELSE Exists(i[1]))
                    THEN "leave" ELSE "insert"
    BY <1>0, <1>6 DEF Select, Goto
  <2>2. Guarded'
    BY <1>0, <1>2, <1>6 DEF Select, Goto, Busy
  <2>3. Alone'
    BY <1>w, <2>1 DEF Alone, Exists
  <2>4. Registered'
    BY <1>0, <2>1 DEF Registered, Exists
  <2> QED
    BY <2>2, <2>3, <2>4
\* With no lease run out nobody else is about to insert the row that is inserted.
<1>7. ASSUME NEW i \in Inits, NEW j \in Inits, i # j, at[i] = "insert", at[j] = "insert",
             ~world.lapses
      PROVE  Lock(i) # Lock(j)
  <2>1. i \in inside[Lock(i)] /\ j \in inside[Lock(j)]
    BY <1>7, <1>l DEF Guarded, Busy
  <2> QED
    BY <1>7, <1>l, <2>1 DEF Alone
<1>8. ASSUME NEW i \in Inits, InsertType(i) PROVE Guarded' /\ Alone' /\ Registered'
  <2>1. /\ UNCHANGED <<row, inside, lapsed, stage, deleted>> /\ known'
        /\ at[i] = "insert" /\ stage[i] = "type" /\ \A j \in Inits \ {i} : at'[j] = at[j]
        /\ at'[i] \in {"duplicate", "leave"}
    BY <1>0, <1>8 DEF InsertType, Goto
  <2>2. Guarded'
    BY <1>0, <1>2, <1>8 DEF InsertType, Goto, Busy
  <2>3. ~world.lapses => \A j \in Inits : at'[j] = "insert" => stage[j] # "type"
    BY <1>7, <2>1 DEF Lock
  <2>4. Alone'
    BY <1>0, <1>w, <2>1, <2>3 DEF Alone, Exists
  <2>5. Registered'
    BY <2>1 DEF Registered, Exists
  <2> QED
    BY <2>2, <2>4, <2>5
<1>9. ASSUME NEW i \in Inits, InsertRun(i) PROVE Guarded' /\ Alone' /\ Registered'
  <2>1. /\ UNCHANGED <<known, inside, lapsed, stage, deleted>>
        /\ at[i] = "insert" /\ stage[i] = "run" /\ \A j \in Inits \ {i} : at'[j] = at[j]
        /\ at'[i] \in {"duplicate", "abort", "leave"}
        /\ at'[i] = "leave" => ~Exists(i[1]) /\ row' = [row EXCEPT ![i[1]] = NewRow(i[1])]
        /\ at'[i] # "leave" => row' = row
    BY <1>0, <1>9 DEF InsertRun, Goto
  <2>2. Guarded'
    <3>1. Goto(i, at'[i]) /\ at'[i] \in Busy /\ at[i] \in Busy
      BY <1>0, <1>9, <2>1 DEF InsertRun, Goto, Busy
    <3> QED
      BY <1>2, <2>1, <3>1
  <2>3. \A r \in Runs \ {i[1]} : Exists(r)' = Exists(r)
    BY <2>1, <1>l DEF TypeOK, Exists
  <2>4. /\ at'[i] = "leave" => Exists(i[1])'
        /\ \A r \in Runs : Exists(r) => Exists(r)'
    BY <2>1, <2>3, <1>l, WorldType DEF TypeOK, Exists
  <2>5. ~world.lapses => \A j \in Inits : at'[j] = "insert" /\ stage[j] = "run" => j[1] # i[1]
    BY <1>7, <2>1 DEF Lock
  <2>6. Alone'
    BY <1>0, <1>l, <1>w, <2>1, <2>3, <2>5 DEF Alone
  <2>7. Registered'
    BY <1>l, <2>1, <2>4 DEF Registered
  <2> QED
    BY <2>2, <2>6, <2>7
<1>10. ASSUME NEW i \in Inits, LeaveLock(i) PROVE Guarded' /\ Alone' /\ Registered'
  <2>1. /\ UNCHANGED <<row, known, deleted>> /\ at[i] \in {"leave", "duplicate", "abort"}
        /\ inside' = [inside EXCEPT ![Lock(i)] = @ \ {i}]
        /\ lapsed' = [lapsed EXCEPT ![Lock(i)] = @ \ {i}]
    BY <1>10 DEF LeaveLock
  <2>2. /\ \A j \in Inits \ {i} : at'[j] = at[j] /\ stage'[j] = stage[j]
        /\ at'[i] \in {"enter", "done", "failed"}
        /\ at'[i] = "done" => at[i] = "leave" /\ stage[i] = "run"
    BY <1>0, <1>10 DEF LeaveLock, Goto
  <2>3. Guarded'
    <3>1. \A j \in Inits \ {i} : Lock(j)' = Lock(j)
      BY <2>2 DEF Lock
    <3>2. \A l \in Locks \ {Lock(i)} : inside'[l] = inside[l] /\ lapsed'[l] = lapsed[l]
      BY <1>0, <2>1
    <3>3. inside'[Lock(i)] = inside[Lock(i)] \ {i} /\ lapsed'[Lock(i)] = lapsed[Lock(i)] \ {i}
      BY <1>0, <1>l, <2>1
    <3>4. \A j \in Inits, l \in Locks : j \in inside'[l] <=> at'[j] \in Busy /\ l = Lock(j)'
      BY <2>2, <3>1, <3>2, <3>3 DEF Guarded, Busy
    <3>5. \A l \in Locks : lapsed'[l] \subseteq inside'[l]
      BY <3>2, <3>3 DEF Guarded
    <3> QED
      BY <3>4, <3>5 DEF Guarded
  <2>4. Alone'
    BY <1>0, <1>l, <1>w, <2>1, <2>2 DEF Alone, Exists
  <2>5. Registered'
    BY <2>1, <2>2 DEF Registered, Exists
  <2> QED
    BY <2>3, <2>4, <2>5
<1>11. ASSUME NEW r \in Runs, Stop(r) \/ Transition(r) PROVE Guarded' /\ Alone' /\ Registered'
  <2>1. UNCHANGED creation /\ UNCHANGED agenda
    BY <1>11 DEF Stop, Transition, Start, ReadState, WriteState
  <2>2. \A i \in Inits : ~InsertRun(i)
    BY <1>0, <2>1 DEF InsertRun, Goto
  <2> QED
    BY <1>1, <2>1, <2>2
<1>12. ASSUME \/ \E k \in Sessions : Begin(k) \/ Proceed(k) \/ Rollback(k)
              \/ UNCHANGED vars
       PROVE  Guarded' /\ Alone' /\ Registered'
  <2>1. UNCHANGED creation
    BY <1>12 DEF Begin, CancelRequested, Stonith, DeleteOldTaskRuns, Open, Proceed, SkipTerminal,
       CancelRow, LoadChildren, DeleteRow, Commit, Rollback, Close, vars
  <2>2. \A i \in Inits : ~InsertRun(i)
    BY <1>0, <2>1 DEF InsertRun, Goto
  <2> QED
    BY <1>1, <2>1, <2>2
<1> QED
  BY <1>3, <1>4, <1>5, <1>6, <1>8, <1>9, <1>10, <1>11, <1>12 DEF Next, Initialise

-----------------------------------------------------------------------------
(* Transactions.                                                           *)

\* A step is of one transaction at most.
OthersKept(k) ==
  \A j \in Sessions \ {k} :
    /\ op'[j] = op[j] /\ agenda'[j] = agenda[j] /\ seen'[j] = seen[j]
    /\ changed'[j] = changed[j] /\ listed'[j] = listed[j]

LEMMA SessionSteps ==
  ASSUME TypeOK, [Next]_vars
  PROVE  \/ UNCHANGED session
         \/ \E k \in Sessions : OthersKept(k) /\ (Begin(k) \/ Proceed(k) \/ Rollback(k))
<1> USE DEF session
<1>0. /\ op \in [Sessions -> {"idle", "cancel", "delete", "over"}]
      /\ agenda \in [Sessions -> Seq({"visit", "load", "delete"} \X Runs)]
      /\ seen \in [Sessions -> [Runs -> States \cup {Null}]]
      /\ changed \in [Sessions -> SUBSET Runs] /\ listed \in [Sessions -> SUBSET Runs]
  BY DEF TypeOK
<1>1. ASSUME NEW i \in Inits, Call(i) \/ Lapse(i) \/ Initialise(i) PROVE UNCHANGED session
  BY <1>1 DEF Call, Lapse, Initialise, Enter, Select, InsertType, InsertRun, LeaveLock
<1>2. ASSUME NEW r \in Runs, Stop(r) \/ Transition(r) PROVE UNCHANGED session
  BY <1>2 DEF Stop, Transition, Start, ReadState, WriteState
<1>3. ASSUME NEW k \in Sessions, Begin(k) \/ Proceed(k) \/ Rollback(k) PROVE OthersKept(k)
  <2>1. CASE Begin(k)
    BY <1>0, <2>1 DEF Begin, CancelRequested, Stonith, DeleteOldTaskRuns, Open, OthersKept
  <2>2. CASE SkipTerminal(k) \/ LoadChildren(k) \/ DeleteRow(k)
    BY <1>0, <2>2 DEF SkipTerminal, LoadChildren, DeleteRow, OthersKept
  <2>3. CASE CancelRow(k)
    BY <1>0, <2>3 DEF CancelRow, OthersKept
  <2>4. CASE Commit(k) \/ Rollback(k)
    BY <1>0, <2>4 DEF Commit, Rollback, Close, OthersKept
  <2> QED
    BY <1>3, <2>1, <2>2, <2>3, <2>4 DEF Proceed
<1> QED
  BY <1>1, <1>2, <1>3 DEF Next, vars

\* A row that comes below one whose children a transaction has loaded is late, and comes below
\* none that is being deleted if the database enforces foreign keys.
LEMMA ChildrenNext ==
  ASSUME RowsAssumption, TypeOK, Locked, Below, [Next]_vars,
         NEW k \in Sessions, NEW p \in listed[k], NEW r \in Runs, r \in Children(p)'
  PROVE  \/ r \in Children(p)
         \/ /\ r \in late'
            /\ ~(world.foreignKeys /\ op[k] = "delete" /\ p \in changed[k])
<1>0. row \in [Runs -> Row \cup {Null}] /\ p \in Runs /\ p # Null
  BY RowsAssumption DEF TypeOK, RowsAssumption
<1>1. Exists(r)' /\ row'[r].parent = p
  BY DEF Children
<1>2. CASE RowsKept
  BY <1>1, <1>2 DEF RowsKept, Children
<1>3. ASSUME NEW i \in Inits, InsertRun(i), Inserts(i)
      PROVE  \/ r \in Children(p)
             \/ /\ r \in late'
                /\ ~(world.foreignKeys /\ op[k] = "delete" /\ p \in changed[k])
  <2>1. CASE r # i[1]
    BY <1>0, <1>1, <1>3, <2>1 DEF Inserts, Children, Exists
  <2>2. CASE r = i[1]
    <3>1. world.parent[r] = p
      BY <1>0, <1>1, <1>3, <2>2, WorldType DEF Inserts
    <3>2. ~Exists(r) /\ Exists(r)'
      BY <1>1, <1>3, <2>2 DEF Inserts
    <3>3. row' # row
      BY <3>2 DEF Exists
    <3> QED
      BY <1>0, <1>3, <2>2, <3>1, <3>3 DEF InsertRun, Deleting
  <2> QED
    BY <2>1, <2>2
<1>4. ASSUME NEW j \in Sessions, DeletesRows(j) PROVE r \in Children(p)
  BY <1>1, <1>4 DEF DeletesRows, Children, Exists
<1> QED
  BY <1>2, <1>3, <1>4, RowSteps

LEMMA LateGrows ==
  ASSUME [Next]_vars
  PROVE  late \subseteq late'
<1>1. ASSUME NEW i \in Inits, Call(i) \/ Lapse(i) \/ Initialise(i) PROVE late \subseteq late'
  BY <1>1 DEF Call, Lapse, Initialise, Enter, Select, InsertType, InsertRun, LeaveLock
<1>2. ASSUME NEW r \in Runs, Stop(r) \/ Transition(r) PROVE late \subseteq late'
  BY <1>2 DEF Stop, Transition, Start, ReadState, WriteState
<1>3. ASSUME NEW k \in Sessions, Begin(k) \/ Proceed(k) \/ Rollback(k) PROVE late \subseteq late'
  BY <1>3 DEF Begin, CancelRequested, Stonith, DeleteOldTaskRuns, Open, Proceed, SkipTerminal,
     CancelRow, LoadChildren, DeleteRow, Commit, Rollback, Close
<1> QED
  BY <1>1, <1>2, <1>3 DEF Next, vars

\* What a transaction does next.
LEMMA FirstItem ==
  ASSUME TypeOK, Locked, NEW k \in Sessions, agenda[k] # <<>>
  PROVE  /\ agenda[k] \in Seq({"visit", "load", "delete"} \X Runs)
         /\ 1 \in 1..Len(agenda[k]) /\ agenda[k][1] = Next1(k) /\ Item(k) = agenda[k][1][2]
         /\ Item(k) \in Runs
         /\ Due(k, "visit") => op[k] = "cancel"
         /\ Due(k, "load") \/ Due(k, "delete") => op[k] = "delete"
         /\ Due(k, "delete") => Item(k) \in listed[k]
<1>1. agenda[k] \in Seq({"visit", "load", "delete"} \X Runs)
  BY DEF TypeOK
<1>2. /\ agenda[k][1] = Head(agenda[k]) /\ Head(agenda[k]) \in {"visit", "load", "delete"} \X Runs
      /\ 1 \in 1..Len(agenda[k])
  BY <1>1, TailAt
<1>3. op[k] \in {"cancel", "delete"} /\ agenda[k][1][1] \in Kinds[op[k]]
  BY <1>2 DEF Locked, OfItsKind
<1>4. agenda[k][1][1] = "delete" => agenda[k][1][2] \in listed[k]
  BY <1>2 DEF Locked, DueListed
<1> QED
  BY <1>1, <1>2, <1>3, <1>4 DEF Next1, Item, Due, Kinds

\* The children take the cancelled row's place on the agenda.
LEMMA CancelAgenda ==
  ASSUME RowsAssumption, TypeOK, NEW k \in Sessions, CancelRow(k)
  PROVE  /\ \A r \in Children(Item(k)) : OnAgenda(k, r)'
         /\ \A n \in 1..Len(agenda[k]) :
              n = 1 \/ \E m \in 1..Len(agenda'[k]) : agenda'[k][m] = agenda[k][n]
         /\ \A m \in 1..Len(agenda'[k]) :
              \/ agenda'[k][m][1] = "visit"
              \/ \E n \in 1..Len(agenda[k]) : agenda'[k][m] = agenda[k][n]
<1> DEFINE I == {"visit", "load", "delete"} \X Runs
           s == agenda[k]
           t == agenda'[k]
<1>1. s \in Seq(I) /\ s # <<>>
  BY DEF TypeOK, CancelRow, Due
<1>2. PICK C \in SUBSET Runs : C = Children(Item(k))
  BY DEF Children
<1>3. PICK items \in Each("visit", C) : t = items \o Tail(s)
  BY <1>2 DEF CancelRow, TypeOK
<1>4. /\ items \in Seq({"visit"} \X Runs) /\ items \in Seq(I)
      /\ \A r \in C : \E n \in 1..Len(items) : items[n][2] = r
  <2>1. items \in Seq({"visit"} \X Runs) /\ Cover(items, C)
    BY EachBelow
  <2>2. \A r \in C : \E n \in 1..Len(items) : items[n][2] = r
    BY <2>1 DEF Cover
  <2> QED
    BY <2>1, <2>2
<1>5. /\ Tail(s) \in Seq(I)
      /\ \A n \in 1..Len(s) : n = 1 \/ (n - 1 \in 1..Len(Tail(s)) /\ s[n] = Tail(s)[n - 1])
      /\ \A n \in 1..Len(Tail(s)) : n + 1 \in 1..Len(s) /\ Tail(s)[n] = s[n + 1]
  BY <1>1, TailAt
<1> HIDE DEF I, s
<1>6. /\ \A n \in 1..Len(items) : n \in 1..Len(t) /\ t[n] = items[n]
      /\ \A n \in 1..Len(Tail(s)) : Len(items) + n \in 1..Len(t) /\ t[Len(items) + n] = Tail(s)[n]
      /\ \A n \in 1..Len(t) : \/ n \in 1..Len(items)
                              \/ /\ n - Len(items) \in 1..Len(Tail(s))
                                 /\ t[n] = Tail(s)[n - Len(items)]
  BY <1>3, <1>4, <1>5, ConcatAt
<1> HIDE DEF t
<1>7. \A r \in C : \E n \in 1..Len(t) : t[n][2] = r
  BY <1>4, <1>6
<1>8. ASSUME NEW n \in 1..Len(s), n # 1 PROVE \E m \in 1..Len(t) : t[m] = s[n]
  <2>1. n - 1 \in 1..Len(Tail(s)) /\ s[n] = Tail(s)[n - 1]
    BY <1>5, <1>8
  <2>2. Len(items) + (n - 1) \in 1..Len(t) /\ t[Len(items) + (n - 1)] = Tail(s)[n - 1]
    BY <1>6, <2>1
  <2> QED
    BY <2>1, <2>2
<1>9. \A m \in 1..Len(t) : t[m][1] = "visit" \/ \E n \in 1..Len(s) : t[m] = s[n]
  <2>1. \A m \in 1..Len(items) : items[m][1] = "visit"
    BY <1>4
  <2> QED
    BY <1>5, <1>6, <2>1
<1> QED
  BY <1>2, <1>7, <1>8, <1>9 DEF s, t, OnAgenda

\* The children, c of them, come before the row, and both in its place on the agenda.
Loads(k, c) ==
  /\ \A m \in 1..c : m \in 1..Len(agenda'[k]) /\ agenda'[k][m][1] = "load"
  /\ \A r \in Children(Item(k)) \ changed[k] : \E m \in 1..c : agenda'[k][m][2] = r
  /\ c + 1 \in 1..Len(agenda'[k]) /\ agenda'[k][c + 1] = <<"delete", Item(k)>>
  /\ \A n \in 1..Len(agenda[k]) :
       n = 1 \/ (n + c \in 1..Len(agenda'[k]) /\ agenda'[k][n + c] = agenda[k][n])
  /\ \A m \in 1..Len(agenda'[k]) :
       \/ m \in 1..c \/ m = c + 1
       \/ m - c \in 1..Len(agenda[k]) /\ m - c # 1 /\ agenda'[k][m] = agenda[k][m - c]

LEMMA LoadAgenda ==
  ASSUME RowsAssumption, TypeOK, NEW k \in Sessions, LoadChildren(k)
  PROVE  \E c \in Nat : Loads(k, c)
<1> DEFINE I == {"visit", "load", "delete"} \X Runs
           s == agenda[k]
           t == agenda'[k]
           x == Item(k)
<1>1. s \in Seq(I) /\ s # <<>>
  BY DEF TypeOK, LoadChildren, Due
<1>2. PICK C \in SUBSET Runs : C = Children(Item(k)) \ changed[k]
  BY DEF Children
<1>3. PICK items \in Each("load", C) : t = items \o <<<<"delete", x>>>> \o Tail(s)
  BY <1>2 DEF LoadChildren, TypeOK
<1>4. /\ items \in Seq({"load"} \X Runs) /\ items \in Seq(I)
      /\ \A r \in C : \E n \in 1..Len(items) : items[n][2] = r
  <2>1. items \in Seq({"load"} \X Runs) /\ Cover(items, C)
    BY EachBelow
  <2>2. \A r \in C : \E n \in 1..Len(items) : items[n][2] = r
    BY <2>1 DEF Cover
  <2> QED
    BY <2>1, <2>2
<1>5. /\ Tail(s) \in Seq(I) /\ Head(s) \in I
      /\ \A n \in 1..Len(s) : n = 1 \/ (n - 1 \in 1..Len(Tail(s)) /\ s[n] = Tail(s)[n - 1])
      /\ \A n \in 1..Len(Tail(s)) : n + 1 \in 1..Len(s) /\ Tail(s)[n] = s[n + 1]
  BY <1>1, TailAt
<1>6. <<<<"delete", x>>>> \in Seq(I)
  <2>1. x \in Runs
    BY <1>5 DEF Item, Next1
  <2> QED
    BY <2>1
<1> DEFINE u == items \o <<<<"delete", x>>>>
           c == Len(items)
<1> HIDE DEF I, s, x
<1>7. /\ u \in Seq(I) /\ Len(u) = c + 1 /\ c \in Nat
      /\ \A n \in 1..c : n \in 1..Len(u) /\ u[n] = items[n]
      /\ c + 1 \in 1..Len(u) /\ u[c + 1] = <<"delete", x>>
  BY <1>4, <1>6
<1> HIDE DEF u
<1>8. t = u \o Tail(s)
  BY <1>3 DEF u
<1>u. u \in Seq(I) /\ Tail(s) \in Seq(I)
  BY <1>5, <1>7
<1>9. /\ \A n \in 1..Len(u) : n \in 1..Len(t) /\ t[n] = u[n]
      /\ \A n \in 1..Len(Tail(s)) : Len(u) + n \in 1..Len(t) /\ t[Len(u) + n] = Tail(s)[n]
      /\ \A n \in 1..Len(t) : \/ n \in 1..Len(u)
                              \/ n - Len(u) \in 1..Len(Tail(s)) /\ t[n] = Tail(s)[n - Len(u)]
  BY <1>8, <1>u, ConcatAt
<1>10. \A n \in 1..c : items[n][1] = "load" /\ items[n] \in {"load"} \X Runs
  BY <1>4
<1> HIDE DEF t, c
<1>11. Len(s) \in Nat /\ Len(Tail(s)) \in Nat
  BY <1>1, TailAt
<1>12. \A m \in 1..c : m \in 1..Len(t) /\ t[m][1] = "load"
  BY <1>7, <1>9, <1>10
<1>13. \A r \in C : \E m \in 1..c : t[m][2] = r
  <2>1. \A r \in C : \E m \in 1..c : items[m][2] = r
    BY <1>4 DEF c
  <2>2. \A m \in 1..c : t[m] = items[m]
    BY <1>7, <1>9
  <2> QED
    BY <2>1, <2>2
<1>14. c + 1 \in 1..Len(t) /\ t[c + 1] = <<"delete", x>>
  BY <1>7, <1>9
<1>15. ASSUME NEW n \in 1..Len(s), n # 1 PROVE n + c \in 1..Len(t) /\ t[n + c] = s[n]
  <2>1. n - 1 \in 1..Len(Tail(s)) /\ s[n] = Tail(s)[n - 1]
    BY <1>5, <1>15
  <2>2. (c + 1) + (n - 1) \in 1..Len(t) /\ t[(c + 1) + (n - 1)] = Tail(s)[n - 1]
    BY <1>7, <1>9, <2>1
  <2>3. n \in Int
    BY <1>11
  <2>4. (c + 1) + (n - 1) = n + c
    BY <1>7, <2>3
  <2> QED
    BY <2>1, <2>2, <2>4
<1>16. ASSUME NEW m \in 1..Len(t), m \notin 1..c, m # c + 1
       PROVE  m - c \in 1..Len(s) /\ m - c # 1 /\ t[m] = s[m - c]
  <2>1. m \notin 1..Len(u) /\ m \in Int
    BY <1>7, <1>16
  <2>2. m - (c + 1) \in 1..Len(Tail(s)) /\ t[m] = Tail(s)[m - (c + 1)]
    BY <1>7, <1>9, <2>1
  <2>3. (m - (c + 1)) + 1 \in 1..Len(s) /\ t[m] = s[(m - (c + 1)) + 1]
    BY <1>5, <2>2
  <2>4. (m - (c + 1)) + 1 = m - c /\ m # c + 1
    BY <1>7, <1>16, <2>1
  <2>5. m - c # 1
    BY <1>7, <2>1, <2>4
  <2> QED
    BY <2>3, <2>4, <2>5
<1>17. /\ \A n \in 1..Len(s) : n = 1 \/ (n + c \in 1..Len(t) /\ t[n + c] = s[n])
       /\ \A m \in 1..Len(t) : \/ m \in 1..c \/ m = c + 1
                               \/ m - c \in 1..Len(s) /\ m - c # 1 /\ t[m] = s[m - c]
  BY <1>15, <1>16
<1>18. Loads(k, c)
  BY <1>2, <1>12, <1>13, <1>14, <1>17 DEF Loads, s, t, x
<1> QED
  BY <1>7, <1>18

\* What a transaction's action does to its own part of the state.
LEMMA OwnSteps ==
  ASSUME TypeOK, NEW k \in Sessions
  PROVE  /\ SkipTerminal(k) =>
              /\ agenda[k] # <<>> /\ agenda'[k] = Tail(agenda[k])
              /\ UNCHANGED <<row, op, seen, changed, listed, late>>
         /\ CancelRow(k) =>
              /\ agenda[k] # <<>>
              /\ changed'[k] = changed[k] \cup {Item(k)} /\ listed'[k] = listed[k] \cup {Item(k)}
              /\ UNCHANGED <<row, op, late>>
         /\ LoadChildren(k) =>
              /\ agenda[k] # <<>>
              /\ listed'[k] = listed[k] \cup {Item(k)} /\ UNCHANGED <<row, op, seen, changed, late>>
         /\ DeleteRow(k) =>
              /\ agenda[k] # <<>> /\ agenda'[k] = Tail(agenda[k])
              /\ changed'[k] = changed[k] \cup IF Exists(Item(k)) THEN {Item(k)} ELSE {}
              /\ UNCHANGED <<row, op, seen, listed, late>>
         /\ Commit(k) \/ Rollback(k) =>
              /\ op'[k] = "over" /\ agenda'[k] = <<>> /\ changed'[k] = {} /\ listed'[k] = {}
<1>0. /\ op \in [Sessions -> {"idle", "cancel", "delete", "over"}]
      /\ agenda \in [Sessions -> Seq({"visit", "load", "delete"} \X Runs)]
      /\ changed \in [Sessions -> SUBSET Runs] /\ listed \in [Sessions -> SUBSET Runs]
  BY DEF TypeOK
<1>1. SkipTerminal(k) =>
        /\ agenda[k] # <<>> /\ agenda'[k] = Tail(agenda[k])
        /\ UNCHANGED <<row, op, seen, changed, listed, late>>
  BY <1>0 DEF SkipTerminal, Due
<1>2. CancelRow(k) =>
        /\ agenda[k] # <<>>
        /\ changed'[k] = changed[k] \cup {Item(k)} /\ listed'[k] = listed[k] \cup {Item(k)}
        /\ UNCHANGED <<row, op, late>>
  BY <1>0 DEF CancelRow, Due
<1>3. LoadChildren(k) =>
        /\ agenda[k] # <<>>
        /\ listed'[k] = listed[k] \cup {Item(k)} /\ UNCHANGED <<row, op, seen, changed, late>>
  BY <1>0 DEF LoadChildren, Due
<1>4. DeleteRow(k) =>
        /\ agenda[k] # <<>> /\ agenda'[k] = Tail(agenda[k])
        /\ changed'[k] = changed[k] \cup IF Exists(Item(k)) THEN {Item(k)} ELSE {}
        /\ UNCHANGED <<row, op, seen, listed, late>>
  BY <1>0 DEF DeleteRow, Due
<1>5. Commit(k) \/ Rollback(k) =>
        /\ op'[k] = "over" /\ agenda'[k] = <<>> /\ changed'[k] = {} /\ listed'[k] = {}
  BY <1>0 DEF Commit, Rollback, Close
<1> QED
  BY <1>1, <1>2, <1>3, <1>4, <1>5

\* A transaction that begins has an agenda of its kind, and nothing else yet.
LEMMA Opened ==
  ASSUME RowsAssumption, TypeOK, Locked, NEW k \in Sessions, Begin(k)
  PROVE  /\ op'[k] \in {"cancel", "delete"} /\ changed'[k] = {} /\ UNCHANGED <<row, late>>
         /\ \A n \in 1..Len(agenda'[k]) :
              agenda'[k][n][1] = IF op'[k] = "cancel" THEN "visit" ELSE "load"
<1>0. PICK purpose \in {"cancel", "delete"} : \E items, loaded : Opens(k, purpose, items, loaded)
  BY BeginOpens
<1>1. PICK items, loaded : Opens(k, purpose, items, loaded)
  BY <1>0
<1>2. /\ op[k] = "idle" /\ op'[k] = purpose /\ agenda'[k] = items
      /\ UNCHANGED <<row, changed, late>>
      /\ items \in Seq({IF purpose = "cancel" THEN "visit" ELSE "load"} \X Runs)
  BY <1>1 DEF Opens, Open, TypeOK
<1>3. changed[k] = {}
  BY <1>2 DEF Locked, OfItsKind
<1>4. \A n \in 1..Len(items) : items[n] \in {IF purpose = "cancel" THEN "visit" ELSE "load"} \X Runs
  BY <1>2
<1> QED
  BY <1>2, <1>3, <1>4

LEMMA LockedNext ==
  ASSUME RowsAssumption, TypeOK, Locked, [Next]_vars
  PROVE  Locked'
<1> USE DEF session
<1>0. /\ row \in [Runs -> Row \cup {Null}]
      /\ changed \in [Sessions -> SUBSET Runs] /\ listed \in [Sessions -> SUBSET Runs]
  BY DEF TypeOK
\* Nobody deletes a row that another transaction has written.
<1>1. ASSUME NEW k \in Sessions, NEW r \in changed[k], changed'[k] # {} PROVE Exists(r)'
  <2>1. r \in Runs /\ Exists(r)
    BY <1>0 DEF Locked, Held
  <2>2. CASE RowsKept
    BY <2>1, <2>2 DEF RowsKept
  <2>3. ASSUME NEW i \in Inits, Inserts(i) PROVE Exists(r)'
    BY <1>0, <2>1, <2>3 DEF Inserts, Exists
  <2>4. ASSUME NEW j \in Sessions, DeletesRows(j) PROVE Exists(r)'
    <3>1. j # k
      BY <1>0, <1>1, <2>4 DEF DeletesRows, Close
    <3>2. r \notin changed[j]
      BY <3>1 DEF Locked, Apart
    <3> QED
      BY <2>1, <2>4, <3>2 DEF DeletesRows, Exists
  <2> QED
    BY <2>2, <2>3, <2>4, RowSteps
<1>2. ASSUME NEW k \in Sessions, UNCHANGED <<op[k], agenda[k], changed[k], listed[k]>>
      PROVE  Held(k)' /\ OfItsKind(k)' /\ DueListed(k)'
  <2>1. Held(k) /\ OfItsKind(k) /\ DueListed(k)
    BY DEF Locked
  <2>2. Held(k)'
    BY <1>1, <1>2, <2>1 DEF Held
  <2>3. OfItsKind(k)'
    BY <1>2, <2>1 DEF OfItsKind
  <2>4. DueListed(k)'
    BY <1>2, <2>1 DEF DueListed
  <2> QED
    BY <2>2, <2>3, <2>4
<1>3. ASSUME UNCHANGED session PROVE Locked'
  <2>1. Apart'
    BY <1>3 DEF Locked, Apart
  <2> QED
    BY <1>2, <1>3, <2>1 DEF Locked
<1>4. ASSUME NEW k \in Sessions, OthersKept(k), Held(k)', OfItsKind(k)', DueListed(k)',
             \A r \in changed'[k] : r \in changed[k] \/ ~LockedFor(k, r)
      PROVE  Locked'
  <2>1. \A j \in Sessions \ {k} : changed'[j] \cap changed'[k] = {}
    BY <1>4 DEF OthersKept, LockedFor, Locked, Apart
  <2>2. \A i, j \in Sessions \ {k} : i # j => changed'[i] \cap changed'[j] = {}
    BY <1>4 DEF OthersKept, Locked, Apart
  <2>3. Apart'
    BY <2>1, <2>2 DEF Apart
  <2>4. \A j \in Sessions \ {k} : Held(j)' /\ OfItsKind(j)' /\ DueListed(j)'
    BY <1>2, <1>4 DEF OthersKept
  <2> QED
    BY <1>4, <2>3, <2>4 DEF Locked
<1>5. ASSUME NEW k \in Sessions, OthersKept(k), Begin(k) PROVE Locked'
  <2>1. Held(k)' /\ OfItsKind(k)' /\ DueListed(k)'
    BY <1>5, Opened DEF Held, OfItsKind, DueListed, Kinds
  <2> QED
    BY <1>4, <1>5, <2>1, Opened
\* The rest of an agenda is of the same kind.
<1>6. ASSUME NEW k \in Sessions, agenda[k] # <<>>, agenda'[k] = Tail(agenda[k]),
             op'[k] = op[k], listed'[k] = listed[k]
      PROVE  OfItsKind(k)' /\ DueListed(k)'
  <2>1. agenda[k] \in Seq({"visit", "load", "delete"} \X Runs)
    BY DEF TypeOK
  <2>2. \A n \in 1..Len(agenda'[k]) :
          n + 1 \in 1..Len(agenda[k]) /\ agenda'[k][n] = agenda[k][n + 1]
    BY <1>6, <2>1, TailAt
  <2>3. op[k] \in {"cancel", "delete"}
    BY <1>6 DEF Locked, OfItsKind
  <2> QED
    BY <1>6, <2>2, <2>3 DEF Locked, OfItsKind, DueListed
<1>7. ASSUME NEW k \in Sessions, OthersKept(k), SkipTerminal(k) PROVE Locked'
  <2>1. OfItsKind(k)' /\ DueListed(k)'
    BY <1>6, <1>7, OwnSteps
  <2>2. Held(k)' /\ changed'[k] = changed[k]
    BY <1>1, <1>7, OwnSteps DEF Held, Locked
  <2> QED
    BY <1>4, <1>7, <2>1, <2>2
<1>8. ASSUME NEW k \in Sessions, OthersKept(k), CancelRow(k) PROVE Locked'
  <2>1. Due(k, "visit") /\ Exists(Item(k)) /\ ~LockedFor(k, Item(k)) /\ agenda[k] # <<>>
    BY <1>8 DEF CancelRow, Due
  <2>2. op[k] = "cancel" /\ Item(k) \in Runs /\ UNCHANGED <<row, op>>
    BY <1>8, <2>1, FirstItem, OwnSteps
  <2>3. op[k] = "cancel" /\ op'[k] = "cancel" /\ ~LockedFor(k, Item(k))
    BY <2>1, <2>2
  <2>4. OfItsKind(k)' /\ DueListed(k)'
    <3>1. \A n \in 1..Len(agenda'[k]) : agenda'[k][n][1] = "visit"
      BY <1>8, <2>3, CancelAgenda DEF Locked, OfItsKind, Kinds
    <3> QED
      BY <2>3, <3>1 DEF OfItsKind, DueListed, Kinds
  <2>5. Held(k)'
    <3>1. ASSUME NEW r \in changed'[k] PROVE row'[r] # Null /\ r \in listed'[k]
      <4>1. r = Item(k) \/ r \in changed[k]
        BY <1>8, OwnSteps
      <4>2. row[r] # Null /\ (r = Item(k) \/ r \in listed[k])
        BY <2>1, <4>1 DEF Locked, Held, Exists
      <4> QED
        BY <1>8, <2>2, <4>2, OwnSteps
    <3> QED
      BY <3>1 DEF Held, Exists
  <2>6. \A r \in changed'[k] : r \in changed[k] \/ ~LockedFor(k, r)
    BY <1>8, <2>3, OwnSteps
  <2> QED
    BY <1>4, <1>8, <2>4, <2>5, <2>6
<1>9. ASSUME NEW k \in Sessions, OthersKept(k), LoadChildren(k) PROVE Locked'
  <2>1. op[k] = "delete" /\ op'[k] = "delete" /\ listed'[k] = listed[k] \cup {Item(k)}
    BY <1>9, FirstItem, OwnSteps DEF LoadChildren
  <2>2. ASSUME NEW m \in 1..Len(agenda'[k])
        PROVE  /\ agenda'[k][m][1] \in {"load", "delete"}
               /\ agenda'[k][m][1] = "delete" => agenda'[k][m][2] \in listed'[k]
    <3>1. \/ agenda'[k][m][1] = "load"
          \/ agenda'[k][m] = <<"delete", Item(k)>>
          \/ \E n \in 1..Len(agenda[k]) : agenda'[k][m] = agenda[k][n]
      <4>1. PICK c \in Nat : Loads(k, c)
        BY <1>9, LoadAgenda
      <4> QED
        BY <4>1 DEF Loads
    <3> QED
      BY <2>1, <3>1 DEF Locked, OfItsKind, DueListed, Kinds
  <2>3. OfItsKind(k)' /\ DueListed(k)'
    BY <2>1, <2>2 DEF OfItsKind, DueListed, Kinds
  <2>4. Held(k)' /\ changed'[k] = changed[k]
    BY <1>1, <1>9, OwnSteps DEF Held, Locked
  <2> QED
    BY <1>4, <1>9, <2>3, <2>4
<1>10. ASSUME NEW k \in Sessions, OthersKept(k), DeleteRow(k) PROVE Locked'
  <2>1. OfItsKind(k)' /\ DueListed(k)'
    BY <1>6, <1>10, OwnSteps
  <2>2. Item(k) \in listed[k] /\ ~LockedFor(k, Item(k))
    BY <1>10, FirstItem, OwnSteps DEF DeleteRow
  <2>3. Held(k)'
    BY <1>10, <2>2, OwnSteps DEF Held, Locked, Exists
  <2>4. \A r \in changed'[k] : r \in changed[k] \/ ~LockedFor(k, r)
    BY <1>10, <2>2, OwnSteps
  <2> QED
    BY <1>4, <1>10, <2>1, <2>3, <2>4
<1>11. ASSUME NEW k \in Sessions, OthersKept(k), Commit(k) \/ Rollback(k) PROVE Locked'
  <2>1. Held(k)' /\ OfItsKind(k)' /\ DueListed(k)' /\ changed'[k] = {}
    BY <1>11, OwnSteps DEF Held, OfItsKind, DueListed
  <2> QED
    BY <1>4, <1>11, <2>1
<1> QED
  BY <1>3, <1>5, <1>7, <1>8, <1>9, <1>10, <1>11, SessionSteps DEF Proceed

LEMMA BelowNext ==
  ASSUME RowsAssumption, TypeOK, Locked, Below, [Next]_vars
  PROVE  Below'
<1>0. row \in [Runs -> Row \cup {Null}] /\ world' = world
  BY WorldKept DEF TypeOK
<1>1. CASE RowsKept
  BY <1>0, <1>1 DEF RowsKept, Below
<1>2. ASSUME NEW i \in Inits, Inserts(i) PROVE Below'
  BY <1>0, <1>2, WorldType DEF Inserts, Below, Exists
<1>3. ASSUME NEW k \in Sessions, DeletesRows(k) PROVE Below'
  BY <1>0, <1>3 DEF DeletesRows, Below, Exists
<1> QED
  BY <1>1, <1>2, <1>3, RowSteps

-----------------------------------------------------------------------------
(* Cascades.                                                               *)

\* What the transactions of others leave as it is.
Same(k) ==
  /\ op'[k] = op[k] /\ agenda'[k] = agenda[k] /\ seen'[k] = seen[k]
  /\ changed'[k] = changed[k] /\ listed'[k] = listed[k]

LEMMA CascadingKept ==
  ASSUME RowsAssumption, TypeOK, Locked, Below, [Next]_vars,
         NEW k \in Sessions, Same(k), Cascading(k)
  PROVE  Cascading(k)'
<1>1. ASSUME op[k] = "cancel", NEW p \in changed[k], NEW r \in Children(p)'
      PROVE  r \in changed[k] \cup late' \/ seen[k][r] \in Terminal \/ OnAgenda(k, r)
  <2>1. p \in listed[k] /\ r \in Runs
    BY DEF Locked, Held, Children
  <2>2. r \in Children(p) \/ r \in late'
    BY <2>1, ChildrenNext
  <2> QED
    BY <1>1, <2>2, LateGrows DEF Cascading
<1> QED
  BY <1>1 DEF Same, Cascading, OnAgenda

LEMMA CascadingNext ==
  ASSUME RowsAssumption, TypeOK, Locked, Below, [Next]_vars, NEW k \in Sessions, Cascading(k),
         OthersKept(k), Begin(k) \/ Proceed(k) \/ Rollback(k)
  PROVE  Cascading(k)'
<1>0. Null \notin Terminal
  BY DEF RowsAssumption, Terminal, States
<1>1. CASE Begin(k)
  BY <1>1, Opened DEF Cascading
<1>2. CASE SkipTerminal(k)
  <2>1. UNCHANGED <<row, op, seen, changed, listed, late>>
    BY <1>2, OwnSteps
  <2>2. seen[k][Item(k)] \in Terminal
    BY <1>2 DEF SkipTerminal
  <2>3. ASSUME NEW r \in Runs, OnAgenda(k, r), r # Item(k) PROVE OnAgenda(k, r)'
    <3>1. agenda[k] \in Seq({"visit", "load", "delete"} \X Runs)
      BY DEF TypeOK
    <3>2. agenda[k] # <<>> /\ agenda'[k] = Tail(agenda[k]) /\ agenda[k][1][2] = Item(k)
      BY <1>2, OwnSteps, FirstItem
    <3>3. \A n \in 1..Len(agenda[k]) :
            n = 1 \/ (n - 1 \in 1..Len(agenda'[k]) /\ agenda[k][n] = agenda'[k][n - 1])
      BY <3>1, <3>2, TailAt
    <3> QED
      BY <2>3, <3>2, <3>3 DEF OnAgenda
  <2>4. \A p \in changed[k] : \A r \in Children(p) : r \in Runs
    BY DEF Children
  <2>5. Children(Null)' = Children(Null) /\ \A p \in Runs : Children(p)' = Children(p)
    BY <2>1 DEF Children, Exists
  <2>6. changed[k] \subseteq Runs
    BY DEF TypeOK
  <2> QED
    BY <2>1, <2>2, <2>3, <2>4, <2>5, <2>6 DEF Cascading
<1>3. CASE CancelRow(k)
  <2> DEFINE x == Item(k)
  <2>1. /\ agenda[k] # <<>> /\ changed'[k] = changed[k] \cup {x} /\ UNCHANGED <<row, op, late>>
        /\ agenda[k][1][2] = x
    BY <1>3, OwnSteps, FirstItem
  <2>2. op[k] = "cancel"
    BY <1>3, <2>1, FirstItem DEF CancelRow
  <2>3. \A r \in Runs : seen[k][r] \in Terminal => seen'[k][r] \in Terminal
    BY <1>0, <1>3 DEF CancelRow, TypeOK, Terminal
  <2>4. \A r \in Children(x) : OnAgenda(k, r)'
    BY <1>3, CancelAgenda
  <2>5. ASSUME NEW r \in Runs, OnAgenda(k, r), r # x PROVE OnAgenda(k, r)'
    <3>1. \A n \in 1..Len(agenda[k]) :
            n = 1 \/ \E m \in 1..Len(agenda'[k]) : agenda'[k][m] = agenda[k][n]
      BY <1>3, CancelAgenda
    <3>2. PICK n \in 1..Len(agenda[k]) : agenda[k][n][2] = r
      BY <2>5 DEF OnAgenda
    <3>3. n # 1
      BY <2>1, <2>5, <3>2
    <3>4. PICK m \in 1..Len(agenda'[k]) : agenda'[k][m] = agenda[k][n]
      BY <3>1, <3>3
    <3> QED
      BY <3>2, <3>4 DEF OnAgenda
  <2>6. \A p : Children(p)' = Children(p) /\ Children(p) \subseteq Runs
    BY <2>1 DEF Children, Exists
  <2> HIDE DEF x
  <2>7. ASSUME NEW p \in changed[k] \cup {x}, NEW r \in Children(p)
        PROVE  r \in changed[k] \cup {x} \cup late \/ seen'[k][r] \in Terminal \/ OnAgenda(k, r)'
    <3>1. r \in Runs
      BY <2>6
    <3>2. CASE p = x
      BY <2>4, <3>2
    <3>3. CASE p \in changed[k]
      BY <2>2, <2>3, <2>5, <3>1, <3>3 DEF Cascading
    <3> QED
      BY <3>2, <3>3
  <2> QED
    BY <2>1, <2>6, <2>7 DEF Cascading
<1>4. CASE LoadChildren(k) \/ DeleteRow(k)
  <2>1. agenda[k] # <<>> /\ (Due(k, "load") \/ Due(k, "delete"))
    BY <1>4 DEF LoadChildren, DeleteRow, Due
  <2>2. op[k] = "delete"
    BY <2>1, FirstItem
  <2>3. op' = op
    BY <1>4, OwnSteps
  <2> QED
    BY <2>2, <2>3 DEF Cascading
<1>5. CASE Commit(k) \/ Rollback(k)
  BY <1>5, OwnSteps DEF Cascading
<1> QED
  BY <1>1, <1>2, <1>3, <1>4, <1>5 DEF Proceed

-----------------------------------------------------------------------------
(* Deletions.                                                              *)

LEMMA DeletionKept ==
  ASSUME RowsAssumption, TypeOK, Locked, Below, [Next]_vars,
         NEW k \in Sessions, Same(k), DeletedBelow(k), Ascending(k)
  PROVE  DeletedBelow(k)' /\ Ascending(k)'
<1>1. world' = world /\ late \subseteq late'
  BY WorldKept, LateGrows
<1>2. ASSUME op[k] = "delete", NEW p \in changed[k], NEW r \in Children(p)'
      PROVE  r \in changed[k] \/ (r \in late' /\ ~world.foreignKeys)
  <2>1. p \in listed[k] /\ r \in Runs
    BY DEF Locked, Held, Children
  <2>2. r \in Children(p) \/ (r \in late' /\ ~world.foreignKeys)
    BY <1>2, <2>1, ChildrenNext
  <2> QED
    BY <1>1, <1>2, <2>2 DEF DeletedBelow
<1>3. ASSUME op[k] = "delete", NEW n \in 1..Len(agenda[k]), agenda[k][n][1] = "delete",
             NEW r \in Children(agenda[k][n][2])'
      PROVE  r \in changed[k] \cup late' \/ Earlier(k, n, r)
  <2>1. PICK p \in listed[k] : p = agenda[k][n][2]
    BY <1>3 DEF Locked, DueListed
  <2>2. r \in Children(p)'
    <3>1. p = agenda'[k][n][2] => Children(p)' = Children(agenda[k][n][2])'
      BY <2>1 DEF Same
    <3> QED
      BY <1>3, <2>1, <3>1 DEF Same
  <2>3. r \in Children(p) \/ r \in late'
    BY <2>2, ChildrenNext DEF Children
  <2> QED
    BY <1>1, <1>3, <2>1, <2>3 DEF Ascending
<1>4. DeletedBelow(k)'
  BY <1>1, <1>2 DEF Same, DeletedBelow
<1>5. Ascending(k)'
  BY <1>3 DEF Same, Ascending, Earlier
<1> QED
  BY <1>4, <1>5

LEMMA DeletionNext ==
  ASSUME RowsAssumption, TypeOK, Locked, Below, [Next]_vars, NEW k \in Sessions,
         DeletedBelow(k), Ascending(k),
         OthersKept(k), Begin(k) \/ Proceed(k) \/ Rollback(k)
  PROVE  DeletedBelow(k)' /\ Ascending(k)'
<1>0. world' = world /\ agenda[k] \in Seq({"visit", "load", "delete"} \X Runs)
  BY WorldKept DEF TypeOK
<1>1. CASE Begin(k)
  BY <1>1, Opened DEF DeletedBelow, Ascending
<1>2. CASE SkipTerminal(k) \/ CancelRow(k)
  <2>1. agenda[k] # <<>> /\ Due(k, "visit")
    BY <1>2 DEF SkipTerminal, CancelRow, Due
  <2>2. op[k] = "cancel"
    BY <2>1, FirstItem
  <2>3. op' = op
    BY <1>2, OwnSteps
  <2> QED
    BY <2>2, <2>3 DEF DeletedBelow, Ascending
<1>3. ASSUME UNCHANGED row PROVE \A p : Children(p)' = Children(p) /\ Children(p) \subseteq Runs
  BY <1>3 DEF Children, Exists
<1>4. CASE LoadChildren(k)
  <2> DEFINE x == Item(k)
  <2>1. /\ agenda[k] # <<>> /\ UNCHANGED <<row, op, changed, late>>
        /\ agenda[k][1][2] = x /\ op[k] = "delete"
    BY <1>4, OwnSteps, FirstItem DEF LoadChildren
  <2>2. DeletedBelow(k)'
    BY <1>0, <1>3, <2>1 DEF DeletedBelow
  <2>3. PICK c \in Nat : Loads(k, c)
    BY <1>4, LoadAgenda
  <2> HIDE DEF x
  <2>4. ASSUME NEW m \in 1..Len(agenda'[k]), agenda'[k][m][1] = "delete",
               NEW r \in Children(agenda'[k][m][2])
        PROVE  \/ r \in changed[k] \cup late
               \/ \E l \in 1..Len(agenda'[k]) : l < m /\ agenda'[k][l][2] = r
    <3>1. CASE m = c + 1
      <4>1. r \in Children(x)
        BY <2>3, <2>4, <3>1 DEF Loads, x
      <4>2. CASE r \notin changed[k]
        <5>1. PICK l \in 1..c : agenda'[k][l][2] = r
          BY <2>3, <4>1, <4>2 DEF Loads, x
        <5>2. l < m /\ l \in 1..Len(agenda'[k])
          BY <2>3, <3>1, <5>1 DEF Loads
        <5> QED
          BY <5>1, <5>2
      <4> QED
        BY <4>2
    <3>2. CASE m - c \in 1..Len(agenda[k]) /\ m - c # 1 /\ agenda'[k][m] = agenda[k][m - c]
      <4>1. PICK n \in 1..Len(agenda[k]) : n = m - c /\ n # 1
        BY <3>2
      <4>2. agenda[k][n][1] = "delete" /\ r \in Children(agenda[k][n][2])
        BY <2>4, <3>2, <4>1
      <4>3. r \in changed[k] \cup late \/ Earlier(k, n, r)
        BY <2>1, <4>2 DEF Ascending
      <4>4. CASE Earlier(k, n, r)
        <5>1. PICK l \in 1..Len(agenda[k]) : l < n /\ agenda[k][l][2] = r
          BY <4>4 DEF Earlier
        <5>2. m \in Int /\ n \in Int /\ l \in Int /\ m = n + c
          BY <1>0, <4>1
        <5>3. CASE l = 1
          <6>1. c + 1 \in 1..Len(agenda'[k]) /\ agenda'[k][c + 1][2] = r
            BY <2>1, <2>3, <5>1, <5>3 DEF Loads, x
          <6>2. c + 1 < m
            BY <5>1, <5>2, <5>3
          <6> QED
            BY <6>1, <6>2
        <5>4. CASE l # 1
          <6>1. l + c \in 1..Len(agenda'[k]) /\ agenda'[k][l + c] = agenda[k][l]
            BY <2>3, <5>4 DEF Loads
          <6>2. l + c < m
            BY <5>1, <5>2
          <6> QED
            BY <5>1, <6>1, <6>2
        <5> QED
          BY <5>3, <5>4
      <4> QED
        BY <4>3, <4>4
    <3>3. m \notin 1..c
      BY <2>3, <2>4 DEF Loads
    <3> QED
      BY <2>3, <3>1, <3>2, <3>3 DEF Loads
  <2>5. Ascending(k)'
    BY <1>3, <2>1, <2>4 DEF Ascending, Earlier
  <2> QED
    BY <2>2, <2>5
<1>5. CASE DeleteRow(k)
  <2> DEFINE x == Item(k)
  <2>1. /\ agenda[k] # <<>> /\ UNCHANGED <<row, op, late>>
        /\ agenda[k][1][2] = x /\ op[k] = "delete" /\ agenda'[k] = Tail(agenda[k])
        /\ changed'[k] = changed[k] \cup IF Exists(x) THEN {x} ELSE {}
    BY <1>5, OwnSteps, FirstItem DEF DeleteRow
  <2>2. 1 \in 1..Len(agenda[k]) /\ agenda[k][1][1] = "delete"
    BY <1>5, <2>1, FirstItem DEF DeleteRow, Due
  <2>3. ~DeleteBreaks(k, x)
    BY <1>5 DEF DeleteRow
  <2> HIDE DEF x
  <2>4. \A r \in Children(x) : r \in changed[k] \/ (r \in late /\ ~world.foreignKeys)
    <3>1. ASSUME NEW r \in Children(x) PROVE r \in changed[k] \cup late
      <4>1. r \in changed[k] \cup late \/ Earlier(k, 1, r)
        BY <2>1, <2>2 DEF Ascending
      <4>2. ~Earlier(k, 1, r)
        BY <1>0 DEF Earlier
      <4> QED
        BY <4>1, <4>2
    <3> QED
      BY <2>3, <3>1 DEF DeleteBreaks
  <2>5. DeletedBelow(k)'
    BY <1>0, <1>3, <2>1, <2>4 DEF DeletedBelow
  <2>6. /\ \A n \in 1..Len(agenda[k]) :
             n = 1 \/ (n - 1 \in 1..Len(agenda'[k]) /\ agenda[k][n] = agenda'[k][n - 1])
        /\ \A n \in 1..Len(agenda'[k]) :
             n + 1 \in 1..Len(agenda[k]) /\ agenda'[k][n] = agenda[k][n + 1]
        /\ Len(agenda'[k]) \in Nat
    BY <1>0, <2>1, TailAt
  <2>7. ASSUME NEW m \in 1..Len(agenda'[k]), agenda'[k][m][1] = "delete",
               NEW r \in Children(agenda'[k][m][2])
        PROVE  \/ r \in changed'[k] \cup late
               \/ \E l \in 1..Len(agenda'[k]) : l < m /\ agenda'[k][l][2] = r
    <3>1. PICK n \in 1..Len(agenda[k]) : n = m + 1 /\ agenda'[k][m] = agenda[k][n]
      BY <2>6
    <3>2. r \in changed[k] \cup late \/ Earlier(k, n, r)
      BY <2>1, <2>7, <3>1 DEF Ascending
    <3>3. CASE Earlier(k, n, r)
      <4>1. PICK l \in 1..Len(agenda[k]) : l < n /\ agenda[k][l][2] = r
        BY <3>3 DEF Earlier
      <4>2. CASE l = 1
        BY <2>1, <2>7, <4>1, <4>2 DEF Children
      <4>3. CASE l # 1
        <5>1. l - 1 \in 1..Len(agenda'[k]) /\ agenda'[k][l - 1][2] = r
          BY <2>6, <4>1, <4>3
        <5>2. l - 1 < m
          BY <1>0, <2>6, <3>1, <4>1
        <5> QED
          BY <5>1, <5>2
      <4> QED
        BY <4>2, <4>3
    <3> QED
      BY <2>1, <3>2, <3>3
  <2>8. Ascending(k)'
    BY <1>3, <2>1, <2>7 DEF Ascending, Earlier
  <2> QED
    BY <2>5, <2>8
<1>6. CASE Commit(k) \/ Rollback(k)
  BY <1>6, OwnSteps DEF DeletedBelow, Ascending
<1> QED
  BY <1>1, <1>2, <1>4, <1>5, <1>6 DEF Proceed

-----------------------------------------------------------------------------
(* Orphans.                                                                *)

LEMMA NoOrphanNext ==
  ASSUME RowsAssumption, TypeOK, Locked, Below, NoOrphan,
         \A k \in Sessions : DeletedBelow(k), [Next]_vars
  PROVE  NoOrphan'
<1>0. /\ row \in [Runs -> Row \cup {Null}] /\ world' = world /\ late \subseteq late'
      /\ \A r \in Runs : world.parent[r] \in Runs \cup {Null}
  BY WorldKept, LateGrows, WorldType DEF TypeOK
<1>1. CASE RowsKept
  BY <1>0, <1>1 DEF RowsKept, NoOrphan, Orphan
\* A row inserted without its parent is late at once, and the foreign key would refuse it.
<1>2. ASSUME NEW i \in Inits, InsertRun(i), Inserts(i) PROVE NoOrphan'
  <2>1. ~Exists(i[1]) /\ \A r \in Runs \ {i[1]} : Exists(r)' = Exists(r)
    BY <1>0, <1>2 DEF Inserts, Exists
  <2>2. i[1] \in Runs /\ Exists(i[1])'
    BY <1>0, <1>2, WorldType DEF Inserts, Exists
  <2>3. row' # row
    BY <2>1, <2>2 DEF Exists
  <2>4. Orphan(i[1]) => ~world.foreignKeys /\ i[1] \in late'
    BY <1>2, <2>3 DEF InsertRun
  <2>5. ASSUME NEW r \in Runs, Exists(r)', Orphan(r)' PROVE r \in late' /\ ~world'.foreignKeys
    <3>1. Orphan(r)
      BY <1>0, <2>2, <2>5, <2>1 DEF Orphan
    <3>2. CASE r = i[1]
      BY <1>0, <2>4, <3>1, <3>2
    <3>3. CASE r # i[1]
      BY <1>0, <2>1, <2>5, <3>1, <3>3 DEF NoOrphan
    <3> QED
      BY <3>2, <3>3
  <2> QED
    BY <2>5 DEF NoOrphan
\* A row is deleted together with those below it that were there when they were looked for.
<1>3. ASSUME NEW k \in Sessions, DeletesRows(k) PROVE NoOrphan'
  <2>1. op[k] = "delete" /\ \A r \in Runs : Exists(r)' <=> Exists(r) /\ r \notin changed[k]
    BY <1>0, <1>3 DEF DeletesRows, Exists
  <2>2. ASSUME NEW r \in Runs, Exists(r)', Orphan(r)' PROVE r \in late' /\ ~world'.foreignKeys
    <3>1. PICK p \in Runs : p = world.parent[r] /\ p # Null /\ ~Exists(p)'
      BY <1>0, <2>2 DEF Orphan
    <3>r. Exists(r) /\ r \notin changed[k]
      BY <2>1, <2>2
    <3>2. CASE ~Exists(p)
      BY <1>0, <3>1, <3>r, <3>2 DEF NoOrphan, Orphan
    <3>3. CASE p \in changed[k]
      <4>1. r \in Children(p)
        BY <3>1, <3>r DEF Children, Below
      <4> QED
        BY <1>0, <2>1, <3>r, <3>3, <4>1 DEF DeletedBelow
    <3> QED
      BY <2>1, <3>1, <3>2, <3>3
  <2> QED
    BY <2>2 DEF NoOrphan
<1> QED
  BY <1>1, <1>2, <1>3, RowSteps

-----------------------------------------------------------------------------
(* The invariant.                                                          *)

LEMMA InsertedOnceNext ==
  ASSUME TypeOK, Alone, InsertedOnce, [Next]_vars
  PROVE  InsertedOnce'
<1>0. at \in [Inits -> {"idle", "enter", "select", "insert", "leave", "duplicate", "abort",
                        "done", "failed"}] /\ world' = world
  BY WorldKept DEF TypeOK
<1>1. ASSUME UNCHANGED at PROVE InsertedOnce'
  BY <1>0, <1>1 DEF InsertedOnce
<1>2. ASSUME NEW i \in Inits, NEW label, Goto(i, label), label # "duplicate" \/ world.lapses
      PROVE  InsertedOnce'
  BY <1>0, <1>2 DEF Goto, InsertedOnce
<1>3. ASSUME NEW i \in Inits, Call(i) \/ Lapse(i) \/ Initialise(i) PROVE InsertedOnce'
  <2>1. CASE Call(i) \/ Enter(i) \/ Select(i)
    <3>1. \E label \in {"enter", "select", "leave", "insert"} : Goto(i, label)
      BY <2>1 DEF Call, Enter, Select
    <3> QED
      BY <1>2, <3>1
  <2>2. CASE Lapse(i)
    BY <1>1, <2>2 DEF Lapse
  <2>3. CASE InsertType(i)
    <3>1. known => world.lapses
      BY <2>3 DEF InsertType, Alone
    <3> QED
      BY <1>2, <2>3, <3>1 DEF InsertType
  <2>4. CASE InsertRun(i)
    <3>1. Exists(i[1]) => world.lapses
      BY <2>4 DEF InsertRun, Alone
    <3> QED
      BY <1>2, <2>4, <3>1 DEF InsertRun
  <2>5. CASE LeaveLock(i)
    <3>1. \E label \in {"enter", "done", "failed"} : Goto(i, label)
      BY <2>5 DEF LeaveLock
    <3> QED
      BY <1>2, <3>1
  <2> QED
    BY <1>3, <2>1, <2>2, <2>3, <2>4, <2>5 DEF Initialise
<1>4. ASSUME NEW r \in Runs, Stop(r) \/ Transition(r) PROVE InsertedOnce'
  BY <1>1, <1>4 DEF creation, Stop, Transition, Start, ReadState, WriteState
<1>5. ASSUME NEW k \in Sessions, Begin(k) \/ Proceed(k) \/ Rollback(k) PROVE InsertedOnce'
  <2>1. UNCHANGED at
    BY <1>5 DEF creation, Begin, CancelRequested, Stonith, DeleteOldTaskRuns, Open, Proceed,
       SkipTerminal, CancelRow, LoadChildren, DeleteRow, Commit, Rollback, Close
  <2> QED
    BY <1>1, <2>1
<1>6. ASSUME UNCHANGED vars PROVE InsertedOnce'
  BY <1>1, <1>6 DEF vars, creation
<1> QED
  BY <1>3, <1>4, <1>5, <1>6 DEF Next

Inv ==
  /\ TypeOK /\ Locked /\ Guarded /\ Alone /\ Registered /\ InsertedOnce /\ Below
  /\ \A k \in Sessions : Cascading(k) /\ DeletedBelow(k) /\ Ascending(k)
  /\ NoOrphan

LEMMA InvInit ==
  ASSUME RowsAssumption, Init
  PROVE  Inv
<1>1. world \in World /\ RootedIn(world)
  BY DEF RowsAssumption, Init
<1>2. /\ world.parent \in [Runs -> Runs \cup {Null}]
      /\ world.running \cup world.over \subseteq Runs
  BY <1>1 DEF World
<1>3. \A r \in Runs : /\ NewRow(r) = [state |-> "CREATED", parent |-> world.parent[r]]
                      /\ world.parent[r] \in Runs \cup {Null}
  BY <1>2 DEF NewRow
<1>4. /\ row \in [Runs -> Row \cup {Null}]
      /\ \A r \in Runs : Exists(r) <=> r \in world.running \cup world.over
      /\ \A r \in Runs : Exists(r) => row[r].parent = world.parent[r]
  <2>1. ASSUME NEW r \in Runs, NEW s \in {"RUNNING", "DONE"}
        PROVE  /\ [NewRow(r) EXCEPT !.state = s] \in Row
               /\ [NewRow(r) EXCEPT !.state = s].parent = world.parent[r]
    BY <1>3 DEF Row, States
  <2>2. Null \notin Row
    BY DEF RowsAssumption
  <2>3. ASSUME NEW r \in Runs
        PROVE  /\ row[r] \in Row \cup {Null}
               /\ row[r] # Null <=> r \in world.running \cup world.over
               /\ row[r] # Null => row[r].parent = world.parent[r]
    BY <2>1, <2>2 DEF Init
  <2>4. row \in [Runs -> Row \cup {Null}]
    BY <2>3 DEF Init
  <2> QED
    BY <2>3, <2>4 DEF Exists
<1>5. TypeOK
  <2>1. \A k \in Sessions : <<>> \in Seq({"visit", "load", "delete"} \X Runs)
    OBVIOUS
  <2> QED
    BY <1>4, <2>1 DEF Init, TypeOK
<1>6. Locked
  BY DEF Init, Locked, Apart, Held, OfItsKind, DueListed
<1>7. Guarded /\ Alone /\ Registered /\ InsertedOnce
  BY DEF Init, Guarded, Alone, Registered, InsertedOnce, Busy
<1>8. Below
  BY <1>4 DEF Below
<1>9. \A k \in Sessions : Cascading(k) /\ DeletedBelow(k) /\ Ascending(k)
  BY DEF Init, Cascading, DeletedBelow, Ascending
<1>10. NoOrphan
  BY <1>1, <1>3, <1>4 DEF RootedIn, NoOrphan, Orphan
<1> QED
  BY <1>5, <1>6, <1>7, <1>8, <1>9, <1>10 DEF Inv

LEMMA InvNext ==
  ASSUME RowsAssumption, Inv, [Next]_vars
  PROVE  Inv'
<1>1. /\ TypeOK /\ Locked /\ Guarded /\ Alone /\ Registered /\ InsertedOnce /\ Below
      /\ NoOrphan
  BY DEF Inv
<1>2. \A k \in Sessions : Cascading(k) /\ DeletedBelow(k) /\ Ascending(k)
  BY DEF Inv
<1>3. TypeOK' /\ Locked' /\ Guarded' /\ Alone' /\ Registered' /\ InsertedOnce' /\ Below'
  BY <1>1, TypeNext, LockedNext, CreationNext, InsertedOnceNext, BelowNext
<1>4. ASSUME NEW k \in Sessions
      PROVE  \/ Same(k)
             \/ OthersKept(k) /\ (Begin(k) \/ Proceed(k) \/ Rollback(k))
  <2>1. CASE UNCHANGED session
    BY <2>1 DEF session, Same
  <2>2. ASSUME NEW j \in Sessions, OthersKept(j), j # k PROVE Same(k)
    BY <2>2 DEF OthersKept, Same
  <2> QED
    BY <1>1, <2>1, <2>2, SessionSteps
<1>5. ASSUME NEW k \in Sessions PROVE (Cascading(k) /\ DeletedBelow(k) /\ Ascending(k))'
  <2>1. CASE Same(k)
    BY <1>1, <1>2, <2>1, CascadingKept, DeletionKept
  <2>2. CASE OthersKept(k) /\ (Begin(k) \/ Proceed(k) \/ Rollback(k))
    BY <1>1, <1>2, <2>2, CascadingNext, DeletionNext
  <2> QED
    BY <1>4, <2>1, <2>2
<1>6. NoOrphan'
  BY <1>1, <1>2, NoOrphanNext
<1> QED
  BY <1>3, <1>5, <1>6 DEF Inv

LEMMA InvAlways == Spec => []Inv
<1>1. Init => Inv
  BY InvInit, RowsAssumption
<1>2. Inv /\ [Next]_vars => Inv'
  BY InvNext, RowsAssumption
<1> QED
  BY <1>1, <1>2, PTL DEF Spec

-----------------------------------------------------------------------------
(* What follows.                                                           *)

\* However many runs, initialisers and transactions there are: rows stay rows of runs below
\* runs, and an agenda is of what is to be visited, loaded or deleted.
THEOREM TypeCorrect == Spec => []TypeOK
<1>1. Inv => TypeOK
  BY DEF Inv
<1> QED
  BY <1>1, InvAlways, PTL

\* register_task_type and register_task_run insert a row once, by whatever number of initialisers
\* that look for it and insert it in two transactions: as long as no lease of the semaphores
\* around them runs out, none of them meets a unique constraint.
THEOREM InsertedOnceCorrect == Spec => []InsertedOnce
<1>1. Inv => InsertedOnce
  BY DEF Inv
<1> QED
  BY <1>1, InvAlways, PTL

\* A run whose initialize_task_run_state has returned has its row, be it that a deletion has
\* taken it since: even when leases run out, and whoever has inserted it.
THEOREM RowBeforeRunCorrect == Spec => []RowBeforeRun
<1>1. Inv => RowBeforeRun
  BY DEF Inv, Registered, RowBeforeRun
<1> QED
  BY <1>1, InvAlways, PTL

\* When a cascade of cancel_task_run, of a hook or of stonith has come to its end, in a forest of
\* any depth and from any rows in any order, there is nothing below a row it cancels that it does
\* not cancel, has not seen to be over and that was not inserted after it had looked.
THEOREM CascadeWholeCorrect == Spec => []CascadeWhole
<1>1. ASSUME NEW k \in Sessions, NEW r, agenda[k] = <<>> PROVE ~OnAgenda(k, r)
  BY <1>1 DEF OnAgenda
<1>2. Inv => CascadeWhole
  <2> SUFFICES ASSUME Inv, NEW k \in Sessions, op[k] = "cancel", agenda[k] = <<>>,
                      NEW r \in changed[k], NEW c \in Children(r)
               PROVE  c \in changed[k] \cup late \/ seen[k][c] \in Terminal
    BY DEF CascadeWhole
  <2>1. Cascading(k)
    BY DEF Inv
  <2> QED
    BY <1>1, <2>1 DEF Cascading
<1> QED
  BY <1>2, InvAlways, PTL

\* delete_old_task_runs leaves no row whose parent is gone, whatever other transactions cancel,
\* delete or insert meanwhile: none at all where the database enforces the foreign key, and
\* elsewhere only rows inserted after the deletion had loaded their parent's children.
THEOREM NoOrphanCorrect == Spec => []NoOrphan
<1>1. Inv => NoOrphan
  BY DEF Inv
<1> QED
  BY <1>1, InvAlways, PTL

=============================================================================
