--------------------------- MODULE RawQueueProofs ---------------------------
(***************************************************************************)
(* Proofs about RawQueue, for every set of workers, tasks, files and texts *)
(* and every bound.                                                        *)
(***************************************************************************)
EXTENDS RawQueue, FiniteSetTheorems, TLAPS

(***************************************************************************)
(* Type correctness.  TypeOK is not inductive by itself: an update writes  *)
(* the row its lookup found and a batch the rows it selected, so the row   *)
(* numbers actors remember must be those of rows that exist.               *)
(***************************************************************************)
Located ==
    /\ \A r \in requeue : raw[r] # NoRow
    /\ \A a \in Actors :
          /\ pc[a] = "update" => /\ loaded[a].row \in RowIds
                                 /\ raw[loaded[a].row] # NoRow
                                 /\ loaded[a].content \in Contents
          /\ pc[a] = "insert" => loaded[a].file \in Files /\ loaded[a].content \in Contents
          /\ \A r \in RowIds : batch[a][r] # None => raw[r] # NoRow

TypeInv == TypeOK /\ Located

\* The absence of a row is different from every row.
LEMMA NoRowIsNotARow == NoRow \notin RawSkill
BY NoneAssumption DEF NoRow, RawSkill

\* An actor without a batch remembers no columns.
LEMMA NothingSeen == NoSeen \in [RowIds -> [data: Data, error: Errors]]
BY DEF NoSeen, NoData, Crawled, Data, Metas, Errors

\* The columns of a row after a verdict.
LEMMA DecidedFields ==
    ASSUME NEW row \in RawSkill, NEW read \in [data: Data, error: Errors],
           NEW differing, NEW c \in Contents, NEW v \in Verdicts
    PROVE  LET after == Decided(row, read, differing, c, v) IN
           /\ after \in RawSkill
           /\ after.file = row.file /\ after.content = row.content
           /\ after.status = StatusOf(v) /\ after.decided = c
           /\ after.data = DataAfter(row.data, read.data, differing, v)
           /\ after.error = ErrorAfter(row.error, read.error, differing, v)
<1> DEFINE data == DataAfter(row.data, read.data, differing, v)
           error == ErrorAfter(row.error, read.error, differing, v)
<1>1. StatusOf(v) \in Statuses
  BY DEF StatusOf, Statuses
<1>2. DataOf(read.data, v) \in Data
  BY DEF DataOf, Data, NoData, Crawled, Metas
<1>3. data \in Data
  BY <1>2 DEF DataAfter, Written, RawSkill
<1>4. ErrorOf(v) \in Errors
  BY DEF ErrorOf, Errors
<1>5. error \in Errors
  BY <1>4 DEF ErrorAfter, Written, RawSkill
<1>6. Decided(row, read, differing, c, v) =
        [row EXCEPT !.status = StatusOf(v), !.decided = c, !.data = data, !.error = error]
  BY DEF Decided
<1> HIDE DEF data, error
<1>7. LET after == [row EXCEPT !.status = StatusOf(v), !.decided = c, !.data = data,
                              !.error = error]
      IN  /\ after \in RawSkill
          /\ after.file = row.file /\ after.content = row.content
          /\ after.status = StatusOf(v) /\ after.decided = c
          /\ after.data = data /\ after.error = error
  BY <1>1, <1>3, <1>5 DEF RawSkill
<1> QED BY <1>6, <1>7 DEF data, error

\* The initial states are typed.
LEMMA TypeInit == Init => TypeInv
<1> SUFFICES ASSUME Init PROVE TypeInv
    OBVIOUS
<1>1. TypeOK
  BY DEF Init, TypeOK, NoLoad, NoBatch, NoSeen, NoData, Crawled, Data, Errors, Metas, Steps,
         Statuses
<1>2. Located
  BY DEF Init, Located, NoBatch
<1> QED BY <1>1, <1>2 DEF TypeInv

\* Every action keeps the types and the row numbers actors remember.
LEMMA TypeStep == TypeInv /\ [Next]_vars => TypeInv'
<1> SUFFICES ASSUME TypeInv, [Next]_vars PROVE TypeInv'
    OBVIOUS
<1> USE DEF TypeInv
<1>1. CASE UNCHANGED vars
  BY <1>1 DEF TypeOK, Located, vars, table, control, memory, bounds
<1>2. ASSUME NEW f \in Files, Edit(f) PROVE TypeInv'
  <2>1. remote' \in [Files -> Contents \cup {None}]
    BY <1>2 DEF Edit, TypeOK
  <2>2. edits' \in Nat
    BY <1>2 DEF Edit, TypeOK
  <2>3. TypeOK'
    BY <1>2, <2>1, <2>2 DEF Edit, TypeOK, control, memory
  <2>4. Located'
    BY <1>2 DEF Edit, Located, control, memory
  <2> QED BY <2>3, <2>4
<1>3. ASSUME ToggleAutoIngest PROVE TypeInv'
  <2>1. TypeOK'
    BY <1>3 DEF ToggleAutoIngest, TypeOK, table, memory
  <2>2. Located'
    BY <1>3 DEF ToggleAutoIngest, Located, table, memory
  <2> QED BY <2>1, <2>2
<1>4. ASSUME ReparseSelect PROVE TypeInv'
  <2>1. requeue' \subseteq RowIds /\ (\A r \in requeue' : raw[r] # NoRow)
    BY <1>4 DEF ReparseSelect, Rows
  <2>2. TypeOK'
    BY <1>4, <2>1 DEF ReparseSelect, TypeOK, table, memory
  <2>3. Located'
    BY <1>4, <2>1 DEF ReparseSelect, Located, table, memory
  <2> QED BY <2>2, <2>3
<1>5. ASSUME ReparseUpdate PROVE TypeInv'
  <2>1. \A r \in RowIds : /\ raw[r] = NoRow => raw'[r] = NoRow
                          /\ raw[r] # NoRow => raw'[r] \in RawSkill
    <3> SUFFICES ASSUME NEW r \in RowIds
                 PROVE  /\ raw[r] = NoRow => raw'[r] = NoRow
                        /\ raw[r] # NoRow => raw'[r] \in RawSkill
        OBVIOUS
    <3>1. CASE r \notin requeue
      BY <1>5, <3>1 DEF ReparseUpdate, TypeOK
    <3>2. CASE r \in requeue
      <4>1. raw[r] # NoRow /\ raw[r] \in RawSkill
        BY <3>2 DEF Located, TypeOK
      <4>2. raw'[r] = [raw[r] EXCEPT !.status = "pending", !.error = None]
        BY <1>5, <3>2 DEF ReparseUpdate
      <4> QED BY <4>1, <4>2 DEF RawSkill, Statuses, Errors
    <3> QED BY <3>1, <3>2
  <2>2. raw' \in [RowIds -> RawSkill \cup {NoRow}]
    BY <1>5, <2>1 DEF ReparseUpdate
  <2>3. TypeOK'
    BY <1>5, <2>2 DEF ReparseUpdate, TypeOK, memory, bounds
  <2>4. Located'
    BY <1>5, <2>1, NoRowIsNotARow DEF ReparseUpdate, Located, TypeOK, memory
  <2> QED BY <2>3, <2>4
<1>6. ASSUME NEW a \in Actors, StartRun(a) PROVE TypeInv'
  <2>1. Published \subseteq Files \X Contents
    BY DEF Published, TypeOK
  <2>2. results' \in [Actors -> SUBSET (Files \X Contents)] /\ failures' \in Nat
    BY <1>6, <2>1 DEF StartRun, TypeOK
  <2>3. TypeOK'
    BY <1>6, <2>2 DEF StartRun, TypeOK, Steps, table, control
  <2>4. Located'
    BY <1>6 DEF StartRun, Located, TypeOK, table, control
  <2> QED BY <2>3, <2>4
<1>7. ASSUME NEW a \in Actors, LookUpSame(a) PROVE TypeInv'
  <2>1. TypeOK'
    BY <1>7 DEF LookUpSame, TypeOK, table, control, bounds
  <2>2. Located'
    BY <1>7 DEF LookUpSame, Located, table, control
  <2> QED BY <2>1, <2>2
<1>8. ASSUME NEW a \in Actors, LookUpChanged(a) PROVE TypeInv'
  <2>1. PICK f \in Files, c \in Contents, r \in RowIds :
           /\ RowsOf(f) = {r}
           /\ results' = [results EXCEPT ![a] = @ \ {<<f, c>>}]
           /\ loaded' = [loaded EXCEPT ![a] =
                  [file |-> f, content |-> c, row |-> r, status |-> raw[r].status,
                   data |-> raw[r].data]]
    BY <1>8 DEF LookUpChanged
  <2>2. raw[r] # NoRow
    BY <2>1 DEF RowsOf, Rows
  <2>3. raw[r].status \in Statuses /\ raw[r].data \in Data
    BY <2>2 DEF TypeOK, RawSkill
  <2>4. TypeOK'
    BY <1>8, <2>1, <2>3 DEF LookUpChanged, TypeOK, Steps, table, control, bounds
  <2>5. Located'
    BY <1>8, <2>1, <2>2 DEF LookUpChanged, Located, TypeOK, table, control
  <2> QED BY <2>4, <2>5
<1>9. ASSUME NEW a \in Actors, LookUpAbsent(a) PROVE TypeInv'
  <2>1. PICK f \in Files, c \in Contents :
           /\ results' = [results EXCEPT ![a] = @ \ {<<f, c>>}]
           /\ loaded' = [loaded EXCEPT ![a] =
                  [NoLoad EXCEPT !.file = f, !.content = c]]
    BY <1>9 DEF LookUpAbsent
  <2>2. TypeOK'
    BY <1>9, <2>1 DEF LookUpAbsent, TypeOK, Steps, Statuses, NoLoad, NoData, Crawled, Data,
                      Metas, table, control, bounds
  <2>3. Located'
    BY <1>9, <2>1 DEF LookUpAbsent, Located, TypeOK, NoLoad, table, control
  <2> QED BY <2>2, <2>3
<1>10. ASSUME NEW a \in Actors, LookUpRaises(a) PROVE TypeInv'
  <2>1. TypeOK'
    BY <1>10 DEF LookUpRaises, TypeOK, Steps, table, control, bounds
  <2>2. Located'
    BY <1>10 DEF LookUpRaises, Located, TypeOK, table, control
  <2> QED BY <2>1, <2>2
<1>11. ASSUME NEW a \in Actors, InsertRow(a) PROVE TypeInv'
  <2> DEFINE new == [file |-> loaded[a].file, content |-> loaded[a].content,
                     status |-> "pending", decided |-> None,
                     data |-> Crawled(loaded[a].content), error |-> None]
  <2>1. PICK r \in RowIds : raw' = [raw EXCEPT ![r] = new]
    BY <1>11 DEF InsertRow
  <2>2. new \in RawSkill
    BY <1>11 DEF InsertRow, Located, RawSkill, Statuses, Crawled, Data, Metas, Errors
  <2>3. new # NoRow
    BY <2>2, NoRowIsNotARow
  <2>4. TypeOK'
    BY <1>11, <2>1, <2>2 DEF InsertRow, TypeOK, Steps, Statuses, NoLoad, NoData, Crawled, Data,
                             Metas, control, bounds
  <2>5. Located'
    BY <1>11, <2>1, <2>3 DEF InsertRow, Located, TypeOK, control
  <2> QED BY <2>4, <2>5
<1>12. ASSUME NEW a \in Actors, UpdateRow(a) PROVE TypeInv'
  <2> DEFINE r == loaded[a].row
  <2>1. /\ r \in RowIds /\ raw[r] \in RawSkill /\ loaded[a].content \in Contents
    BY <1>12 DEF UpdateRow, Located, TypeOK
  <2>2. PICK s \in Statuses, d \in Data :
           raw' = [raw EXCEPT ![r] = [@ EXCEPT !.content = loaded[a].content, !.status = s,
                                              !.data = d]]
    <3>1. Written(raw[r].status, loaded[a].status, "pending") \in Statuses
      BY <2>1 DEF Written, RawSkill, Statuses
    <3>2. Crawled(loaded[a].content) \in Data
      BY <2>1 DEF Crawled, Data, Metas
    <3>3. Written(raw[r].data, loaded[a].data, Crawled(loaded[a].content)) \in Data
      BY <2>1, <3>2 DEF Written, RawSkill
    <3> QED BY <1>12, <3>1, <3>3 DEF UpdateRow, TypeOK
  <2>3. raw'[r] \in RawSkill /\ raw'[r] # NoRow /\ \A q \in RowIds \ {r} : raw'[q] = raw[q]
    BY <2>1, <2>2, NoRowIsNotARow DEF RawSkill, TypeOK
  <2>4. raw' \in [RowIds -> RawSkill \cup {NoRow}]
    BY <2>2, <2>3 DEF TypeOK
  <2>5. TypeOK'
    BY <1>12, <2>4 DEF UpdateRow, TypeOK, Steps, Statuses, NoLoad, NoData, Crawled, Data, Metas,
                       control, bounds
  <2>6. \A q \in RowIds : raw[q] # NoRow => raw'[q] # NoRow
    BY <2>3
  <2>7. Located'
    BY <1>12, <2>6 DEF UpdateRow, Located, TypeOK, control
  <2> QED BY <2>5, <2>7
<1>13. ASSUME NEW a \in Actors, FinishIngest(a) PROVE TypeInv'
  <2>1. TypeOK'
    BY <1>13 DEF FinishIngest, TypeOK, Steps, table, control, memory, bounds
  <2>2. Located'
    BY <1>13 DEF FinishIngest, Located, TypeOK, table, control, memory
  <2> QED BY <2>1, <2>2
<1>14. ASSUME NEW a \in Actors, StartDrain(a) PROVE TypeInv'
  <2>1. TypeOK'
    BY <1>14 DEF StartDrain, TypeOK, Steps, table, control, bounds
  <2>2. Located'
    BY <1>14 DEF StartDrain, Located, TypeOK, table, control
  <2> QED BY <2>1, <2>2
<1>15. ASSUME NEW a \in Actors, SelectBatch(a) PROVE TypeInv'
  <2>1. \A r \in OldestPending : raw[r] \in RawSkill
    BY DEF OldestPending, Pending, Rows, TypeOK
  <2>2. batch' \in [Actors -> [RowIds -> Contents \cup {None}]]
    BY <1>15, <2>1 DEF SelectBatch, TypeOK, RawSkill
  <2>3. Cardinality(Pending) \in Nat
    <3>1. IsFiniteSet(RowIds) /\ Pending \subseteq RowIds
      BY FS_Interval, BoundsAssumption DEF RowIds, Pending, Rows
    <3> QED BY <3>1, FS_Subset, FS_CardinalityType
  <2>6. seen' \in [Actors -> [RowIds -> [data: Data, error: Errors]]]
    <3>1. \A r \in OldestPending : raw[r].data \in Data /\ raw[r].error \in Errors
      BY <2>1 DEF RawSkill
    <3>2. \A r \in RowIds : NoSeen[r] \in [data: Data, error: Errors]
      BY DEF NoSeen, NoData, Crawled, Data, Metas, Errors
    <3> QED BY <1>15, <3>1, <3>2 DEF SelectBatch, TypeOK
  <2>4. TypeOK'
    BY <1>15, <2>2, <2>3, <2>6 DEF SelectBatch, TypeOK, Steps, table, control, bounds
  <2>5. Located'
    BY <1>15, <2>1, NoRowIsNotARow DEF SelectBatch, Located, TypeOK, table, control
  <2> QED BY <2>4, <2>5
<1>16. ASSUME NEW a \in Actors, CommitBatch(a) PROVE TypeInv'
  <2>1. PICK verdict \in [Batched(a) -> Verdicts],
            differing \in [Batched(a) -> SUBSET {"data", "error"}] :
           raw' = [r \in RowIds |->
               IF r \in Batched(a)
               THEN Decided(raw[r], seen[a][r], differing[r], batch[a][r], verdict[r])
               ELSE raw[r]]
    BY <1>16 DEF CommitBatch
  <2>2. \A r \in Batched(a) : /\ raw[r] \in RawSkill /\ batch[a][r] \in Contents
                              /\ verdict[r] \in Verdicts
                              /\ seen[a][r] \in [data: Data, error: Errors]
    BY <2>1 DEF Batched, Located, TypeOK
  <2>3. \A r \in Batched(a) : raw'[r] \in RawSkill
    BY <2>1, <2>2, DecidedFields DEF Batched
  <2>4. raw' \in [RowIds -> RawSkill \cup {NoRow}]
    BY <2>1, <2>3 DEF TypeOK
  <2>5. TypeOK'
    BY <1>16, <2>4, NothingSeen DEF CommitBatch, TypeOK, Steps, NoBatch, control, bounds
  <2>6. \A r \in RowIds : raw[r] # NoRow => raw'[r] # NoRow
    BY <2>1, <2>3, NoRowIsNotARow
  <2>7. Located'
    BY <1>16, <2>6 DEF CommitBatch, Located, TypeOK, NoBatch, control
  <2> QED BY <2>5, <2>7
<1>17. ASSUME NEW a \in Actors, CheckDrained(a) PROVE TypeInv'
  <2>1. TypeOK'
    BY <1>17 DEF CheckDrained, TypeOK, Steps, Drained, table, control, bounds
  <2>2. Located'
    BY <1>17 DEF CheckDrained, Located, TypeOK, table, control
  <2> QED BY <2>1, <2>2
<1>18. ASSUME NEW a \in Actors, Fail(a) PROVE TypeInv'
  <2>1. TypeOK'
    BY <1>18, NothingSeen DEF Fail, TypeOK, Steps, Statuses, NoLoad, NoBatch, NoData, Crawled,
                              Data, Metas, table, control
  <2>2. Located'
    BY <1>18 DEF Fail, Located, TypeOK, NoBatch, table, control
  <2> QED BY <2>1, <2>2
<1> QED
  BY <1>1, <1>2, <1>3, <1>4, <1>5, <1>6, <1>7, <1>8, <1>9, <1>10, <1>11, <1>12,
     <1>13, <1>14, <1>15, <1>16, <1>17, <1>18
  DEF Next, Start, Progress

\* The table and the memory of every actor keep their types, whoever overlaps.
THEOREM TypeCorrect == Spec => []TypeInv
BY TypeInit, TypeStep, PTL DEF Spec

(***************************************************************************)
(* Verdicts.  Only four actions write the table.                           *)
(***************************************************************************)
LEMMA TableWriters ==
    ASSUME [Next]_vars
    PROVE  \/ UNCHANGED raw
           \/ ReparseUpdate
           \/ \E a \in Actors : InsertRow(a) \/ UpdateRow(a) \/ CommitBatch(a)
<1>1. CASE UNCHANGED vars
  BY <1>1 DEF vars, table
<1>2. CASE Next
  BY <1>2 DEF Next, Start, Progress, Edit, ToggleAutoIngest, ReparseSelect, StartRun,
              LookUpSame, LookUpChanged, LookUpAbsent, LookUpRaises, FinishIngest,
              StartDrain, SelectBatch, CheckDrained, Fail, table
<1> QED BY <1>1, <1>2

\* What each writer does to one row.
LEMMA RequeuedRow ==
    ASSUME TypeInv, ReparseUpdate, NEW r \in RowIds, raw[r] # NoRow
    PROVE  \/ raw'[r] = raw[r]
           \/ raw'[r] = [raw[r] EXCEPT !.status = "pending", !.error = None]
BY DEF ReparseUpdate

\* What the UPDATE of upsert_raw_skill does to each row.
LEMMA UpdatedRow ==
    ASSUME TypeInv, NEW a \in Actors, UpdateRow(a), NEW r \in RowIds
    PROVE  \/ r # loaded[a].row /\ raw'[r] = raw[r]
           \/ /\ r = loaded[a].row /\ raw[r] \in RawSkill /\ raw'[r] \in RawSkill
              /\ raw'[r].file = raw[r].file /\ raw'[r].content = loaded[a].content
              /\ raw'[r].decided = raw[r].decided /\ raw'[r].error = raw[r].error
              /\ \/ raw'[r].status = "pending"
                 \/ loaded[a].status = "pending" /\ raw'[r].status = raw[r].status
              /\ \/ raw'[r].data = Crawled(loaded[a].content)
                 \/ /\ loaded[a].data = Crawled(loaded[a].content)
                    /\ raw'[r].data = raw[r].data
<1> DEFINE row == loaded[a].row
           s == Written(raw[row].status, loaded[a].status, "pending")
           d == Written(raw[row].data, loaded[a].data, Crawled(loaded[a].content))
<1>1. row \in RowIds /\ raw[row] \in RawSkill /\ loaded[a].content \in Contents
  BY DEF UpdateRow, TypeInv, Located, TypeOK
<1>2. raw'[row] = [raw[row] EXCEPT !.content = loaded[a].content, !.status = s, !.data = d]
  BY <1>1 DEF UpdateRow, TypeInv, TypeOK
<1>3. s \in Statuses /\ d \in Data
  BY <1>1 DEF Written, RawSkill, Statuses, Crawled, Data, Metas
<1>4. /\ s = "pending" \/ (loaded[a].status = "pending" /\ s = raw[row].status)
      /\ \/ d = Crawled(loaded[a].content)
         \/ loaded[a].data = Crawled(loaded[a].content) /\ d = raw[row].data
  BY DEF Written
<1> HIDE DEF s, d
<1>5. /\ raw'[row] \in RawSkill
      /\ raw'[row].file = raw[row].file /\ raw'[row].content = loaded[a].content
      /\ raw'[row].decided = raw[row].decided /\ raw'[row].error = raw[row].error
      /\ raw'[row].status = s /\ raw'[row].data = d
  BY <1>1, <1>2, <1>3 DEF RawSkill
<1>6. r # row => raw'[r] = raw[r]
  BY <1>1 DEF UpdateRow, TypeInv, TypeOK
<1> QED BY <1>1, <1>4, <1>5, <1>6

\* What the commit of a parse batch does to each row.
LEMMA CommittedRow ==
    ASSUME TypeInv, NEW a \in Actors, CommitBatch(a), NEW r \in RowIds
    PROVE  \/ batch[a][r] = None /\ raw'[r] = raw[r]
           \/ /\ batch[a][r] \in Contents /\ raw[r] \in RawSkill /\ raw'[r] \in RawSkill
              /\ raw'[r].file = raw[r].file /\ raw'[r].content = raw[r].content
              /\ raw'[r].decided = batch[a][r]
              /\ \E v \in GateVerdicts[<<batch[a][r], seen[a][r].data.meta>>],
                    differing \in SUBSET {"data", "error"} :
                     /\ raw'[r].status = StatusOf(v)
                     /\ raw'[r].data = DataAfter(raw[r].data, seen[a][r].data, differing, v)
                     /\ raw'[r].error = ErrorAfter(raw[r].error, seen[a][r].error, differing, v)
<1>1. PICK verdict \in [Batched(a) -> Verdicts],
          differing \in [Batched(a) -> SUBSET {"data", "error"}] :
        /\ \A q \in Batched(a) :
              verdict[q] \in GateVerdicts[<<batch[a][q], seen[a][q].data.meta>>]
        /\ raw' = [q \in RowIds |->
              IF q \in Batched(a)
              THEN Decided(raw[q], seen[a][q], differing[q], batch[a][q], verdict[q])
              ELSE raw[q]]
  BY DEF CommitBatch
<1>2. CASE r \in Batched(a)
  <2>1. /\ batch[a][r] \in Contents /\ raw[r] \in RawSkill
        /\ seen[a][r] \in [data: Data, error: Errors]
    BY <1>2 DEF Batched, TypeInv, Located, TypeOK
  <2>2. PICK v \in Verdicts, d \in SUBSET {"data", "error"} : v = verdict[r] /\ d = differing[r]
    BY <1>2
  <2>3. raw'[r] = Decided(raw[r], seen[a][r], d, batch[a][r], v)
    BY <1>1, <1>2, <2>2
  <2>4. v \in GateVerdicts[<<batch[a][r], seen[a][r].data.meta>>]
    BY <1>1, <1>2, <2>2
  <2> QED BY <2>1, <2>2, <2>3, <2>4, DecidedFields
<1>3. CASE r \notin Batched(a)
  BY <1>1, <1>3 DEF Batched
<1> QED BY <1>2, <1>3

\* A row that is no longer pending was decided on some text, whatever overlaps.
RowsDecided == \A r \in Rows : raw[r].status # "pending" => raw[r].decided # None

LEMMA DecisionStep == TypeInv /\ RowsDecided /\ [Next]_vars => RowsDecided'
<1> DEFINE Fine(row) == row.status # "pending" => row.decided # None
<1> SUFFICES ASSUME TypeInv, RowsDecided, [Next]_vars, NEW r \in RowIds, raw'[r] # NoRow
             PROVE  Fine(raw'[r])
    BY DEF RowsDecided, Rows
<1>1. Fine(raw[r])
  BY DEF RowsDecided, Rows, NoRow
<1>2. CASE UNCHANGED raw
  BY <1>1, <1>2
<1>3. CASE ReparseUpdate
  <2>1. raw[r] # NoRow /\ raw[r] \in RawSkill
    BY <1>3 DEF ReparseUpdate, TypeInv, Located, TypeOK
  <2> QED BY <1>1, <1>3, <2>1, RequeuedRow DEF RawSkill
<1>4. ASSUME NEW a \in Actors, InsertRow(a) PROVE Fine(raw'[r])
  <2>1. raw'[r] = raw[r] \/ raw'[r].status = "pending"
    BY <1>4 DEF InsertRow, TypeInv, TypeOK
  <2> QED BY <1>1, <2>1
<1>5. ASSUME NEW a \in Actors, UpdateRow(a) PROVE Fine(raw'[r])
  BY <1>1, <1>5, UpdatedRow
<1>6. ASSUME NEW a \in Actors, CommitBatch(a) PROVE Fine(raw'[r])
  <2>1. raw'[r] = raw[r] \/ (batch[a][r] \in Contents /\ raw'[r].decided = batch[a][r])
    BY <1>6, CommittedRow
  <2> QED BY <1>1, <2>1, NoneAssumption
<1> QED BY <1>2, <1>3, <1>4, <1>5, <1>6, TableWriters

LEMMA DecisionsHold == Spec => []RowsDecided
<1>1. Init => RowsDecided
  BY DEF Init, RowsDecided, Rows
<1> QED BY <1>1, DecisionStep, TypeCorrect, PTL DEF Spec

\* Every reachable state is typed.
THEOREM TypesHold == Spec => []TypeOK
BY TypeCorrect, PTL DEF TypeInv

(***************************************************************************)
(* A sole actor.  With one run at a time no verdict outlives its text: a   *)
(* batch is only held while parsing, the texts in it are those of the      *)
(* table, and a row its lookup found pending is pending when it is updated *)
(* (a re-queueing administrator can only make it so).                      *)
(***************************************************************************)
SoleActor == \A a, b \in Actors : a = b

SoleInv ==
    /\ ParsedIsCurrent
    /\ \A a \in Actors :
          /\ pc[a] # "parse" => batch[a] = NoBatch
          /\ \A r \in RowIds : batch[a][r] # None => raw[r].content = batch[a][r]
          /\ pc[a] = "update" /\ loaded[a].status = "pending"
                 => raw[loaded[a].row].status = "pending"

\* With one actor every action keeps its batch and its lookup those of the table.
LEMMA SoleStep ==
    ASSUME SoleActor PROVE TypeInv /\ SoleInv /\ [Next]_vars => SoleInv'
<1> SUFFICES ASSUME TypeInv, SoleInv, [Next]_vars PROVE SoleInv'
    OBVIOUS
<1> USE SoleActor DEF SoleActor, SoleInv
<1> DEFINE Current(row) == row.status # "pending" => row.decided = row.content
<1>1. /\ \A r \in RowIds : raw[r] # NoRow => Current(raw[r]) /\ raw[r] \in RawSkill
      /\ Current(NoRow)
  BY DEF ParsedIsCurrent, Rows, NoRow, TypeInv, TypeOK
<1>2. (\A r \in RowIds : Current(raw'[r])) => ParsedIsCurrent'
  BY DEF ParsedIsCurrent, Rows
<1>3. CASE UNCHANGED vars
  BY <1>3 DEF ParsedIsCurrent, Rows, vars, table, memory
<1>4. ASSUME NEW f \in Files, Edit(f) PROVE SoleInv'
  BY <1>4 DEF Edit, ParsedIsCurrent, Rows, memory
<1>5. ASSUME ToggleAutoIngest PROVE SoleInv'
  BY <1>5 DEF ToggleAutoIngest, ParsedIsCurrent, Rows, table, memory
<1>6. ASSUME ReparseSelect PROVE SoleInv'
  BY <1>6 DEF ReparseSelect, ParsedIsCurrent, Rows, table, memory
<1>7. ASSUME ReparseUpdate PROVE SoleInv'
  <2>1. \A r \in RowIds : \/ raw'[r] = raw[r]
                          \/ /\ raw'[r].status = "pending"
                             /\ raw'[r].content = raw[r].content
    <3> SUFFICES ASSUME NEW r \in requeue
                 PROVE  /\ raw'[r].status = "pending"
                        /\ raw'[r].content = raw[r].content
        BY <1>7 DEF ReparseUpdate
    <3>1. r \in RowIds /\ raw[r] \in RawSkill
      BY <1>1 DEF TypeInv, Located, TypeOK
    <3>2. raw'[r] = [raw[r] EXCEPT !.status = "pending", !.error = None]
      BY <1>7, <3>1 DEF ReparseUpdate
    <3> QED BY <3>1, <3>2 DEF RawSkill
  <2>2. ParsedIsCurrent'
    BY <1>1, <1>2, <2>1
  <2>3. \A a \in Actors : pc[a] = "update" => loaded[a].row \in RowIds
    BY DEF TypeInv, Located
  <2>4. UNCHANGED <<pc, loaded, batch>>
    BY <1>7 DEF ReparseUpdate, memory
  <2> QED BY <2>1, <2>2, <2>3, <2>4
<1>8. ASSUME NEW a \in Actors, StartRun(a) PROVE SoleInv'
  BY <1>8 DEF StartRun, ParsedIsCurrent, Rows, TypeInv, TypeOK, table
<1>9. ASSUME NEW a \in Actors, LookUpSame(a) PROVE SoleInv'
  BY <1>9 DEF LookUpSame, ParsedIsCurrent, Rows, table
<1>10. ASSUME NEW a \in Actors, LookUpChanged(a) PROVE SoleInv'
  <2>1. PICK f \in Files, c \in Contents, r \in RowIds :
           /\ <<f, c>> \in results[a]
           /\ RowsOf(f) = {r} /\ raw[r].content # c
           /\ results' = [results EXCEPT ![a] = @ \ {<<f, c>>}]
           /\ loaded' = [loaded EXCEPT ![a] =
                  [file |-> f, content |-> c, row |-> r, status |-> raw[r].status,
                   data |-> raw[r].data]]
    BY <1>10 DEF LookUpChanged
  <2>2. ParsedIsCurrent'
    BY <1>10 DEF LookUpChanged, ParsedIsCurrent, Rows, table
  <2> QED BY <1>10, <2>1, <2>2 DEF LookUpChanged, TypeInv, TypeOK, table
<1>11. ASSUME NEW a \in Actors, LookUpAbsent(a) PROVE SoleInv'
  BY <1>11 DEF LookUpAbsent, ParsedIsCurrent, Rows, TypeInv, TypeOK, table
<1>12. ASSUME NEW a \in Actors, LookUpRaises(a) PROVE SoleInv'
  BY <1>12 DEF LookUpRaises, ParsedIsCurrent, Rows, TypeInv, TypeOK, table
<1>13. ASSUME NEW a \in Actors, InsertRow(a) PROVE SoleInv'
  <2>1. \A r \in RowIds : raw'[r] = raw[r] \/ raw'[r].status = "pending"
    BY <1>13 DEF InsertRow, TypeInv, TypeOK
  <2>2. ParsedIsCurrent'
    BY <1>1, <1>2, <2>1
  <2>3. \A b \in Actors : batch'[b] = NoBatch /\ pc'[b] = "upsert"
    BY <1>13 DEF InsertRow, TypeInv, TypeOK
  <2> QED BY <2>2, <2>3 DEF NoBatch
<1>14. ASSUME NEW a \in Actors, UpdateRow(a) PROVE SoleInv'
  <2>1. \A r \in RowIds : Current(raw'[r])
    <3> SUFFICES ASSUME NEW r \in RowIds PROVE Current(raw'[r])
        OBVIOUS
    <3>1. CASE raw'[r] = raw[r]
      BY <1>1, <3>1
    <3>2. CASE raw'[r] # raw[r]
      <4>1. r = loaded[a].row
        BY <1>14, <3>2, UpdatedRow
      <4>2. \/ raw'[r].status = "pending"
            \/ loaded[a].status = "pending" /\ raw'[r].status = raw[r].status
        BY <1>14, <3>2, UpdatedRow
      <4> QED BY <1>14, <4>1, <4>2 DEF UpdateRow
    <3> QED BY <3>1, <3>2
  <2>2. \A b \in Actors : batch'[b] = NoBatch /\ pc'[b] = "upsert"
    BY <1>14 DEF UpdateRow, TypeInv, TypeOK
  <2> QED BY <1>2, <2>1, <2>2 DEF NoBatch
<1>15. ASSUME NEW a \in Actors, FinishIngest(a) PROVE SoleInv'
  BY <1>15 DEF FinishIngest, ParsedIsCurrent, Rows, TypeInv, TypeOK, table, memory
<1>16. ASSUME NEW a \in Actors, StartDrain(a) PROVE SoleInv'
  BY <1>16 DEF StartDrain, ParsedIsCurrent, Rows, TypeInv, TypeOK, table
<1>17. ASSUME NEW a \in Actors, SelectBatch(a) PROVE SoleInv'
  <2>1. ParsedIsCurrent'
    BY <1>17 DEF SelectBatch, ParsedIsCurrent, Rows, table
  <2>2. \A b \in Actors, r \in RowIds : batch'[b][r] # None => raw'[r].content = batch'[b][r]
    BY <1>17 DEF SelectBatch, TypeInv, TypeOK, table
  <2>3. \A b \in Actors : pc'[b] = "parse"
    BY <1>17 DEF SelectBatch, TypeInv, TypeOK
  <2> QED BY <2>1, <2>2, <2>3
<1>18. ASSUME NEW a \in Actors, CommitBatch(a) PROVE SoleInv'
  <2>1. \A r \in RowIds : Current(raw'[r])
    <3> SUFFICES ASSUME NEW r \in RowIds PROVE Current(raw'[r])
        OBVIOUS
    <3>1. CASE raw'[r] = raw[r]
      BY <1>1, <3>1
    <3>2. CASE raw'[r] # raw[r]
      <4>1. /\ batch[a][r] \in Contents
            /\ raw'[r].content = raw[r].content
            /\ raw'[r].decided = batch[a][r]
        <5> HIDE DEF SoleActor, SoleInv, Current
        <5> QED BY <1>18, <3>2, CommittedRow
      <4> QED BY <4>1, NoneAssumption
    <3> QED BY <3>1, <3>2
  <2>2. \A b \in Actors : batch'[b] = NoBatch /\ pc'[b] # "update"
    BY <1>18 DEF CommitBatch, TypeInv, TypeOK
  <2> QED BY <1>2, <2>1, <2>2 DEF NoBatch
<1>19. ASSUME NEW a \in Actors, CheckDrained(a) PROVE SoleInv'
  BY <1>19 DEF CheckDrained, ParsedIsCurrent, Rows, TypeInv, TypeOK, table
<1>20. ASSUME NEW a \in Actors, Fail(a) PROVE SoleInv'
  <2>1. ParsedIsCurrent'
    BY <1>20 DEF Fail, ParsedIsCurrent, Rows, table
  <2>2. \A b \in Actors : batch'[b] = NoBatch /\ pc'[b] = "idle"
    BY <1>20 DEF Fail, TypeInv, TypeOK
  <2> QED BY <2>1, <2>2 DEF NoBatch
<1> QED
  BY <1>3, <1>4, <1>5, <1>6, <1>7, <1>8, <1>9, <1>10, <1>11, <1>12, <1>13, <1>14,
     <1>15, <1>16, <1>17, <1>18, <1>19, <1>20
  DEF Next, Start, Progress

\* Where one run excludes every other, a row that is no longer pending was
\* decided on the text it holds, through crashes, edits and re-queueing.
THEOREM SoleActorIsCurrent == ASSUME SoleActor PROVE Spec => []ParsedIsCurrent
<1>1. Init => SoleInv
  BY DEF Init, SoleInv, ParsedIsCurrent, Rows, NoBatch
<1>2. SoleInv => ParsedIsCurrent
  BY DEF SoleInv
<1>3. TypeInv /\ SoleInv /\ [Next]_vars => SoleInv'
  BY SoleActor, SoleStep
<1> QED BY <1>1, <1>2, <1>3, TypeCorrect, PTL DEF Spec

(***************************************************************************)
(* The columns of a verdict.  With one run at a time parsed_data is what   *)
(* was loaded when it is written; parse_error may have been cleared by a   *)
(* re-queue, never set.  A reason one of the first three gates has left    *)
(* stays true, because the text and the metadata that gate has read stay   *)
(* together until a crawl replaces both.                                   *)
(***************************************************************************)
Meant(row) ==
    \E m \in Metas : \E v \in GateVerdicts[<<row.decided, m>>] :
        /\ row.status = StatusOf(v)
        /\ row.error \in {ErrorOf(v), None}
        /\ \/ row.data.reason = IF v \in Explained THEN v ELSE None
           \/ row.data.reason = "security_block" /\ StatusOf(v) = "error"

ReasonHolds(row) ==
    \/ row.data.reason \in {None, "security_block"}
    \/ row.data.reason \in GateVerdicts[<<row.content, row.data.meta>>] \cap Unsupported

Sound(row) == ReasonHolds(row) /\ (row.status # "pending" => Meant(row))

ColumnsInv ==
    /\ \A r \in Rows : Sound(raw[r])
    /\ \A a \in Actors :
          /\ pc[a] = "update" => raw[loaded[a].row].data = loaded[a].data
          /\ \A r \in RowIds : batch[a][r] # None =>
                /\ raw[r].data = seen[a][r].data
                /\ raw[r].error \in {seen[a][r].error, None}

\* What the crawl stores has no reason yet.
LEMMA CrawledHasNoReason == \A c : Crawled(c).reason = None
BY DEF Crawled

\* A verdict about the text and the metadata of a row leaves the row sound.
LEMMA VerdictIsMeant ==
    ASSUME NEW row \in RawSkill, NEW after \in RawSkill, ReasonHolds(row),
           NEW error, row.error \in {error, None}, NEW differing,
           NEW v \in GateVerdicts[<<row.content, row.data.meta>>],
           after.content = row.content, after.decided = row.content,
           after.status = StatusOf(v),
           after.data = DataAfter(row.data, row.data, differing, v),
           after.error = ErrorAfter(row.error, error, differing, v)
    PROVE  Sound(after)
<1> DEFINE p == <<row.content, row.data.meta>>
<1>1. row.content \in Contents /\ row.data \in Data /\ row.data.meta \in Metas
  BY DEF RawSkill, Data
<1>2. p \in Contents \X Metas
  BY <1>1
<1>3. v \in Verdicts /\ (\A u \in GateVerdicts[p] \cap Unsupported : GateVerdicts[p] = {u})
  BY <1>2, VerdictsAssumption
<1>4. after.data = DataOf(row.data, v)
  BY DEF DataAfter, Written
<1>5. after.error \in {ErrorOf(v), None}
  BY DEF ErrorAfter, Written
<1>6. v # None
  BY <1>3, NoneAssumption
<1>7. CASE v \in Explained
  <2>1. after.data.reason = v /\ after.data.meta = row.data.meta
    BY <1>1, <1>3, <1>4, <1>7 DEF DataOf, Data
  <2>2. ReasonHolds(after)
    BY <1>7, <2>1 DEF ReasonHolds, Explained
  <2>3. Meant(after)
    BY <1>1, <1>5, <1>7, <2>1 DEF Meant
  <2> QED BY <2>2, <2>3 DEF Sound
<1>8. CASE v = "published"
  <2>1. v \notin Explained
    BY <1>8 DEF Explained, Unsupported
  <2>2. after.data.reason = None
    BY <1>4, <1>8, <2>1 DEF DataOf, NoData, Crawled
  <2>3. Meant(after)
    BY <1>1, <1>5, <2>1, <2>2 DEF Meant
  <2> QED BY <2>2, <2>3 DEF Sound, ReasonHolds
<1>9. CASE v \notin Explained /\ v # "published"
  <2>1. after.data = row.data
    BY <1>4, <1>9 DEF DataOf
  <2>2. row.data.reason \in {None, "security_block"}
    <3>1. v \notin Unsupported
      BY <1>9 DEF Explained
    <3> QED BY <1>3, <3>1 DEF ReasonHolds
  <2>3. StatusOf(v) = "error"
    BY <1>3, <1>9 DEF Verdicts, StatusOf, Explained, Unsupported
  <2>4. Meant(after)
    BY <1>1, <1>5, <1>9, <2>1, <2>2, <2>3 DEF Meant
  <2> QED BY <2>1, <2>2, <2>4 DEF Sound, ReasonHolds
<1> QED BY <1>7, <1>8, <1>9

\* With one actor every action keeps the columns those of one verdict.
LEMMA ColumnsStep ==
    ASSUME SoleActor PROVE TypeInv /\ SoleInv /\ ColumnsInv /\ [Next]_vars => ColumnsInv'
<1> SUFFICES ASSUME TypeInv, SoleInv, ColumnsInv, [Next]_vars PROVE ColumnsInv'
    OBVIOUS
<1>1. \A r \in RowIds : raw[r] # NoRow => Sound(raw[r]) /\ raw[r] \in RawSkill
  BY DEF ColumnsInv, Rows, TypeInv, TypeOK
<1>2. ASSUME NEW a \in Actors, \A r \in RowIds : batch'[a][r] = None, pc'[a] # "update",
             \A r \in RowIds : raw'[r] # NoRow => Sound(raw'[r])
      PROVE  ColumnsInv'
  BY <1>2, SoleActor DEF ColumnsInv, SoleActor, Rows
<1>3. ASSUME UNCHANGED <<raw, pc, loaded, batch, seen>> PROVE ColumnsInv'
  BY <1>3 DEF ColumnsInv, Rows
<1>4. ASSUME ReparseUpdate PROVE ColumnsInv'
  <2>1. ASSUME NEW r \in RowIds
        PROVE  \/ raw'[r] = raw[r]
               \/ /\ raw[r] # NoRow /\ raw[r] \in RawSkill
                  /\ raw'[r].status = "pending" /\ raw'[r].error = None
                  /\ raw'[r].content = raw[r].content /\ raw'[r].data = raw[r].data
    <3>1. CASE r \notin requeue
      BY <1>4, <3>1 DEF ReparseUpdate
    <3>2. CASE r \in requeue
      <4>1. raw[r] # NoRow /\ raw[r] \in RawSkill
        BY <3>2 DEF TypeInv, Located, TypeOK
      <4>2. raw'[r] = [raw[r] EXCEPT !.status = "pending", !.error = None]
        BY <1>4, <3>2 DEF ReparseUpdate
      <4> QED BY <4>1, <4>2 DEF RawSkill
    <3> QED BY <3>1, <3>2
  <2>2. \A r \in RowIds : raw'[r] # NoRow => Sound(raw'[r])
    BY <1>1, <2>1 DEF Sound, ReasonHolds
  <2>3. \A a \in Actors : pc[a] = "update" => loaded[a].row \in RowIds
    BY DEF TypeInv, Located
  <2>4. UNCHANGED <<pc, loaded, batch, seen>>
    BY <1>4 DEF ReparseUpdate, memory
  <2>5. \A a \in Actors : pc[a] = "update" => raw'[loaded[a].row].data = loaded[a].data
    BY <2>1, <2>3 DEF ColumnsInv
  <2>6. \A a \in Actors, r \in RowIds : batch[a][r] # None =>
            raw'[r].data = seen[a][r].data /\ raw'[r].error \in {seen[a][r].error, None}
    BY <2>1 DEF ColumnsInv
  <2> QED BY <2>2, <2>4, <2>5, <2>6 DEF ColumnsInv, Rows
<1>5. ASSUME NEW a \in Actors, LookUpChanged(a) PROVE ColumnsInv'
  <2>1. PICK f \in Files, c \in Contents, r \in RowIds :
           loaded' = [loaded EXCEPT ![a] =
                  [file |-> f, content |-> c, row |-> r, status |-> raw[r].status,
                   data |-> raw[r].data]]
    BY <1>5 DEF LookUpChanged
  <2>2. loaded'[a].row = r /\ loaded'[a].data = raw[r].data
    BY <2>1 DEF TypeInv, TypeOK
  <2>3. UNCHANGED <<raw, batch, seen>>
    BY <1>5 DEF LookUpChanged, table
  <2> QED BY <2>2, <2>3, SoleActor DEF ColumnsInv, SoleActor, Rows
<1>6. ASSUME NEW a \in Actors, SelectBatch(a) PROVE ColumnsInv'
  <2>1. \A r \in RowIds : batch'[a][r] # None =>
            seen'[a][r] = [data |-> raw[r].data, error |-> raw[r].error]
    BY <1>6 DEF SelectBatch, TypeInv, TypeOK
  <2>2. \A r \in RowIds : batch'[a][r] # None =>
            raw[r].data = seen'[a][r].data /\ raw[r].error = seen'[a][r].error
    <3> SUFFICES ASSUME NEW r \in RowIds, batch'[a][r] # None
                 PROVE  raw[r].data = seen'[a][r].data /\ raw[r].error = seen'[a][r].error
        OBVIOUS
    <3>1. seen'[a][r] = [data |-> raw[r].data, error |-> raw[r].error]
      BY <2>1
    <3> QED BY <3>1
  <2>3. pc'[a] = "parse" /\ UNCHANGED raw
    BY <1>6 DEF SelectBatch, table, TypeInv, TypeOK
  <2> QED BY <2>2, <2>3, SoleActor DEF ColumnsInv, SoleActor, Rows
<1>7. ASSUME NEW a \in Actors, StartRun(a) \/ LookUpAbsent(a) \/ LookUpRaises(a)
                                \/ FinishIngest(a) \/ StartDrain(a) \/ CheckDrained(a)
      PROVE  ColumnsInv'
  <2>1. UNCHANGED <<raw, batch>> /\ pc[a] # "parse" /\ pc'[a] # "update"
    BY <1>7 DEF StartRun, LookUpAbsent, LookUpRaises, FinishIngest, StartDrain, CheckDrained,
                memory, table, TypeInv, TypeOK
  <2> QED BY <1>1, <1>2, <2>1 DEF SoleInv, NoBatch
<1>8. ASSUME NEW a \in Actors, Fail(a) PROVE ColumnsInv'
  <2>1. UNCHANGED raw /\ batch'[a] = NoBatch /\ pc'[a] # "update"
    BY <1>8 DEF Fail, table, TypeInv, TypeOK
  <2> QED BY <1>1, <1>2, <2>1 DEF NoBatch
<1>9. ASSUME NEW a \in Actors, InsertRow(a) PROVE ColumnsInv'
  <2>1. PICK r \in RowIds :
           raw' = [raw EXCEPT ![r] =
               [file |-> loaded[a].file, content |-> loaded[a].content,
                status |-> "pending", decided |-> None,
                data |-> Crawled(loaded[a].content), error |-> None]]
    BY <1>9 DEF InsertRow
  <2>2. /\ raw'[r].status = "pending" /\ raw'[r].data = Crawled(loaded[a].content)
        /\ \A q \in RowIds \ {r} : raw'[q] = raw[q]
    BY <2>1 DEF TypeInv, TypeOK
  <2>3. \A q \in RowIds : raw'[q] # NoRow => Sound(raw'[q])
    BY <1>1, <2>2, CrawledHasNoReason DEF Sound, ReasonHolds
  <2>4. UNCHANGED batch /\ pc[a] # "parse" /\ pc'[a] # "update"
    BY <1>9 DEF InsertRow, TypeInv, TypeOK
  <2> QED BY <1>2, <2>3, <2>4 DEF SoleInv, NoBatch
<1>10. ASSUME NEW a \in Actors, UpdateRow(a) PROVE ColumnsInv'
  <2>1. ASSUME NEW r \in RowIds, raw'[r] # NoRow PROVE Sound(raw'[r])
    <3>1. CASE raw'[r] = raw[r]
      BY <1>1, <2>1, <3>1
    <3>2. CASE raw'[r] # raw[r]
      <4>1. /\ r = loaded[a].row
            /\ \/ raw'[r].status = "pending"
               \/ loaded[a].status = "pending" /\ raw'[r].status = raw[r].status
            /\ \/ raw'[r].data = Crawled(loaded[a].content)
               \/ /\ loaded[a].data = Crawled(loaded[a].content)
                  /\ raw'[r].data = raw[r].data
        BY <1>10, <3>2, UpdatedRow
      <4>2. raw'[r].status = "pending"
        BY <1>10, <4>1 DEF UpdateRow, SoleInv
      <4>3. raw'[r].data = Crawled(loaded[a].content)
        BY <1>10, <4>1 DEF UpdateRow, ColumnsInv
      <4> QED BY <4>2, <4>3, CrawledHasNoReason DEF Sound, ReasonHolds
    <3> QED BY <3>1, <3>2
  <2>2. UNCHANGED batch /\ pc[a] # "parse" /\ pc'[a] # "update"
    BY <1>10 DEF UpdateRow, TypeInv, TypeOK
  <2> QED BY <1>2, <2>1, <2>2 DEF SoleInv, NoBatch
<1>11. ASSUME NEW a \in Actors, CommitBatch(a) PROVE ColumnsInv'
  <2>1. ASSUME NEW r \in RowIds, raw'[r] # NoRow PROVE Sound(raw'[r])
    <3>1. CASE raw'[r] = raw[r]
      BY <1>1, <2>1, <3>1
    <3>2. CASE raw'[r] # raw[r]
      <4>1. /\ batch[a][r] \in Contents /\ raw[r] \in RawSkill /\ raw'[r] \in RawSkill
            /\ raw'[r].content = raw[r].content /\ raw'[r].decided = batch[a][r]
        BY <1>11, <3>2, CommittedRow
      <4>2. PICK v \in GateVerdicts[<<batch[a][r], seen[a][r].data.meta>>],
                 d \in SUBSET {"data", "error"} :
              /\ raw'[r].status = StatusOf(v)
              /\ raw'[r].data = DataAfter(raw[r].data, seen[a][r].data, d, v)
              /\ raw'[r].error = ErrorAfter(raw[r].error, seen[a][r].error, d, v)
        BY <1>11, <3>2, CommittedRow
      <4>3. batch[a][r] # None
        BY <4>1, NoneAssumption
      <4>4. /\ raw[r].content = batch[a][r] /\ raw[r].data = seen[a][r].data
            /\ raw[r].error \in {seen[a][r].error, None}
        BY <4>3 DEF SoleInv, ColumnsInv
      <4>5. ReasonHolds(raw[r])
        BY <1>1, <4>1, NoRowIsNotARow DEF Sound
      <4>6. v \in GateVerdicts[<<raw[r].content, raw[r].data.meta>>]
        BY <4>2, <4>4
      <4>7. raw'[r].data = DataAfter(raw[r].data, raw[r].data, d, v)
        BY <4>2, <4>4
      <4>8. raw'[r].decided = raw[r].content
        BY <4>1, <4>4
      <4> QED BY <4>1, <4>2, <4>4, <4>5, <4>6, <4>7, <4>8, VerdictIsMeant
    <3> QED BY <3>1, <3>2
  <2>2. batch'[a] = NoBatch /\ pc'[a] # "update"
    BY <1>11 DEF CommitBatch, TypeInv, TypeOK
  <2> QED BY <1>2, <2>1, <2>2 DEF NoBatch
<1>12. \/ UNCHANGED <<raw, pc, loaded, batch, seen>>
       \/ ReparseUpdate
       \/ \E a \in Actors :
             \/ LookUpChanged(a) \/ SelectBatch(a) \/ InsertRow(a) \/ UpdateRow(a)
             \/ StartRun(a) \/ LookUpAbsent(a) \/ LookUpRaises(a)
             \/ FinishIngest(a) \/ StartDrain(a) \/ CheckDrained(a)
             \/ CommitBatch(a) \/ Fail(a)
  BY DEF Next, Start, Progress, Edit, ToggleAutoIngest, ReparseSelect, LookUpSame,
         table, memory, vars
<1> QED BY <1>3, <1>4, <1>5, <1>6, <1>7, <1>8, <1>9, <1>10, <1>11, <1>12

\* Where one run excludes every other, the status, the error and the reason of a
\* row are those of one verdict about the text that was parsed.
THEOREM VerdictsHold == ASSUME SoleActor PROVE Spec => []StatusMeansVerdict
<1>1. Init => SoleInv /\ ColumnsInv
  BY DEF Init, SoleInv, ColumnsInv, ParsedIsCurrent, Rows, NoBatch
<1>2. TypeInv /\ SoleInv /\ [Next]_vars => SoleInv'
  BY SoleActor, SoleStep
<1>3. TypeInv /\ SoleInv /\ ColumnsInv /\ [Next]_vars => ColumnsInv'
  BY SoleActor, ColumnsStep
<1>4. ColumnsInv => StatusMeansVerdict
  BY DEF ColumnsInv, Sound, Meant, StatusMeansVerdict
<1> QED BY <1>1, <1>2, <1>3, <1>4, TypeCorrect, PTL DEF Spec

(***************************************************************************)
(* Duplicates.  A second row of a document needs a lookup that was open    *)
(* when the first was inserted.  The rows of a document and the inserts    *)
(* still to come for it are together never more than the actors, because a *)
(* new insert is only begun while there is no row at all.                  *)
(***************************************************************************)
Inserters(f) == {a \in Actors : pc[a] = "insert" /\ loaded[a].file = f}

DuplicateInv ==
    \A f \in Files : Cardinality(RowsOf(f)) + Cardinality(Inserters(f)) <= Cardinality(Actors)

\* The rows of a document and the inserts under way for it are finitely many.
LEMMA RowsAreFinite ==
    ASSUME NEW f
    PROVE  /\ IsFiniteSet(RowsOf(f)) /\ Cardinality(RowsOf(f)) \in Nat
           /\ IsFiniteSet(Inserters(f)) /\ Cardinality(Inserters(f)) \in Nat
           /\ Cardinality(Inserters(f)) <= Cardinality(Actors)
           /\ Cardinality(Actors) \in Nat
<1>1. IsFiniteSet(RowIds) /\ RowsOf(f) \subseteq RowIds
  BY FS_Interval, BoundsAssumption DEF RowIds, RowsOf, Rows
<1>2. IsFiniteSet(Actors) /\ Inserters(f) \subseteq Actors
  BY ActorsAssumption DEF Inserters
<1>3. IsFiniteSet(RowsOf(f)) /\ IsFiniteSet(Inserters(f))
  BY <1>1, <1>2, FS_Subset
<1>4. Cardinality(Inserters(f)) <= Cardinality(Actors)
  BY <1>2, FS_Subset
<1> QED BY <1>2, <1>3, <1>4, FS_CardinalityType

\* Every action but the two that begin and end an insert leaves the documents
\* of the rows alone and begins no insert.
LEMMA OnlyInsertsAdd ==
    ASSUME TypeInv, [Next]_vars
    PROVE  \/ \E a \in Actors : LookUpAbsent(a) \/ InsertRow(a)
           \/ \A f \in Files : /\ RowsOf(f)' \subseteq RowsOf(f)
                               /\ Inserters(f)' \subseteq Inserters(f)
<1> SUFFICES ASSUME \A a \in Actors : ~LookUpAbsent(a) /\ ~InsertRow(a)
             PROVE  /\ \A r \in RowIds : raw'[r] # NoRow =>
                           raw[r] # NoRow /\ raw'[r].file = raw[r].file
                    /\ \A a \in Actors : pc'[a] = "insert" =>
                           pc[a] = "insert" /\ loaded'[a] = loaded[a]
    BY DEF RowsOf, Rows, Inserters
<1>1. \A r \in RowIds : raw'[r] # NoRow => raw[r] # NoRow /\ raw'[r].file = raw[r].file
  <2> SUFFICES ASSUME NEW r \in RowIds, raw'[r] # NoRow, raw'[r] # raw[r]
               PROVE  raw[r] # NoRow /\ raw'[r].file = raw[r].file
      OBVIOUS
  <2>1. CASE ReparseUpdate
    <3>1. r \in requeue /\ raw[r] # NoRow /\ raw[r] \in RawSkill
      BY <2>1 DEF ReparseUpdate, TypeInv, Located, TypeOK
    <3>2. raw'[r] = [raw[r] EXCEPT !.status = "pending", !.error = None]
      BY <2>1, <3>1 DEF ReparseUpdate
    <3> QED BY <3>1, <3>2 DEF RawSkill
  <2>2. ASSUME NEW a \in Actors, UpdateRow(a) PROVE raw[r] # NoRow /\ raw'[r].file = raw[r].file
    <3>1. raw[r] \in RawSkill /\ raw'[r].file = raw[r].file
      BY <2>2, UpdatedRow
    <3> QED BY <3>1, NoRowIsNotARow
  <2>3. ASSUME NEW a \in Actors, CommitBatch(a) PROVE raw[r] # NoRow /\ raw'[r].file = raw[r].file
    <3>1. raw[r] \in RawSkill /\ raw'[r].file = raw[r].file
      BY <2>3, CommittedRow
    <3> QED BY <3>1, NoRowIsNotARow
  <2> QED BY <2>1, <2>2, <2>3, TableWriters
<1>2. \A a \in Actors : pc'[a] = "insert" => pc[a] = "insert" /\ loaded'[a] = loaded[a]
  <2>1. CASE UNCHANGED <<pc, loaded>>
    BY <2>1
  <2>2. ASSUME NEW a \in Actors, StartRun(a) \/ LookUpRaises(a) \/ FinishIngest(a)
                                 \/ StartDrain(a) \/ SelectBatch(a) \/ CommitBatch(a)
                                 \/ CheckDrained(a)
        PROVE  \A b \in Actors : pc'[b] = "insert" => pc[b] = "insert" /\ loaded'[b] = loaded[b]
    BY <2>2 DEF StartRun, LookUpRaises, FinishIngest, StartDrain, SelectBatch, CommitBatch,
                CheckDrained, memory, TypeInv, TypeOK
  <2>3. ASSUME NEW a \in Actors, LookUpChanged(a)
        PROVE  \A b \in Actors : pc'[b] = "insert" => pc[b] = "insert" /\ loaded'[b] = loaded[b]
    BY <2>3 DEF LookUpChanged, TypeInv, TypeOK
  <2>4. ASSUME NEW a \in Actors, UpdateRow(a) \/ Fail(a)
        PROVE  \A b \in Actors : pc'[b] = "insert" => pc[b] = "insert" /\ loaded'[b] = loaded[b]
    BY <2>4 DEF UpdateRow, Fail, TypeInv, TypeOK
  <2>5. UNCHANGED <<pc, loaded>> \/ (\E a \in Actors :
            \/ StartRun(a) \/ LookUpRaises(a) \/ FinishIngest(a) \/ StartDrain(a)
            \/ SelectBatch(a) \/ CommitBatch(a) \/ CheckDrained(a)
            \/ LookUpChanged(a) \/ UpdateRow(a) \/ Fail(a))
    BY DEF Next, Start, Progress, Edit, ToggleAutoIngest, ReparseSelect, ReparseUpdate,
           LookUpSame, memory, vars
  <2> QED BY <2>1, <2>2, <2>3, <2>4, <2>5
<1> QED BY <1>1, <1>2

\* An insert turns an actor about to insert into a row, and only an actor that
\* saw no row begins one: their number never passes that of the actors.
LEMMA DuplicateStep == TypeInv /\ DuplicateInv /\ [Next]_vars => DuplicateInv'
<1> SUFFICES ASSUME TypeInv, DuplicateInv, [Next]_vars, NEW f \in Files
             PROVE  Cardinality(RowsOf(f)') + Cardinality(Inserters(f)') <= Cardinality(Actors)
    BY DEF DuplicateInv
<1> DEFINE rows == RowsOf(f)  ins == Inserters(f)
<1>1. /\ IsFiniteSet(rows) /\ Cardinality(rows) \in Nat
      /\ IsFiniteSet(ins) /\ Cardinality(ins) \in Nat
      /\ Cardinality(Actors) \in Nat
      /\ Cardinality(rows) + Cardinality(ins) <= Cardinality(Actors)
  BY RowsAreFinite DEF DuplicateInv
<1> HIDE DEF rows, ins
<1>2. ASSUME NEW R, NEW I, R \subseteq rows, I \subseteq ins
      PROVE  Cardinality(R) + Cardinality(I) <= Cardinality(Actors)
  <2>1. /\ Cardinality(R) <= Cardinality(rows) /\ IsFiniteSet(R)
        /\ Cardinality(I) <= Cardinality(ins) /\ IsFiniteSet(I)
    BY <1>1, <1>2, FS_Subset
  <2>2. Cardinality(R) \in Nat /\ Cardinality(I) \in Nat
    BY <2>1, FS_CardinalityType
  <2> QED BY <1>1, <2>1, <2>2
<1>3. CASE RowsOf(f)' \subseteq RowsOf(f) /\ Inserters(f)' \subseteq Inserters(f)
  BY <1>2, <1>3 DEF rows, ins
<1>4. ASSUME NEW a \in Actors, LookUpAbsent(a)
      PROVE  Cardinality(RowsOf(f)') + Cardinality(Inserters(f)') <= Cardinality(Actors)
  <2>1. PICK g \in Files, c \in Contents :
           /\ <<g, c>> \in results[a]
           /\ RowsOf(g) = {}
           /\ results' = [results EXCEPT ![a] = @ \ {<<g, c>>}]
           /\ loaded' = [loaded EXCEPT ![a] =
                  [NoLoad EXCEPT !.file = g, !.content = c]]
    BY <1>4 DEF LookUpAbsent
  <2>2. RowsOf(f)' = RowsOf(f)
    BY <1>4 DEF LookUpAbsent, RowsOf, Rows, table
  <2>3. CASE f = g
    <3>1. Cardinality(RowsOf(f)') = 0
      BY <2>1, <2>2, <2>3, FS_EmptySet
    <3>2. Inserters(f)' \subseteq Actors
      BY DEF Inserters
    <3>3. /\ Cardinality(Inserters(f)') <= Cardinality(Actors)
          /\ Cardinality(Inserters(f)') \in Nat
      BY <3>2, ActorsAssumption, FS_Subset, FS_CardinalityType
    <3> QED BY <1>1, <3>1, <3>3
  <2>4. CASE f # g
    <3>1. Inserters(f)' \subseteq Inserters(f)
      BY <1>4, <2>1, <2>4 DEF LookUpAbsent, NoLoad, Inserters, TypeInv, TypeOK
    <3> QED BY <1>2, <2>2, <3>1 DEF rows, ins
  <2> QED BY <2>3, <2>4
<1>5. ASSUME NEW a \in Actors, InsertRow(a)
      PROVE  Cardinality(RowsOf(f)') + Cardinality(Inserters(f)') <= Cardinality(Actors)
  <2> DEFINE new == [file |-> loaded[a].file, content |-> loaded[a].content,
                     status |-> "pending", decided |-> None,
                     data |-> Crawled(loaded[a].content), error |-> None]
  <2>1. PICK r \in RowIds : r \notin Rows /\ raw' = [raw EXCEPT ![r] = new]
    BY <1>5 DEF InsertRow
  <2>2. new # NoRow /\ raw'[r] = new /\ \A q \in RowIds \ {r} : raw'[q] = raw[q]
    BY <1>5, <2>1, NoRowIsNotARow
    DEF InsertRow, TypeInv, TypeOK, Located, RawSkill, Statuses, Crawled, Data, Metas, Errors
  <2>3. Inserters(f)' = Inserters(f) \ {a}
    BY <1>5 DEF InsertRow, Inserters, TypeInv, TypeOK
  <2>4. CASE loaded[a].file = f
    <3>1. RowsOf(f)' \subseteq rows \cup {r}
      BY <2>2 DEF RowsOf, Rows, rows
    <3>2. a \in ins
      BY <1>5, <2>4 DEF InsertRow, Inserters, ins
    <3>3. Cardinality(ins \ {a}) = Cardinality(ins) - 1
      BY <1>1, <3>2, FS_RemoveElement
    <3>4. /\ IsFiniteSet(rows \cup {r}) /\ Cardinality(rows \cup {r}) <= Cardinality(rows) + 1
          /\ Cardinality(rows \cup {r}) \in Nat
      <4>1. IsFiniteSet(rows \cup {r})
        BY <1>1, FS_AddElement
      <4>2. Cardinality(rows \cup {r}) = Cardinality(rows)
              \/ Cardinality(rows \cup {r}) = Cardinality(rows) + 1
        BY <1>1, FS_AddElement
      <4> QED BY <1>1, <4>1, <4>2, FS_CardinalityType
    <3>5. Cardinality(RowsOf(f)') <= Cardinality(rows \cup {r}) /\ IsFiniteSet(RowsOf(f)')
      BY <3>1, <3>4, FS_Subset
    <3>6. Cardinality(RowsOf(f)') \in Nat
      BY <3>5, FS_CardinalityType
    <3>7. Inserters(f)' = ins \ {a}
      BY <2>3 DEF ins
    <3> QED BY <1>1, <3>3, <3>4, <3>5, <3>6, <3>7
  <2>5. CASE loaded[a].file # f
    <3>1. RowsOf(f)' \subseteq RowsOf(f) /\ Inserters(f)' \subseteq Inserters(f)
      BY <2>2, <2>3, <2>5 DEF RowsOf, Rows
    <3> QED BY <1>2, <3>1 DEF rows, ins
  <2> QED BY <2>4, <2>5
<1> QED BY <1>3, <1>4, <1>5, OnlyInsertsAdd

LEMMA DuplicatesHold == Spec => []DuplicateInv
<1>1. Init => DuplicateInv
  <2> SUFFICES ASSUME Init, NEW f \in Files
               PROVE  Cardinality(RowsOf(f)) + Cardinality(Inserters(f)) <= Cardinality(Actors)
      BY DEF DuplicateInv
  <2>1. RowsOf(f) = {} /\ Inserters(f) = {}
    BY DEF Init, RowsOf, Rows, Inserters
  <2> QED BY <2>1, FS_EmptySet, RowsAreFinite
<1> QED BY <1>1, DuplicateStep, TypeCorrect, PTL DEF Spec

\* However many runs overlap and however often they crash, a document never has
\* more rows than there are actors.
THEOREM DuplicatesAreBounded == Spec => []DuplicatesBounded
<1>1. DuplicateInv => DuplicatesBounded
  <2> SUFFICES ASSUME DuplicateInv, NEW f \in Files
               PROVE  Cardinality(RowsOf(f)) <= Cardinality(Actors)
      BY DEF DuplicatesBounded
  <2> QED BY RowsAreFinite DEF DuplicateInv
<1> QED BY <1>1, DuplicatesHold, PTL

(***************************************************************************)
(* The contract.  A sole actor inserts no second row, so the text and the  *)
(* verdict of a document are those of its row; and what it has read of a   *)
(* row it writes is still so: the rows of its batch are pending, and the   *)
(* row it updates holds another text than the one that came.               *)
(***************************************************************************)

\* Where one run excludes every other, a document has at most one row.
LEMMA SoleIsUnique ==
    ASSUME SoleActor, TypeInv, DuplicateInv
    PROVE  /\ RawUnique
           /\ \A a \in Actors : pc[a] = "insert" => RowsOf(loaded[a].file) = {}
<1>1. Cardinality(Actors) <= 1
  <2>1. CASE Actors = {}
    BY <2>1, FS_EmptySet
  <2>2. CASE \E a : Actors = {a}
    BY <2>2, FS_Singleton
  <2>3. ASSUME NEW a \in Actors PROVE Actors = {a}
    BY SoleActor DEF SoleActor
  <2> QED BY <2>1, <2>2, <2>3
<1>2. ASSUME NEW S, IsFiniteSet(S), Cardinality(S) <= 1, NEW p \in S, NEW q \in S
      PROVE  p = q
  <2>1. IsFiniteSet(S \ {p}) /\ Cardinality(S \ {p}) = Cardinality(S) - 1
    BY <1>2, FS_RemoveElement
  <2>2. Cardinality(S) \in Nat /\ Cardinality(S \ {p}) \in Nat
    BY <1>2, <2>1, FS_CardinalityType
  <2>3. Cardinality(S \ {p}) = 0
    BY <1>2, <2>1, <2>2
  <2>4. S \ {p} = {}
    BY <2>1, <2>3, FS_EmptySet
  <2> QED BY <2>4
<1>3. ASSUME NEW f \in Files
      PROVE  /\ IsFiniteSet(RowsOf(f)) /\ Cardinality(RowsOf(f)) <= 1
             /\ Inserters(f) # {} => RowsOf(f) = {}
  <2>1. /\ IsFiniteSet(RowsOf(f)) /\ Cardinality(RowsOf(f)) \in Nat
        /\ IsFiniteSet(Inserters(f)) /\ Cardinality(Inserters(f)) \in Nat
        /\ Cardinality(Actors) \in Nat
        /\ Cardinality(RowsOf(f)) + Cardinality(Inserters(f)) <= Cardinality(Actors)
    BY RowsAreFinite DEF DuplicateInv
  <2>2. Inserters(f) # {} => Cardinality(Inserters(f)) # 0
    BY <2>1, FS_EmptySet
  <2>3. Inserters(f) # {} => Cardinality(RowsOf(f)) = 0
    BY <1>1, <2>1, <2>2
  <2> QED BY <1>1, <2>1, <2>3, FS_EmptySet
<1>4. RawUnique
  <2> SUFFICES ASSUME NEW r \in Rows, NEW q \in Rows, raw[r].file = raw[q].file
               PROVE  r = q
      BY DEF RawUnique
  <2>1. raw[r].file \in Files /\ r \in RowsOf(raw[r].file) /\ q \in RowsOf(raw[r].file)
    BY DEF RowsOf, Rows, TypeInv, TypeOK, RawSkill
  <2> QED BY <1>2, <1>3, <2>1
<1>5. ASSUME NEW a \in Actors, pc[a] = "insert" PROVE RowsOf(loaded[a].file) = {}
  <2>1. loaded[a].file \in Files /\ a \in Inserters(loaded[a].file)
    BY <1>5 DEF Inserters, TypeInv, Located
  <2> QED BY <1>3, <2>1
<1> QED BY <1>4, <1>5

ReadInv ==
    \A a \in Actors :
        /\ \A r \in RowIds : batch[a][r] # None => raw[r].status = "pending"
        /\ pc[a] = "update" => raw[loaded[a].row].content # loaded[a].content

\* With one actor every action leaves what was read of a row as it was.
LEMMA ReadStep ==
    ASSUME SoleActor PROVE TypeInv /\ SoleInv /\ ReadInv /\ [Next]_vars => ReadInv'
<1> SUFFICES ASSUME TypeInv, SoleInv, ReadInv, [Next]_vars PROVE ReadInv'
    OBVIOUS
<1>1. CASE UNCHANGED <<raw, pc, loaded, batch>>
  BY <1>1 DEF ReadInv
<1>2. ASSUME NEW a \in Actors, \A r \in RowIds : batch'[a][r] = None, pc'[a] # "update"
      PROVE  ReadInv'
  BY <1>2, SoleActor DEF ReadInv, SoleActor
<1>3. CASE ReparseUpdate
  <2>1. \A r \in RowIds : \/ raw'[r] = raw[r]
                          \/ raw'[r].status = "pending" /\ raw'[r].content = raw[r].content
    <3> SUFFICES ASSUME NEW r \in requeue
                 PROVE  raw'[r].status = "pending" /\ raw'[r].content = raw[r].content
        BY <1>3 DEF ReparseUpdate
    <3>1. r \in RowIds /\ raw[r] \in RawSkill
      BY DEF TypeInv, Located, TypeOK
    <3> QED BY <1>3, <3>1 DEF ReparseUpdate, RawSkill
  <2>2. \A a \in Actors : pc[a] = "update" => loaded[a].row \in RowIds
    BY DEF TypeInv, Located
  <2>3. UNCHANGED <<pc, loaded, batch>>
    BY <1>3 DEF ReparseUpdate, memory
  <2> QED BY <2>1, <2>2, <2>3 DEF ReadInv
<1>4. ASSUME NEW a \in Actors, LookUpChanged(a) PROVE ReadInv'
  <2>1. PICK f \in Files, c \in Contents, r \in RowIds :
           /\ raw[r].content # c
           /\ loaded' = [loaded EXCEPT ![a] =
                  [file |-> f, content |-> c, row |-> r, status |-> raw[r].status,
                   data |-> raw[r].data]]
    BY <1>4 DEF LookUpChanged
  <2>2. loaded'[a].row = r /\ loaded'[a].content = c
    BY <2>1 DEF TypeInv, TypeOK
  <2>3. UNCHANGED <<raw, batch>>
    BY <1>4 DEF LookUpChanged, table
  <2> QED BY <2>1, <2>2, <2>3, SoleActor DEF ReadInv, SoleActor
<1>5. ASSUME NEW a \in Actors, SelectBatch(a) PROVE ReadInv'
  <2>1. \A r \in RowIds : batch'[a][r] # None => raw[r].status = "pending"
    BY <1>5 DEF SelectBatch, OldestPending, Pending, TypeInv, TypeOK
  <2>2. pc'[a] = "parse" /\ UNCHANGED raw
    BY <1>5 DEF SelectBatch, table, TypeInv, TypeOK
  <2> QED BY <2>1, <2>2, SoleActor DEF ReadInv, SoleActor
<1>6. ASSUME NEW a \in Actors, StartRun(a) \/ LookUpAbsent(a) \/ LookUpRaises(a)
                                \/ FinishIngest(a) \/ StartDrain(a) \/ CheckDrained(a)
      PROVE  ReadInv'
  <2>1. UNCHANGED batch /\ pc[a] # "parse" /\ pc'[a] # "update"
    BY <1>6 DEF StartRun, LookUpAbsent, LookUpRaises, FinishIngest, StartDrain, CheckDrained,
                memory, TypeInv, TypeOK
  <2> QED BY <1>2, <2>1 DEF SoleInv, NoBatch
<1>7. ASSUME NEW a \in Actors, InsertRow(a) \/ UpdateRow(a) PROVE ReadInv'
  <2>1. UNCHANGED batch /\ pc[a] # "parse" /\ pc'[a] # "update"
    BY <1>7 DEF InsertRow, UpdateRow, TypeInv, TypeOK
  <2> QED BY <1>2, <2>1 DEF SoleInv, NoBatch
<1>8. ASSUME NEW a \in Actors, CommitBatch(a) \/ Fail(a) PROVE ReadInv'
  <2>1. batch'[a] = NoBatch /\ pc'[a] # "update"
    BY <1>8 DEF CommitBatch, Fail, TypeInv, TypeOK
  <2> QED BY <1>2, <2>1 DEF NoBatch
<1>9. \/ UNCHANGED <<raw, pc, loaded, batch>>
      \/ ReparseUpdate
      \/ \E a \in Actors :
            \/ LookUpChanged(a) \/ SelectBatch(a) \/ InsertRow(a) \/ UpdateRow(a)
            \/ StartRun(a) \/ LookUpAbsent(a) \/ LookUpRaises(a)
            \/ FinishIngest(a) \/ StartDrain(a) \/ CheckDrained(a)
            \/ CommitBatch(a) \/ Fail(a)
  BY DEF Next, Start, Progress, Edit, ToggleAutoIngest, ReparseSelect, LookUpSame,
         table, memory, vars
<1> QED BY <1>1, <1>3, <1>4, <1>5, <1>6, <1>7, <1>8, <1>9

(***************************************************************************)
(* The refinement mapping, row by row.                                     *)
(***************************************************************************)
JudgedRow(row) == IF row.status # "pending" THEN row.decided ELSE None

\* A document with one row has the text and the verdict of that row.
LEMMA MappedText ==
    ASSUME RawUnique, NEW f
    PROVE  /\ RowsOf(f) = {} => StoredText(f) = None /\ JudgedText(f) = None
           /\ \A r \in RowsOf(f) : /\ StoredText(f) = raw[r].content
                                   /\ JudgedText(f) = JudgedRow(raw[r])
<1>1. ASSUME NEW r \in RowsOf(f)
      PROVE  StoredText(f) = raw[r].content /\ JudgedText(f) = JudgedRow(raw[r])
  <2>1. RowsOf(f) = {r}
    BY DEF RawUnique, RowsOf
  <2>2. (CHOOSE q \in RowsOf(f) : TRUE) = r
    BY <2>1
  <2> QED BY <2>1, <2>2 DEF StoredText, JudgedText, JudgedRow
<1> QED BY <1>1 DEF StoredText, JudgedText

\* The same of the state after a step.
LEMMA MappedTextNext ==
    ASSUME RawUnique', NEW f
    PROVE  /\ RowsOf(f)' = {} => StoredText(f)' = None /\ JudgedText(f)' = None
           /\ \A r \in RowsOf(f)' : /\ StoredText(f)' = raw'[r].content
                                    /\ JudgedText(f)' = JudgedRow(raw'[r])
<1>1. ASSUME NEW r \in RowsOf(f)'
      PROVE  StoredText(f)' = raw'[r].content /\ JudgedText(f)' = JudgedRow(raw'[r])
  <2>1. RowsOf(f)' = {r}
    BY DEF RawUnique, RowsOf
  <2>2. (CHOOSE q \in RowsOf(f)' : TRUE) = r
    BY <2>1
  <2> QED BY <2>1, <2>2 DEF StoredText, JudgedText, JudgedRow
<1> QED BY <1>1 DEF StoredText, JudgedText

\* One document gets another text.
LEMMA StoreStep ==
    ASSUME NEW f \in Files, NEW c \in Contents, StoredText(f) # c,
           StoredText(f)' = c, JudgedText(f)' = None,
           \A g \in Files \ {f} : /\ StoredText(g)' = StoredText(g)
                                  /\ JudgedText(g)' = JudgedText(g)
    PROVE  Contract!Next
<1>1. Contract!Store(f, c)
  BY DEF Contract!Store
<1> QED BY <1>1 DEF Contract!Next

\* Some documents get a verdict, or owe one again.
LEMMA JudgeStep ==
    ASSUME NEW S \in SUBSET Files,
           \A g \in Files : StoredText(g)' = StoredText(g),
           \A g \in Files \ S : JudgedText(g)' = JudgedText(g),
           \/ \A g \in S : /\ StoredText(g) # None /\ JudgedText(g) = None
                           /\ JudgedText(g)' = StoredText(g)
           \/ \A g \in S : JudgedText(g) # None /\ JudgedText(g)' = None
    PROVE  Contract!Next
<1>1. Contract!Decide(S) \/ Contract!Requeue(S)
  BY DEF Contract!Decide, Contract!Requeue
<1> QED BY <1>1 DEF Contract!Next

\* Rows that keep their document: what becomes of each document is what becomes
\* of its row.
LEMMA RowByRow ==
    ASSUME RawUnique, RawUnique', NEW g,
           \A r \in RowIds : /\ raw'[r] # NoRow <=> raw[r] # NoRow
                             /\ raw[r] # NoRow => raw'[r].file = raw[r].file
    PROVE  \/ /\ \A r \in RowIds : raw[r] # NoRow => raw[r].file # g
              /\ StoredText(g)' = StoredText(g) /\ JudgedText(g)' = JudgedText(g)
           \/ \E r \in RowIds :
                /\ raw[r] # NoRow /\ raw[r].file = g
                /\ \A q \in RowIds : raw[q] # NoRow /\ raw[q].file = g => q = r
                /\ StoredText(g) = raw[r].content /\ JudgedText(g) = JudgedRow(raw[r])
                /\ StoredText(g)' = raw'[r].content /\ JudgedText(g)' = JudgedRow(raw'[r])
<1>1. RowsOf(g)' = RowsOf(g)
  BY DEF RowsOf, Rows
<1>2. CASE RowsOf(g) = {}
  BY <1>1, <1>2, MappedText, MappedTextNext DEF RowsOf, Rows
<1>3. ASSUME NEW r \in RowsOf(g)
      PROVE  \E q \in RowIds :
                /\ raw[q] # NoRow /\ raw[q].file = g
                /\ \A p \in RowIds : raw[p] # NoRow /\ raw[p].file = g => p = q
                /\ StoredText(g) = raw[q].content /\ JudgedText(g) = JudgedRow(raw[q])
                /\ StoredText(g)' = raw'[q].content /\ JudgedText(g)' = JudgedRow(raw'[q])
  <2>1. r \in RowIds /\ raw[r] # NoRow /\ raw[r].file = g
    BY DEF RowsOf, Rows
  <2>2. \A p \in RowIds : raw[p] # NoRow /\ raw[p].file = g => p = r
    BY <2>1 DEF RawUnique, Rows
  <2>3. StoredText(g) = raw[r].content /\ JudgedText(g) = JudgedRow(raw[r])
    BY <1>3, MappedText
  <2>4. StoredText(g)' = raw'[r].content /\ JudgedText(g)' = JudgedRow(raw'[r])
    BY <1>1, <1>3, MappedTextNext
  <2> QED BY <2>1, <2>2, <2>3, <2>4
<1> QED BY <1>2, <1>3

\* Every action of a sole actor is a step of the contract or none.
LEMMA ContractStep ==
    ASSUME TypeInv, SoleInv, ReadInv, RowsDecided, RawUnique, RawUnique',
           \A a \in Actors : pc[a] = "insert" => RowsOf(loaded[a].file) = {},
           [Next]_vars
    PROVE  Contract!Next \/ UNCHANGED Contract!contract
<1>1. CASE UNCHANGED raw
  <2>1. \A g \in Files : StoredText(g)' = StoredText(g) /\ JudgedText(g)' = JudgedText(g)
    BY <1>1 DEF StoredText, JudgedText, RowsOf, Rows
  <2> QED BY <2>1 DEF Contract!contract
<1>2. CASE ReparseUpdate
  <2> DEFINE S == {g \in Files : \E r \in requeue : raw[r].file = g /\ raw[r].status # "pending"}
  <2>1. \A r \in requeue : /\ r \in RowIds /\ raw[r] \in RawSkill
                           /\ raw'[r] = [raw[r] EXCEPT !.status = "pending", !.error = None]
    BY <1>2 DEF ReparseUpdate, TypeInv, Located, TypeOK
  <2>2. \A r \in RowIds \ requeue : raw'[r] = raw[r]
    BY <1>2 DEF ReparseUpdate
  <2>3. ASSUME NEW r \in RowIds
        PROVE  /\ raw'[r] # NoRow <=> raw[r] # NoRow
               /\ raw'[r].file = raw[r].file /\ raw'[r].content = raw[r].content
               /\ r \notin requeue => raw'[r] = raw[r]
               /\ r \in requeue => raw'[r].status = "pending"
    <3>1. CASE r \notin requeue
      BY <2>2, <3>1
    <3>2. CASE r \in requeue
      <4>1. raw[r] \in RawSkill /\ raw'[r] = [raw[r] EXCEPT !.status = "pending", !.error = None]
        BY <2>1, <3>2
      <4>2. /\ raw'[r] \in RawSkill /\ raw'[r].status = "pending"
            /\ raw'[r].file = raw[r].file /\ raw'[r].content = raw[r].content
        BY <4>1 DEF RawSkill, Statuses, Errors
      <4> QED BY <3>2, <4>1, <4>2, NoRowIsNotARow
    <3> QED BY <3>1, <3>2
  <2>4. ASSUME NEW r \in RowIds, raw[r] # NoRow, raw[r].status # "pending"
        PROVE  raw[r].decided # None
    BY <2>4 DEF RowsDecided, Rows
  <2>5. ASSUME NEW g \in Files
        PROVE  /\ StoredText(g)' = StoredText(g)
               /\ g \notin S => JudgedText(g)' = JudgedText(g)
               /\ g \in S => JudgedText(g) # None /\ JudgedText(g)' = None
    <3>1. CASE /\ \A r \in RowIds : raw[r] # NoRow => raw[r].file # g
               /\ StoredText(g)' = StoredText(g) /\ JudgedText(g)' = JudgedText(g)
      BY <2>1, <3>1, NoRowIsNotARow
    <3>2. ASSUME NEW r \in RowIds, raw[r] # NoRow, raw[r].file = g,
                 \A q \in RowIds : raw[q] # NoRow /\ raw[q].file = g => q = r,
                 StoredText(g) = raw[r].content, JudgedText(g) = JudgedRow(raw[r]),
                 StoredText(g)' = raw'[r].content, JudgedText(g)' = JudgedRow(raw'[r])
          PROVE  /\ StoredText(g)' = StoredText(g)
                 /\ g \notin S => JudgedText(g)' = JudgedText(g)
                 /\ g \in S => JudgedText(g) # None /\ JudgedText(g)' = None
      <4>1. g \in S => r \in requeue /\ raw[r].status # "pending"
        BY <2>1, <3>2, NoRowIsNotARow
      <4>2. r \in requeue /\ raw[r].status # "pending" => g \in S
        BY <3>2
      <4> QED BY <2>3, <2>4, <3>2, <4>1, <4>2 DEF JudgedRow
    <3> QED BY <2>3, <3>1, <3>2, RowByRow
  <2> HIDE DEF S
  <2>6. S \in SUBSET Files
    BY DEF S
  <2>7. Contract!Next
    BY <2>5, <2>6, JudgeStep
  <2> QED BY <2>7
<1>3. ASSUME NEW a \in Actors, InsertRow(a) PROVE Contract!Next
  <2>1. PICK f, c : f = loaded[a].file /\ c = loaded[a].content
    OBVIOUS
  <2>2. f \in Files /\ c \in Contents /\ RowsOf(f) = {}
    BY <1>3, <2>1 DEF InsertRow, TypeInv, Located
  <2>3. PICK r \in RowIds : /\ raw[r] = NoRow
                            /\ raw' = [raw EXCEPT ![r] =
                                 [file |-> f, content |-> c, status |-> "pending",
                                  decided |-> None, data |-> Crawled(c), error |-> None]]
    BY <1>3, <2>1 DEF InsertRow, Rows
  <2>4. /\ raw'[r] # NoRow /\ raw'[r].file = f /\ raw'[r].content = c
        /\ raw'[r].status = "pending" /\ \A q \in RowIds \ {r} : raw'[q] = raw[q]
    BY <2>2, <2>3, NoneAssumption DEF TypeInv, TypeOK, NoRow
  <2>5. StoredText(f) # c
    BY <2>2, MappedText, NoneAssumption
  <2>6. StoredText(f)' = c /\ JudgedText(f)' = None
    <3>1. r \in RowsOf(f)'
      BY <2>4 DEF RowsOf, Rows
    <3> QED BY <2>4, <3>1, MappedTextNext DEF JudgedRow
  <2>7. ASSUME NEW g \in Files \ {f}
        PROVE  StoredText(g)' = StoredText(g) /\ JudgedText(g)' = JudgedText(g)
    <3>1. RowsOf(g)' = RowsOf(g) /\ r \notin RowsOf(g)
      BY <2>3, <2>4 DEF RowsOf, Rows
    <3>2. \A q \in RowsOf(g) : raw'[q] = raw[q]
      BY <2>4, <3>1 DEF RowsOf, Rows
    <3>3. CASE RowsOf(g) = {}
      BY <3>1, <3>3, MappedText, MappedTextNext
    <3>4. ASSUME NEW q \in RowsOf(g)
          PROVE  StoredText(g)' = StoredText(g) /\ JudgedText(g)' = JudgedText(g)
      <4>1. StoredText(g) = raw[q].content /\ JudgedText(g) = JudgedRow(raw[q])
        BY <3>4, MappedText
      <4>2. StoredText(g)' = raw'[q].content /\ JudgedText(g)' = JudgedRow(raw'[q])
        BY <3>1, <3>4, MappedTextNext
      <4> QED BY <3>2, <4>1, <4>2
    <3> QED BY <3>3, <3>4
  <2> QED BY <2>2, <2>5, <2>6, <2>7, StoreStep
<1>4. ASSUME NEW a \in Actors, UpdateRow(a) PROVE Contract!Next
  <2>1. PICK r, c : r = loaded[a].row /\ c = loaded[a].content
    OBVIOUS
  <2>2. /\ r \in RowIds /\ raw[r] \in RawSkill /\ raw[r] # NoRow /\ c \in Contents
        /\ raw[r].content # c
    BY <1>4, <2>1 DEF UpdateRow, TypeInv, Located, TypeOK, ReadInv
  <2>3. /\ raw'[r] \in RawSkill /\ raw'[r].file = raw[r].file /\ raw'[r].content = c
        /\ \/ raw'[r].status = "pending"
           \/ loaded[a].status = "pending" /\ raw'[r].status = raw[r].status
        /\ \A q \in RowIds \ {r} : raw'[q] = raw[q]
    BY <1>4, <2>1, <2>2, UpdatedRow
  <2>4. /\ raw'[r] # NoRow /\ raw'[r].file = raw[r].file /\ raw'[r].content = c
        /\ raw'[r].status = "pending"
    <3>1. raw'[r].status = "pending"
      BY <1>4, <2>1, <2>3 DEF UpdateRow, SoleInv
    <3>2. raw'[r].file \in Files
      BY <2>2, <2>3 DEF RawSkill
    <3> QED BY <2>3, <3>1, <3>2, NoneAssumption DEF NoRow
  <2>5. \A q \in RowIds : /\ raw'[q] # NoRow <=> raw[q] # NoRow
                          /\ raw[q] # NoRow => raw'[q].file = raw[q].file
    BY <2>2, <2>3, <2>4
  <2>6. PICK f \in Files : f = raw[r].file
    BY <2>2 DEF RawSkill
  <2>7. StoredText(f) # c /\ StoredText(f)' = c /\ JudgedText(f)' = None
    <3>1. r \in RowsOf(f) /\ r \in RowsOf(f)'
      BY <2>2, <2>4, <2>6 DEF RowsOf, Rows
    <3>2. StoredText(f) = raw[r].content
      BY <3>1, MappedText
    <3>3. StoredText(f)' = raw'[r].content /\ JudgedText(f)' = JudgedRow(raw'[r])
      BY <3>1, MappedTextNext
    <3> QED BY <2>2, <2>4, <3>2, <3>3 DEF JudgedRow
  <2>8. ASSUME NEW g \in Files \ {f}
        PROVE  StoredText(g)' = StoredText(g) /\ JudgedText(g)' = JudgedText(g)
    BY <2>3, <2>5, <2>6, RowByRow
  <2> QED BY <2>2, <2>7, <2>8, StoreStep
<1>5. ASSUME NEW a \in Actors, CommitBatch(a) PROVE Contract!Next
  <2> DEFINE S == {g \in Files : \E r \in RowIds : batch[a][r] # None /\ raw[r].file = g}
  <2>1. ASSUME NEW r \in RowIds
        PROVE  \/ batch[a][r] = None /\ raw'[r] = raw[r]
               \/ /\ batch[a][r] # None /\ raw[r] \in RawSkill /\ raw[r] # NoRow /\ raw'[r] # NoRow
                  /\ raw'[r].file = raw[r].file /\ raw'[r].content = raw[r].content
                  /\ raw[r].content # None /\ raw[r].status = "pending"
                  /\ raw'[r].status # "pending" /\ raw'[r].decided = raw[r].content
    <3>1. CASE batch[a][r] = None
      BY <1>5, <3>1, CommittedRow, NoneAssumption
    <3>2. CASE batch[a][r] # None
      <4>1. /\ batch[a][r] \in Contents /\ raw[r] \in RawSkill /\ raw'[r] \in RawSkill
            /\ raw'[r].file = raw[r].file /\ raw'[r].content = raw[r].content
            /\ raw'[r].decided = batch[a][r] /\ \E v : raw'[r].status = StatusOf(v)
        BY <1>5, <3>2, CommittedRow
      <4>3. raw[r].content = batch[a][r] /\ raw[r].status = "pending"
        BY <3>2 DEF SoleInv, ReadInv
      <4>4. raw'[r].status # "pending" /\ batch[a][r] # None
        BY <4>1, NoneAssumption DEF StatusOf
      <4>5. raw[r] # NoRow /\ raw'[r] # NoRow
        BY <4>1, NoRowIsNotARow
      <4> QED BY <3>2, <4>1, <4>3, <4>4, <4>5
    <3> QED BY <3>1, <3>2
  <2>2. \A r \in RowIds : /\ raw'[r] # NoRow <=> raw[r] # NoRow
                          /\ raw[r] # NoRow => raw'[r].file = raw[r].file
    BY <2>1
  <2>3. ASSUME NEW g \in Files
        PROVE  /\ StoredText(g)' = StoredText(g)
               /\ g \notin S => JudgedText(g)' = JudgedText(g)
               /\ g \in S => /\ StoredText(g) # None /\ JudgedText(g) = None
                             /\ JudgedText(g)' = StoredText(g)
    <3>1. CASE /\ \A r \in RowIds : raw[r] # NoRow => raw[r].file # g
               /\ StoredText(g)' = StoredText(g) /\ JudgedText(g)' = JudgedText(g)
      BY <2>1, <3>1
    <3>2. ASSUME NEW r \in RowIds, raw[r] # NoRow, raw[r].file = g,
                 \A q \in RowIds : raw[q] # NoRow /\ raw[q].file = g => q = r,
                 StoredText(g) = raw[r].content, JudgedText(g) = JudgedRow(raw[r]),
                 StoredText(g)' = raw'[r].content, JudgedText(g)' = JudgedRow(raw'[r])
          PROVE  /\ StoredText(g)' = StoredText(g)
                 /\ g \notin S => JudgedText(g)' = JudgedText(g)
                 /\ g \in S => /\ StoredText(g) # None /\ JudgedText(g) = None
                               /\ JudgedText(g)' = StoredText(g)
      <4>1. g \in S <=> batch[a][r] # None
        BY <2>1, <3>2
      <4> QED BY <2>1, <3>2, <4>1 DEF JudgedRow
    <3> QED BY <2>2, <3>1, <3>2, RowByRow
  <2> HIDE DEF S
  <2>4. S \in SUBSET Files
    BY DEF S
  <2> QED BY <2>3, <2>4, JudgeStep
<1> QED BY <1>1, <1>2, <1>3, <1>4, <1>5, TableWriters

\* Where one run excludes every other, a document is stored once, as the
\* scalar_one_or_none of upsert_raw_skill presupposes.
THEOREM SoleActorIsUnique == ASSUME SoleActor PROVE Spec => []RawUnique
<1>1. TypeInv /\ DuplicateInv => RawUnique
  BY SoleActor, SoleIsUnique
<1> QED BY <1>1, DuplicatesHold, TypeCorrect, PTL

\* Where one run excludes every other, the queue with its batches, look-ups and
\* failures implements the contract: a verdict is about the text that is stored.
THEOREM SoleActorKeepsContract == ASSUME SoleActor PROVE Spec => KeepsContract
<1>1. Init => Contract!Init
  <2> SUFFICES ASSUME Init PROVE Contract!Init
      OBVIOUS
  <2>1. \A g : RowsOf(g) = {}
    BY DEF Init, RowsOf, Rows
  <2> QED BY <2>1 DEF Contract!Init, StoredText, JudgedText
<1>2. Init => ReadInv /\ SoleInv
  BY DEF Init, ReadInv, SoleInv, ParsedIsCurrent, Rows, NoBatch
<1>3. TypeInv /\ SoleInv /\ [Next]_vars => SoleInv'
  BY SoleActor, SoleStep
<1>4. TypeInv /\ SoleInv /\ ReadInv /\ [Next]_vars => ReadInv'
  BY SoleActor, ReadStep
<1>5. TypeInv /\ DuplicateInv =>
          RawUnique /\ \A a \in Actors : pc[a] = "insert" => RowsOf(loaded[a].file) = {}
  BY SoleActor, SoleIsUnique
<1>6. TypeInv /\ SoleInv /\ ReadInv /\ RowsDecided /\ DuplicateInv /\ RawUnique'
          /\ [Next]_vars => [Contract!Next]_(Contract!contract)
  BY <1>5, ContractStep
<1>7. Spec => [](TypeInv /\ SoleInv /\ ReadInv /\ RowsDecided /\ DuplicateInv /\ RawUnique)
  BY <1>2, <1>3, <1>4, TypeCorrect, DecisionsHold, DuplicatesHold, SoleActorIsUnique, SoleActor,
     PTL DEF Spec
<1> QED BY <1>1, <1>6, <1>7, PTL DEF Spec, KeepsContract, Contract!Spec
=============================================================================
