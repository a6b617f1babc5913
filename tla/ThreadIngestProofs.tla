------------------------- MODULE ThreadIngestProofs -------------------------
(***************************************************************************)
(* What scripts/thread_parser.py promises of threads.db, for every archive, *)
(* batch and chunk size and number of faults: with any number of commands  *)
(* at once for the batches, with one command at a time for the index.      *)
(***************************************************************************)
EXTENDS ThreadIngest, TLAPS

\* The steps of run_migration_on_file that a bulk run does not share.
SinglePlaces == {"init_posts", "init_threads", "reset", "select", "write"}

\* A process between two commands holds no batch, and a run for a single thread
\* knows which.
Settled ==
  \A p \in Procs :
    /\ Idle(p) => done[p] = {} /\ pending[p] = {}
    /\ pc[p] \in SinglePlaces => job[p] \in Single

BatchInv == TypeOK /\ Settled /\ DoneIsStored

\* Exit forgets the batch.
LEMMA ExitForgets ==
  ASSUME BatchInv, NEW p \in Procs, NEW how \in Outcomes, Exit(p, how),
         UNCHANGED <<database, version, history>>, faults' \in 0..MAX_FAULTS
  PROVE  BatchInv'
<1> USE DEF Exit, BatchInv, database, history
<1>1. TypeOK'
  BY DEF TypeOK, Places
<1>2. Settled'
  BY DEF Settled, SinglePlaces, Idle, TypeOK
<1>3. DoneIsStored'
  BY DEF DoneIsStored, TypeOK
<1> QED BY <1>1, <1>2, <1>3

\* A step that only changes the index, and moves no process out of the middle of
\* its command.
LEMMA IndexSteps ==
  ASSUME BatchInv, NEW p \in Procs, ~Idle(p),
         NEW place \in Places \ {"idle", "create_posts", "create_threads", "rebuild"},
         place \in SinglePlaces => job[p] \in Single,
         Goto(p, place), UNCHANGED <<row, work, version>>,
         schema' \in [Tables -> Schemas], triggers' \subseteq Tables,
         index' \in [Tables -> [Threads -> Versions]],
         faults' \in 0..MAX_FAULTS, torn' \in BOOLEAN, blind' \subseteq Threads
  PROVE  BatchInv'
<1> USE DEF Goto, BatchInv, work
<1>1. TypeOK'
  BY DEF TypeOK
<1>2. Settled'
  BY DEF Settled, SinglePlaces, Idle, TypeOK
<1>3. DoneIsStored'
  BY DEF DoneIsStored, TypeOK
<1> QED BY <1>1, <1>2, <1>3

LEMMA SingleKind ==
  ASSUME TypeOK, NEW p \in Procs, job[p].kind = "single"
  PROVE  job[p] \in Single
<1>1. \/ job[p] \in Bulk
      \/ job[p] \in Single
      \/ job[p] = [kind |-> "none"]
  BY DEF TypeOK
<1>2. job[p] \notin Bulk
  BY IngestAssumption DEF Bulk
<1>3. job[p] # [kind |-> "none"]
  OBVIOUS
<1> QED BY <1>1, <1>2, <1>3

\* The types of what a write produces.
LEMMA WriteTypes ==
  ASSUME TypeOK, NEW S
  PROVE  /\ Upserted(S) \in [Threads -> Versions]
         /\ IndexAfter(S) \in [Tables -> [Threads -> Versions]]
         /\ version \in Versions
<1>1. version \in Versions
  BY IngestAssumption DEF TypeOK, Versions
<1> QED BY <1>1 DEF TypeOK, Upserted, IndexAfter

LEMMA FaultTypes ==
  ASSUME TypeOK, Fault
  PROVE  faults' \in 0..MAX_FAULTS
BY IngestAssumption DEF TypeOK, Fault

LEMMA BatchStarts == Init => BatchInv
<1> SUFFICES ASSUME Init PROVE BatchInv
  OBVIOUS
<1> USE IngestAssumption DEF Init
<1>1. NoRows \in [Threads -> Versions]
      /\ [t \in Threads |-> IF t \in Unparsable THEN 0 ELSE 1] \in [Threads -> Versions]
  BY DEF NoRows, Versions
<1>2. row \in [Threads -> Versions]
  BY <1>1
<1>3. schema \in [Tables -> Schemas] /\ triggers \subseteq Tables
  BY DEF Schemas, Tables
<1>4. index \in [Tables -> [Threads -> Versions]]
  BY <1>2
<1>5. TypeOK
  <2> USE <1>2, <1>3, <1>4
  <2>1. job \in [Procs -> Bulk \cup Single \cup {[kind |-> "none"]}]
    <3> DEFINE none == [kind |-> "none"]
    <3>1. job = [q \in Procs |-> none]
      OBVIOUS
    <3> HIDE DEF none
    <3>2. job \in [Procs -> Bulk \cup Single \cup {none}]
      BY <3>1
    <3> QED BY <3>2 DEF none
  <2>2. /\ version \in 1..MAX_VERSION /\ faults \in 0..MAX_FAULTS
        /\ torn \in BOOLEAN /\ blind \subseteq Threads
    <3>1. version = 1 /\ faults = 0 /\ torn = FALSE /\ blind = {}
      OBVIOUS
    <3>2. 1 \in 1..MAX_VERSION /\ 0 \in 0..MAX_FAULTS
      BY IngestAssumption
    <3> QED BY <3>1, <3>2
  <2>3. pc \in [Procs -> Places] /\ ended \in [Procs -> Outcomes]
    BY DEF Places, Outcomes
  <2> QED BY <2>1, <2>2, <2>3 DEF TypeOK
<1>6. Settled /\ DoneIsStored
  BY DEF Settled, SinglePlaces, Idle, DoneIsStored
<1> QED BY <1>5, <1>6 DEF BatchInv

-----------------------------------------------------------------------------
LEMMA BatchStep ==
  ASSUME BatchInv, NEW p \in Procs, Step(p)
  PROVE  BatchInv'
<1> USE DEF history
<1>0. TypeOK
  BY DEF BatchInv
<1>1. ASSUME NEW tab \in Tables, InitFts(p, tab)
      PROVE  BatchInv'
  <2>1. schema' \in [Tables -> Schemas]
    BY <1>0, <1>1 DEF InitFts, CreateTable, TypeOK, Schemas
  <2>2. \E place \in {"init_threads", "reset", "select"} : Goto(p, place)
    BY <1>1 DEF InitFts
  <2> PICK place \in {"init_threads", "reset", "select"} : Goto(p, place)
    BY <2>2
  <2>3. ~Idle(p) /\ job[p] \in Single
    BY <1>1 DEF InitFts, InitAt, Idle, Tables, BatchInv, Settled, SinglePlaces
  <2> QED BY <1>0, <1>1, <2>1, <2>3, IndexSteps DEF InitFts, TypeOK, Places
<1>2. CASE DropTriggers(p)
  <2> PICK place \in {"make_posts", "drop_posts"} : Goto(p, place)
    BY <1>2 DEF DropTriggers
  <2>1. ~Idle(p)
    BY <1>2 DEF DropTriggers, Idle
  <2> QED BY <1>0, <1>2, <2>1, IndexSteps DEF DropTriggers, TypeOK, Places, SinglePlaces
<1>3. ASSUME NEW tab \in Tables, MakeTriggers(p, tab)
      PROVE  BatchInv'
  <2>1. ~Idle(p) /\ triggers' \subseteq Tables
    BY <1>0, <1>3 DEF MakeTriggers, MakeAt, Idle, TypeOK, Tables
  <2>2. CASE \/ Goto(p, "make_threads") /\ UNCHANGED work
             \/ job[p].kind = "single" /\ Goto(p, "select") /\ UNCHANGED work
    <3>1. \/ Goto(p, "make_threads") /\ UNCHANGED work
          \/ Goto(p, "select") /\ UNCHANGED work /\ job[p].kind = "single"
      BY <2>2
    <3>2. job[p].kind = "single" => job[p] \in Single
      BY <1>0, SingleKind
    <3>3. CASE Goto(p, "make_threads") /\ UNCHANGED work
      BY <1>0, <1>3, <2>1, <3>3, IndexSteps DEF MakeTriggers, TypeOK, Places, SinglePlaces
    <3>4. CASE Goto(p, "select") /\ UNCHANGED work /\ job[p].kind = "single"
      BY <1>0, <1>3, <2>1, <3>2, <3>4, IndexSteps DEF MakeTriggers, TypeOK, Places
    <3> QED BY <3>1, <3>3, <3>4
  <2>3. CASE Exit(p, "done")
    <3>1. TypeOK'
      BY <1>0, <1>3, <2>1, <2>3 DEF MakeTriggers, Exit, TypeOK, Places, Outcomes
    <3>2. Settled' /\ DoneIsStored'
      BY <1>0, <1>3, <2>3 DEF MakeTriggers, Exit, TypeOK, BatchInv, Settled, SinglePlaces,
                              DoneIsStored, Idle
    <3> QED BY <3>1, <3>2 DEF BatchInv
  <2> QED BY <1>3, <2>2, <2>3 DEF MakeTriggers
<1>4. ASSUME NEW tab \in Tables, TriggersExist(p, tab)
      PROVE  BatchInv'
  <2>1. CASE job[p].kind = "single" /\ Goto(p, "select") /\ UNCHANGED work
    <3>1. ~Idle(p) /\ job[p] \in Single
      BY <1>0, <1>4, <2>1, SingleKind DEF TriggersExist, MakeAt, Idle, Tables
    <3> QED BY <1>0, <1>4, <2>1, <3>1, IndexSteps DEF TriggersExist, database, TypeOK, Places
  <2>2. CASE Exit(p, "failed")
    BY <1>0, <1>4, <2>2, ExitForgets DEF TriggersExist, TypeOK, Outcomes
  <2> QED BY <1>4, <2>1, <2>2 DEF TriggersExist
<1>5. CASE InitFails(p)
  <2>1. ~Idle(p) /\ job[p] \in Single
    BY <1>0, <1>5, SingleKind DEF InitFails, Idle
  <2>2. faults' \in 0..MAX_FAULTS
    BY <1>0, <1>5, FaultTypes DEF InitFails, TypeOK
  <2> QED BY <1>0, <1>5, <2>1, <2>2, IndexSteps DEF InitFails, database, TypeOK, Places
<1>6. ASSUME NEW tab \in Tables, DropFts(p, tab)
      PROVE  BatchInv'
  <2>1. ~Idle(p)
    BY <1>6 DEF DropFts, DropAt, Idle, Tables
  <2>2. schema' \in [Tables -> Schemas] /\ index' \in [Tables -> [Threads -> Versions]]
    BY <1>0, <1>6, IngestAssumption DEF DropFts, TypeOK, Schemas, NoRows, Versions
  <2> PICK place \in {"drop_threads", "parse"} : Goto(p, place)
    BY <1>6 DEF DropFts
  <2> QED BY <1>0, <1>6, <2>1, <2>2, IndexSteps DEF DropFts, TypeOK, Places, SinglePlaces
<1>7. CASE Select(p)
  <2>1. CASE \E how \in {"skipped", "failed"} : Exit(p, how)
    BY <1>0, <1>7, <2>1, ExitForgets DEF Select, TypeOK, Outcomes
  <2>2. CASE Goto(p, "write") /\ UNCHANGED work
    <3>1. ~Idle(p) /\ job[p] \in Single
      BY <1>7 DEF Select, Idle, BatchInv, Settled, SinglePlaces
    <3> QED BY <1>0, <1>7, <2>2, <3>1, IndexSteps DEF Select, database, TypeOK, Places
  <2> QED BY <1>7, <2>1, <2>2 DEF Select
<1>8. CASE WriteThread(p)
  <2> DEFINE t == job[p].thread
  <2>1. row' = Upserted({t}) /\ Exit(p, "done")
    BY <1>8 DEF WriteThread
  <2>2. index' \in [Tables -> [Threads -> Versions]]
    BY <1>0, <1>8, WriteTypes DEF WriteThread, TypeOK
  <2>3. TypeOK'
    <3>1. blind' \subseteq Threads
      <4>1. job[p] \in Single
        BY <1>8 DEF WriteThread, BatchInv, Settled, SinglePlaces
      <4>2. t \in Threads
        BY <4>1, IngestAssumption DEF Single
      <4> QED BY <1>0, <1>8, <4>2 DEF WriteThread, TypeOK
    <3> QED BY <1>0, <1>8, <2>1, <2>2, <3>1, WriteTypes
            DEF WriteThread, Exit, TypeOK, Places, Outcomes
  <2>4. Settled'
    BY <1>0, <2>1 DEF Exit, TypeOK, BatchInv, Settled, SinglePlaces, Idle
  <2>5. DoneIsStored'
    BY <1>0, <1>8, <2>1
       DEF WriteThread, Exit, TypeOK, BatchInv, DoneIsStored, Upserted
  <2> QED BY <2>3, <2>4, <2>5 DEF BatchInv
<1>9. CASE WriteThreadRaises(p)
  <2>1. faults' \in 0..MAX_FAULTS
    BY <1>0, <1>9, FaultTypes DEF WriteThreadRaises, TypeOK
  <2> QED BY <1>9, <2>1, ExitForgets DEF WriteThreadRaises, Outcomes
<1>10. CASE Load(p)
  <2>1. CASE Exit(p, "nothing")
    BY <1>0, <1>10, <2>1, ExitForgets DEF Load, TypeOK, Outcomes
  <2>2. CASE /\ todo' \in [Procs -> SUBSET Threads]
             /\ Goto(p, "drop_triggers")
             /\ UNCHANGED <<job, chunk, pending, done, ended>>
    <3>1. TypeOK'
      BY <1>0, <1>10, <2>2 DEF Load, Goto, database, TypeOK, Places
    <3>2. Settled' /\ DoneIsStored'
      BY <1>0, <1>10, <2>2 DEF Load, Goto, database, TypeOK, BatchInv, Settled, SinglePlaces,
                               DoneIsStored, Idle
    <3> QED BY <3>1, <3>2 DEF BatchInv
  <2> QED BY <1>0, <1>10, <2>1, <2>2 DEF Load, TypeOK
<1>11. CASE NextChunk(p)
  <2>1. TypeOK'
    BY <1>0, <1>11 DEF NextChunk, database, TypeOK
  <2>2. Settled' /\ DoneIsStored'
    BY <1>0, <1>11 DEF NextChunk, database, TypeOK, BatchInv, Settled, SinglePlaces, DoneIsStored, Idle
  <2> QED BY <2>1, <2>2 DEF BatchInv
<1>12. ASSUME NEW t \in Threads, HandleResult(p, t)
       PROVE  BatchInv'
  <2>1. /\ pc' \in [Procs -> Places] /\ pending' \in [Procs -> SUBSET Threads]
        /\ done' \in [Procs -> SUBSET Threads]
    <3>1. CASE t \in Unparsable
      BY <1>0, <1>12, <3>1 DEF HandleResult, TypeOK
    <3>2. CASE t \notin Unparsable
      <4>1. \E place \in {"flush", "parse"} : Goto(p, place)
        BY <1>12, <3>2 DEF HandleResult
      <4>2. pc' \in [Procs -> Places]
        BY <1>0, <4>1 DEF Goto, TypeOK, Places
      <4>3. /\ pending' \in [Procs -> SUBSET Threads]
            /\ done' \in [Procs -> SUBSET Threads]
        <5>1. pending[p] \cup {t} \in SUBSET Threads /\ done[p] \cup {t} \in SUBSET Threads
          BY <1>0 DEF TypeOK
        <5>2. /\ pending' = [pending EXCEPT ![p] = pending[p] \cup {t}]
              /\ done' = [done EXCEPT ![p] = done[p] \cup {t}]
          BY <1>12, <3>2 DEF HandleResult
        <5>3. pending \in [Procs -> SUBSET Threads] /\ done \in [Procs -> SUBSET Threads]
          BY <1>0 DEF TypeOK
        <5> QED BY <5>1, <5>2, <5>3
      <4> QED BY <4>2, <4>3
    <3> QED BY <3>1, <3>2
  <2>2. TypeOK'
    BY <1>0, <1>12, <2>1 DEF HandleResult, database, TypeOK
  <2>3. Settled'
    BY <1>0, <1>12 DEF HandleResult, Goto, TypeOK, BatchInv, Settled, SinglePlaces, Idle
  <2>4. DoneIsStored'
    BY <1>0, <1>12 DEF HandleResult, Goto, database, TypeOK, BatchInv, DoneIsStored
  <2> QED BY <2>2, <2>3, <2>4 DEF BatchInv
<1>13. CASE EndChunk(p)
  <2> PICK place \in {"flush_chunk", "flush_last"} : Goto(p, place)
    BY <1>13 DEF EndChunk
  <2>1. ~Idle(p)
    BY <1>13 DEF EndChunk, Idle
  <2> QED BY <1>0, <1>13, <2>1, IndexSteps DEF EndChunk, database, TypeOK, Places, SinglePlaces
<1>14. CASE Flush(p)
  <2>1. TypeOK'
    <3>1. /\ pc' \in [Procs -> Places] /\ pending' \in [Procs -> SUBSET Threads]
          /\ index' \in [Tables -> [Threads -> Versions]]
          /\ row' \in [Threads -> Versions]
      BY <1>0, <1>14, WriteTypes DEF Flush, Goto, TypeOK, Places
    <3> QED BY <1>0, <1>14, <3>1 DEF Flush, TypeOK
  <2>2. Settled'
    BY <1>0, <1>14 DEF Flush, Goto, TypeOK, BatchInv, Settled, SinglePlaces, Idle
  <2>3. DoneIsStored'
    BY <1>0, <1>14 DEF Flush, Goto, TypeOK, BatchInv, DoneIsStored, Upserted
  <2> QED BY <2>1, <2>2, <2>3 DEF BatchInv
<1>15. CASE FlushKept(p) \/ FlushFatal(p)
  <2>1. faults' \in 0..MAX_FAULTS
    BY <1>0, <1>15, FaultTypes DEF FlushKept, FlushFatal, FlushRaises, TypeOK
  <2>2. CASE FlushKept(p)
    <3>1. ~Idle(p)
      BY <2>2 DEF FlushKept, Idle
    <3> QED BY <1>0, <2>1, <2>2, <3>1, IndexSteps DEF FlushKept, database, TypeOK, Places, SinglePlaces
  <2>3. CASE FlushFatal(p)
    BY <2>1, <2>3, ExitForgets DEF FlushFatal, Outcomes
  <2> QED BY <1>15, <2>2, <2>3
<1>16. ASSUME NEW tab \in Tables, CreateFts(p, tab)
       PROVE  BatchInv'
  <2>1. schema' \in [Tables -> Schemas]
    BY <1>0, <1>16 DEF CreateFts, CreateTable, TypeOK, Schemas
  <2>2. pc[p] \in {"create_posts", "create_threads"}
    BY <1>16 DEF CreateFts, CreateAt, Tables
  <2>3. TypeOK'
    BY <1>0, <1>16, <2>1 DEF CreateFts, Goto, work, TypeOK, Places
  <2>4. Settled' /\ DoneIsStored'
    BY <1>0, <1>16, <2>2 DEF CreateFts, Goto, work, TypeOK, BatchInv, Settled, SinglePlaces,
                             DoneIsStored, Idle
  <2> QED BY <2>3, <2>4 DEF BatchInv
<1>17. CASE Rebuild(p)
  <2>1. ~Idle(p)
    BY <1>17 DEF Rebuild, Idle
  <2> QED BY <1>0, <1>17, <2>1, IndexSteps DEF Rebuild, TypeOK, Places, SinglePlaces
<1>18. CASE RebuildRaises(p)
  BY <1>0, <1>18, ExitForgets DEF RebuildRaises, TypeOK, Outcomes
<1> QED BY <1>1, <1>2, <1>3, <1>4, <1>5, <1>6, <1>7, <1>8, <1>9, <1>10, <1>11, <1>12,
           <1>13, <1>14, <1>15, <1>16, <1>17, <1>18 DEF Step

LEMMA BatchNext == BatchInv /\ [Next]_vars => BatchInv'
<1> SUFFICES ASSUME BatchInv, [Next]_vars PROVE BatchInv'
  OBVIOUS
<1> USE DEF history
<1>0. TypeOK
  BY DEF BatchInv
<1>1. ASSUME NEW p \in Procs, NEW j, NEW place \in {"init_posts", "load"},
             j \in Bulk \cup Single, place = "init_posts" => j \in Single, Idle(p),
             pc' = [pc EXCEPT ![p] = place], job' = [job EXCEPT ![p] = j],
             UNCHANGED <<database, todo, chunk, pending, done, ended, version, faults, history>>
      PROVE  BatchInv'
  <2>1. TypeOK'
    BY <1>0, <1>1 DEF TypeOK, Places, database
  <2>2. Settled' /\ DoneIsStored'
    BY <1>0, <1>1 DEF TypeOK, BatchInv, Settled, SinglePlaces, DoneIsStored, Idle, database
  <2> QED BY <2>1, <2>2 DEF BatchInv
<1>2. ASSUME NEW p \in Procs, NEW j \in Single, StartSingle(p, j)
      PROVE  BatchInv'
  BY <1>1, <1>2 DEF StartSingle
<1>3. ASSUME NEW p \in Procs, NEW j \in Bulk, StartBulk(p, j)
      PROVE  BatchInv'
  BY <1>1, <1>3 DEF StartBulk
<1>4. ASSUME NEW p \in Procs, Crash(p)
      PROVE  BatchInv'
  BY <1>0, <1>4, FaultTypes, ExitForgets DEF Crash, Outcomes
<1>5. CASE NewVersion
  <2>1. TypeOK'
    BY <1>0, <1>5, IngestAssumption DEF NewVersion, database, command, TypeOK
  <2>2. Settled' /\ DoneIsStored'
    BY <1>0, <1>5 DEF NewVersion, Quiet, database, command, BatchInv, Settled, SinglePlaces,
                      DoneIsStored, Idle
  <2> QED BY <2>1, <2>2 DEF BatchInv
<1>6. CASE UNCHANGED vars
  BY <1>6 DEF vars, database, command, BatchInv, TypeOK, Settled, DoneIsStored, Idle
<1> QED BY <1>2, <1>3, <1>4, <1>5, <1>6, BatchStep DEF Next

\* The invariant of the batches: types, and what is counted as done.
THEOREM BatchInvariant == Spec => []BatchInv
BY BatchStarts, BatchNext, PTL DEF Spec

\* Every step of scripts/thread_parser.py keeps the types of the database and of
\* what its commands hold in memory.
THEOREM IngestTypes == Spec => []TypeOK
<1>1. BatchInv => TypeOK
  BY DEF BatchInv
<1> QED BY <1>1, BatchInvariant, PTL

\* run_concurrent_migration: a thread counted as done is stored or in the batch
\* that is still to be flushed, with any number of commands at once.
THEOREM CountedIsStored == Spec => []DoneIsStored
<1>1. BatchInv => DoneIsStored
  BY DEF BatchInv
<1> QED BY <1>1, BatchInvariant, PTL

-----------------------------------------------------------------------------
(* The full-text tables, with one command at a time.                        *)

OneProcess == \A p, q \in Procs : p = q

\* From the drop of the second table to the rebuild no trigger exists and both
\* full-text tables are empty.
Dark == {"parse", "flush", "flush_chunk", "flush_last",
         "create_posts", "create_threads", "rebuild"}

Stage(p) ==
  /\ pc[p] = "make_posts" => triggers = {}
  /\ pc[p] = "make_threads" => triggers = {"posts"}
  /\ pc[p] \in {"drop_posts", "drop_threads"} \cup Dark => triggers = {}
  /\ pc[p] = "drop_threads" => torn /\ schema["posts"] = "none"
  /\ pc[p] \in Dark => torn /\ \A tab \in Tables : index[tab] = NoRows

\* The old layout is dropped posts first.  A table that is not there holds
\* nothing; untorn, the others hold every row not written blindly.
Intact ==
  /\ schema["posts"] = "standalone" => schema["threads"] = "standalone"
  /\ \A tab \in Tables : schema[tab] = "none" => index[tab] = NoRows
  /\ ~torn => \A tab \in Tables, t \in Threads \ blind : index[tab][t] = row[t]

Sound == \A tab \in Tables, t \in Threads \ blind : index[tab][t] \in {0, row[t]}

IndexInv == (\A p \in Procs : Stage(p)) /\ Intact /\ Sound

\* A step that leaves the database alone only has to fit its new place.
LEMMA SameDatabase ==
  ASSUME OneProcess, IndexInv, NEW p \in Procs, UNCHANGED <<database, history>>, Stage(p)'
  PROVE  IndexInv'
<1> USE DEF history
<1>1. \A q \in Procs : Stage(q)'
  BY DEF OneProcess
<1>2. Intact' /\ Sound'
  BY DEF IndexInv, Intact, Sound, database
<1> QED BY <1>1, <1>2 DEF IndexInv

LEMMA ExitStage ==
  ASSUME TypeOK, NEW p \in Procs, NEW how, Exit(p, how)
  PROVE  Stage(p)'
<1>1. pc'[p] = "idle"
  BY DEF Exit, TypeOK
<1> QED BY <1>1 DEF Stage, Dark

LEMMA GotoPlace ==
  ASSUME TypeOK, NEW p \in Procs, NEW place, Goto(p, place)
  PROVE  pc'[p] = place
BY DEF TypeOK, Goto

\* A new full-text table is empty: it was not there and held nothing before.
LEMMA CreateTableSound ==
  ASSUME TypeOK, IndexInv, NEW tab \in Tables, CreateTable(tab),
         UNCHANGED <<row, triggers, index, history>>
  PROVE  Intact' /\ Sound'
<1> USE DEF history
<1>1. /\ schema'[tab] # "none"
      /\ \A other \in Tables : other # tab => schema'[other] = schema[other]
      /\ schema[tab] # "none" => schema'[tab] = schema[tab]
      /\ schema[tab] = "none" => schema'[tab] = "external"
  BY DEF TypeOK, CreateTable
<1>2. "posts" \in Tables /\ "threads" \in Tables
  BY DEF Tables
<1>3. Intact'
  BY <1>1, <1>2 DEF IndexInv, Intact, history
<1>4. Sound'
  BY DEF IndexInv, Sound, history
<1> QED BY <1>3, <1>4

\* While no full-text table holds anything, rows may change.
LEMMA DarkWrites ==
  ASSUME TypeOK, IndexInv, torn, NEW S,
         \A tab \in Tables : index[tab] = NoRows, triggers = {},
         row' = Upserted(S), index' = IndexAfter(S), UNCHANGED <<schema, triggers, history>>
  PROVE  /\ Intact' /\ Sound'
         /\ \A tab \in Tables : index'[tab] = NoRows
<1> USE DEF history
<1>1. \A tab \in Tables : index'[tab] = NoRows
  <2> SUFFICES ASSUME NEW tab \in Tables PROVE index'[tab] = NoRows
    OBVIOUS
  <2>1. index'[tab] = [t \in Threads |-> index[tab][t]]
    BY DEF IndexAfter
  <2> QED BY <2>1 DEF TypeOK, NoRows
<1>2. Intact'
  BY <1>1 DEF IndexInv, Intact
<1>3. Sound'
  BY <1>1 DEF Sound, NoRows
<1> QED BY <1>1, <1>2, <1>3

\* A single thread is written to the row and, unless the write is blind, to
\* both tables.
LEMMA WriteSound ==
  ASSUME TypeOK, IndexInv, NEW t, row' = Upserted({t}),
         blind' = IF Followed THEN blind ELSE blind \cup {t},
         UNCHANGED <<schema, torn>>,
         \A tab \in Tables :
           /\ index'[tab] \in [Threads -> Versions]
           /\ \A u \in Threads : u # t => index'[tab][u] = index[tab][u]
           /\ Followed /\ t \in Threads => index'[tab][t] = version
           /\ schema[tab] = "none" => index'[tab] = index[tab]
  PROVE  Intact' /\ Sound'
<1>1. \A u \in Threads : row'[u] = IF u = t THEN version ELSE row[u]
  BY DEF TypeOK, Upserted
<1>2. \A tab \in Tables, u \in Threads \ blind' :
        /\ u \notin blind
        /\ \/ index'[tab][u] = row'[u]
           \/ index'[tab][u] = index[tab][u] /\ row'[u] = row[u]
  BY <1>1
<1>3. Intact'
  <2>1. schema["posts"] = "standalone" => schema["threads"] = "standalone"
    BY DEF IndexInv, Intact
  <2>2. \A tab \in Tables : schema[tab] = "none" => index'[tab] = NoRows
    BY DEF IndexInv, Intact
  <2>3. ~torn => \A tab \in Tables, u \in Threads \ blind' : index'[tab][u] = row'[u]
    <3> SUFFICES ASSUME ~torn, NEW tab \in Tables, NEW u \in Threads \ blind'
                 PROVE  index'[tab][u] = row'[u]
      OBVIOUS
    <3>1. u \notin blind => index[tab][u] = row[u]
      BY DEF IndexInv, Intact
    <3> QED BY <1>2, <3>1
  <2> QED BY <2>1, <2>2, <2>3 DEF Intact
<1>4. Sound'
  BY <1>2 DEF IndexInv, Sound
<1> QED BY <1>3, <1>4

LEMMA IndexStarts == Init => IndexInv
<1> SUFFICES ASSUME Init PROVE IndexInv
  OBVIOUS
<1>1. \A p \in Procs : Stage(p)
  BY DEF Init, Stage, Dark
<1>2. Intact
  <2>1. \A tab \in Tables : index[tab] = row
    BY DEF Init
  <2>2. \A tab \in Tables : schema[tab] = "none" => row = NoRows
    BY DEF Init
  <2>3. schema["posts"] = "standalone" => schema["threads"] = "standalone"
    BY DEF Init, Tables
  <2> QED BY <2>1, <2>2, <2>3 DEF Intact
<1>3. Sound
  BY DEF Init, Sound
<1> QED BY <1>1, <1>2, <1>3 DEF IndexInv

-----------------------------------------------------------------------------
LEMMA IndexStep ==
  ASSUME OneProcess, TypeOK, IndexInv, NEW p \in Procs, Step(p)
  PROVE  IndexInv'
<1> USE DEF history
<1>0. Stage(p) /\ Intact /\ Sound
  BY DEF IndexInv
<1>a. ASSUME Stage(p)', Intact', Sound'
      PROVE  IndexInv'
  BY <1>a DEF OneProcess, IndexInv
<1>1. ASSUME NEW tab \in Tables, InitFts(p, tab)
      PROVE  IndexInv'
  <2>1. Intact' /\ Sound'
    BY <1>1, CreateTableSound DEF InitFts
  <2>2. pc'[p] \in {"init_threads", "reset", "select"}
    BY <1>1, GotoPlace DEF InitFts
  <2>3. Stage(p)'
    BY <2>2 DEF Stage, Dark
  <2> QED BY <1>a, <2>1, <2>3
<1>2. CASE DropTriggers(p)
  <2>1. Intact' /\ Sound'
    BY <1>0, <1>2 DEF DropTriggers, Intact, Sound
  <2>2. \/ pc[p] = "reset" /\ pc'[p] = "make_posts"
        \/ pc'[p] = "drop_posts"
    BY <1>2, GotoPlace DEF DropTriggers
  <2>3. Stage(p)'
    BY <1>0, <1>2, <2>2 DEF DropTriggers, Stage, Dark
  <2> QED BY <1>a, <2>1, <2>3
<1>3. ASSUME NEW tab \in Tables, MakeTriggers(p, tab)
      PROVE  IndexInv'
  <2>1. Intact' /\ Sound'
    BY <1>0, <1>3 DEF MakeTriggers, Intact, Sound
  <2>2. CASE tab = "posts"
    <3>1. pc[p] = "make_posts" /\ pc'[p] = "make_threads"
      BY <1>3, <2>2, GotoPlace DEF MakeTriggers, MakeAt
    <3>2. Stage(p)'
      BY <1>0, <1>3, <2>2, <3>1 DEF MakeTriggers, Stage, Dark
    <3> QED BY <1>a, <2>1, <3>2
  <2>3. CASE tab = "threads"
    <3>1. pc[p] = "make_threads" /\ triggers' = Tables
      BY <1>0, <1>3, <2>3 DEF MakeTriggers, MakeAt, Stage, Tables
    <3>2. pc'[p] = "select" \/ Exit(p, "done")
      BY <1>3, <2>3, GotoPlace DEF MakeTriggers
    <3>3. CASE pc'[p] = "select"
      <4>1. Stage(p)'
        BY <1>0, <1>3, <3>1, <3>3 DEF MakeTriggers, Stage, Dark
      <4> QED BY <1>a, <2>1, <4>1
    <3> QED BY <1>a, <2>1, <3>2, <3>3, ExitStage
  <2> QED BY <2>2, <2>3 DEF Tables
<1>4. ASSUME NEW tab \in Tables, TriggersExist(p, tab)
      PROVE  IndexInv'
  <2>1. tab \notin triggers
    BY <1>0, <1>4 DEF TriggersExist, MakeAt, Stage, Tables
  <2> QED BY <1>4, <2>1 DEF TriggersExist
<1>5. CASE InitFails(p)
  <2>1. pc'[p] = "select"
    BY <1>5, GotoPlace DEF InitFails
  <2>2. Stage(p)'
    BY <2>1 DEF Stage, Dark
  <2> QED BY <1>5, <2>2, SameDatabase DEF InitFails
<1>6. ASSUME NEW tab \in Tables, DropFts(p, tab)
      PROVE  IndexInv'
  <2>1. \A other \in Tables : index'[other] = IF other = tab THEN NoRows ELSE index[other]
    BY <1>6 DEF DropFts, TypeOK
  <2>2. \A other \in Tables : other # tab => schema'[other] = schema[other]
    BY <1>6 DEF DropFts, TypeOK
  <2>3. Intact'
    <3>1. schema'["posts"] # "standalone"
      <4>1. CASE tab = "posts"
        BY <1>6, <4>1 DEF DropFts, TypeOK
      <4>2. CASE tab = "threads"
        BY <1>0, <1>6, <2>2, <4>2 DEF DropFts, DropAt, Stage, Tables
      <4> QED BY <4>1, <4>2 DEF Tables
    <3> QED BY <1>0, <1>6, <2>1, <2>2, <3>1 DEF DropFts, Intact
  <2>4. Sound'
    BY <1>0, <1>6, <2>1 DEF DropFts, Sound, NoRows
  <2>5. CASE tab = "posts"
    <3>1. pc'[p] = "drop_threads" /\ pc[p] = "drop_posts"
      BY <1>6, <2>5, GotoPlace DEF DropFts, DropAt
    <3>2. schema'["posts"] = "none"
      BY <1>6, <2>5 DEF DropFts, TypeOK
    <3>3. Stage(p)'
      BY <1>0, <1>6, <3>1, <3>2 DEF DropFts, Stage, Dark
    <3> QED BY <1>a, <2>3, <2>4, <3>3
  <2>6. CASE tab = "threads"
    <3>1. pc'[p] = "parse" /\ pc[p] = "drop_threads"
      BY <1>6, <2>6, GotoPlace DEF DropFts, DropAt
    <3>2. \A other \in Tables : index'[other] = NoRows
      <4>1. index["posts"] = NoRows
        BY <1>0, <3>1 DEF Stage, Intact, Tables
      <4> QED BY <2>1, <2>6, <4>1 DEF Tables
    <3>3. Stage(p)'
      BY <1>0, <1>6, <3>1, <3>2 DEF DropFts, Stage, Dark
    <3> QED BY <1>a, <2>3, <2>4, <3>3
  <2> QED BY <2>5, <2>6 DEF Tables
<1>7. CASE Select(p)
  <2>1. pc'[p] = "write" \/ Stage(p)'
    BY <1>7, GotoPlace, ExitStage DEF Select
  <2>2. pc'[p] = "write" => Stage(p)'
    BY <1>0, <1>7 DEF Select, database, Stage, Dark
  <2> QED BY <1>7, <2>1, <2>2, SameDatabase DEF Select
<1>8. CASE WriteThread(p)
  <2> DEFINE t == job[p].thread
  <2>1. /\ row' = Upserted({t}) /\ UNCHANGED <<schema, torn>>
        /\ blind' = IF Followed THEN blind ELSE blind \cup {t}
        /\ TriggersWork /\ Exit(p, "done")
    BY <1>8 DEF WriteThread, Writable
  <2>2. ASSUME NEW tab \in Tables
        PROVE  /\ index'[tab] \in [Threads -> Versions]
               /\ \A u \in Threads : u # t => index'[tab][u] = index[tab][u]
               /\ Followed /\ t \in Threads => index'[tab][t] = version
               /\ schema[tab] = "none" => index'[tab] = index[tab]
    <3>0. index[tab] \in [Threads -> Versions] /\ version \in Versions
      BY WriteTypes DEF TypeOK
    <3>1. CASE schema["posts"] = "standalone"
      <4>1. index'[tab] = [index[tab] EXCEPT ![t] = version]
        BY <1>8, <3>1 DEF WriteThread
      <4>2. schema[tab] # "none"
        BY <1>0, <3>1 DEF Intact, Tables
      <4> QED BY <3>0, <4>1, <4>2
    <3>2. CASE schema["posts"] # "standalone"
      <4>1. index'[tab] = [u \in Threads |->
                             IF u = t /\ tab \in triggers THEN version ELSE index[tab][u]]
        BY <1>8, <3>2 DEF WriteThread, IndexAfter
      <4>2. schema[tab] = "none" => tab \notin triggers
        BY <2>1 DEF TriggersWork
      <4>3. Followed => tab \in triggers
        BY <3>2 DEF Followed
      <4>4. tab \notin triggers => index'[tab] = index[tab]
        BY <3>0, <4>1
      <4> HIDE DEF t
      <4> QED BY <3>0, <4>1, <4>2, <4>3, <4>4
    <3> QED BY <3>1, <3>2
  <2> HIDE DEF t
  <2>3. Intact' /\ Sound'
    BY <2>1, <2>2, WriteSound
  <2> QED BY <1>a, <2>1, <2>3, ExitStage
<1>9. CASE WriteThreadRaises(p)
  BY <1>9, ExitStage, SameDatabase DEF WriteThreadRaises
<1>10. CASE Load(p)
  <2>1. pc'[p] = "drop_triggers" \/ Stage(p)'
    BY <1>10, GotoPlace, ExitStage DEF Load
  <2>2. pc'[p] = "drop_triggers" => Stage(p)'
    BY DEF Stage, Dark
  <2> QED BY <1>10, <2>1, <2>2, SameDatabase DEF Load
<1>11. CASE NextChunk(p)
  <2>1. Stage(p)'
    BY <1>0, <1>11 DEF NextChunk, database, Stage
  <2> QED BY <1>11, <2>1, SameDatabase DEF NextChunk
<1>12. ASSUME NEW t \in Threads, HandleResult(p, t)
       PROVE  IndexInv'
  <2>1. pc[p] = "parse" /\ pc'[p] \in {"parse", "flush"}
    BY <1>12, GotoPlace DEF HandleResult
  <2>2. Stage(p)'
    BY <1>0, <1>12, <2>1 DEF HandleResult, database, Stage, Dark
  <2> QED BY <1>12, <2>2, SameDatabase DEF HandleResult
<1>13. CASE EndChunk(p)
  <2>1. pc[p] = "parse" /\ pc'[p] \in {"flush_chunk", "flush_last"}
    BY <1>13, GotoPlace DEF EndChunk
  <2>2. Stage(p)'
    BY <1>0, <1>13, <2>1 DEF EndChunk, database, Stage, Dark
  <2> QED BY <1>13, <2>2, SameDatabase DEF EndChunk
<1>14. CASE Flush(p)
  <2>1. /\ pc[p] \in Dark /\ pc'[p] \in Dark /\ pc'[p] \in {"create_posts", "parse"}
    BY <1>14, GotoPlace DEF Flush, Dark
  <2>2. torn /\ triggers = {} /\ \A tab \in Tables : index[tab] = NoRows
    BY <1>0, <2>1 DEF Stage
  <2>3. Intact' /\ Sound' /\ \A tab \in Tables : index'[tab] = NoRows
    BY <1>14, <2>2, DarkWrites DEF Flush
  <2>4. Stage(p)'
    BY <1>14, <2>1, <2>2, <2>3 DEF Flush, Stage, Dark
  <2> QED BY <1>a, <2>3, <2>4
<1>15. CASE FlushKept(p)
  <2>1. pc[p] = "flush" /\ pc'[p] = "parse"
    BY <1>15, GotoPlace DEF FlushKept
  <2>2. Stage(p)'
    BY <1>0, <1>15, <2>1 DEF FlushKept, database, Stage, Dark
  <2> QED BY <1>15, <2>2, SameDatabase DEF FlushKept
<1>16. CASE FlushFatal(p)
  BY <1>16, ExitStage, SameDatabase DEF FlushFatal
<1>17. ASSUME NEW tab \in Tables, CreateFts(p, tab)
       PROVE  IndexInv'
  <2>1. Intact' /\ Sound'
    BY <1>17, CreateTableSound DEF CreateFts
  <2>2. pc[p] \in Dark /\ pc'[p] \in {"create_threads", "rebuild"}
    BY <1>17, GotoPlace DEF CreateFts, CreateAt, Dark, Tables
  <2>3. Stage(p)'
    BY <1>0, <1>17, <2>2 DEF CreateFts, Stage, Dark
  <2> QED BY <1>a, <2>1, <2>3
<1>18. CASE Rebuild(p)
  <2>1. \A tab \in Tables : index'[tab] = row /\ schema[tab] = "external"
    BY <1>18 DEF Rebuild
  <2>2. pc'[p] = "make_posts"
    BY <1>18, GotoPlace DEF Rebuild
  <2>3. Intact' /\ Sound'
    BY <1>18, <2>1 DEF Rebuild, Intact, Sound, Tables
  <2>4. Stage(p)'
    BY <1>18, <2>1, <2>2 DEF Rebuild, Stage, Dark
  <2> QED BY <1>a, <2>3, <2>4
<1>19. CASE RebuildRaises(p)
  BY <1>19, ExitStage, SameDatabase DEF RebuildRaises
<1> QED BY <1>1, <1>2, <1>3, <1>4, <1>5, <1>6, <1>7, <1>8, <1>9, <1>10, <1>11, <1>12, <1>13,
           <1>14, <1>15, <1>16, <1>17, <1>18, <1>19 DEF Step

LEMMA IndexNext ==
  ASSUME OneProcess, TypeOK, IndexInv, [Next]_vars
  PROVE  IndexInv'
<1> USE DEF history
<1>1. ASSUME NEW p \in Procs, pc'[p] \in {"init_posts", "load"}, UNCHANGED <<database, history>>
      PROVE  IndexInv'
  <2>1. Stage(p)'
    BY <1>1 DEF Stage, Dark
  <2> QED BY <1>1, <2>1, SameDatabase
<1>2. ASSUME NEW p \in Procs, NEW j, StartSingle(p, j) \/ StartBulk(p, j)
      PROVE  IndexInv'
  <2>1. pc'[p] \in {"init_posts", "load"} /\ UNCHANGED <<database, history>>
    BY <1>2 DEF StartSingle, StartBulk, TypeOK
  <2> QED BY <1>1, <2>1
<1>3. ASSUME NEW p \in Procs, Crash(p)
      PROVE  IndexInv'
  BY <1>3, ExitStage, SameDatabase DEF Crash
<1>4. CASE NewVersion \/ UNCHANGED vars
  <2>1. UNCHANGED <<row, schema, triggers, index, pc, torn, blind>>
    BY <1>4 DEF NewVersion, vars, database, command
  <2> QED BY <2>1 DEF IndexInv, Stage, Intact, Sound
<1> QED BY <1>2, <1>3, <1>4, IndexStep DEF Next

\* The invariant of the full-text tables, with one command at a time.
THEOREM IndexInvariant ==
  ASSUME OneProcess
  PROVE  Spec => []IndexInv
<1>1. TypeOK /\ IndexInv /\ [Next]_vars => IndexInv'
  BY IndexNext
<1> QED BY <1>1, IndexStarts, IngestTypes, PTL DEF Spec

\* The triggers, the rebuild and update_fts_for_thread together: what a search
\* finds of a thread is the text of its row, after any crash, rerun or failed
\* write, unless the thread was written after init_db had swallowed an error and
\* no rebuild has followed.
THEOREM SearchFindsRows ==
  ASSUME OneProcess
  PROVE  Spec => []IndexSound
<1>1. TypeOK /\ IndexInv => IndexSound
  BY DEF IndexInv, Sound, IndexSound, Found
<1> QED BY <1>1, IndexInvariant, IngestTypes, PTL

\* Since the last rebuild, only a bulk run that died between its drop and its
\* rebuild, or a write after a swallowed error of init_db, leaves a thread's text
\* out of the full-text tables; the second does so for its own thread alone.
THEOREM CrashesKeepIndex ==
  ASSUME OneProcess
  PROVE  Spec => []IntactUnlessTorn
<1>1. IndexInv => IntactUnlessTorn
  <2> SUFFICES ASSUME IndexInv, ~torn, NEW tab \in Tables, NEW t \in Threads \ blind
               PROVE  Found(tab, t) = row[t]
    BY DEF IntactUnlessTorn
  <2>1. index[tab][t] = row[t]
    BY DEF IndexInv, Intact
  <2>2. schema[tab] = "none" => index[tab][t] = 0
    BY DEF IndexInv, Intact, NoRows
  <2> QED BY <2>1, <2>2 DEF Found
<1> QED BY <1>1, IndexInvariant, PTL
=============================================================================
