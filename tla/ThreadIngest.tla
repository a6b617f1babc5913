---------------------------- MODULE ThreadIngest ----------------------------
(***************************************************************************)
(* scripts/thread_parser.py: the commands that fill threads.db, and the    *)
(* two full-text tables that must follow its rows.                         *)
(*                                                                         *)
(* A process runs one command at a time: a bulk run over the archive (from *)
(* the ZIP or from folders, resuming or overwriting) or a run for a single *)
(* thread.  Each step is one SQLite transaction, as Python's sqlite3       *)
(* delimits them: an INSERT opens one, a CREATE or DROP outside one commits *)
(* by itself, executescript commits what is open.  A command can die       *)
(* between any two steps.                                                  *)
(*                                                                         *)
(* A thread and its posts are written together, so one number stands for   *)
(* them: the version of the parse that produced the row, 0 for no row.     *)
(***************************************************************************)
EXTENDS Integers, FiniteSets

CONSTANTS
  Procs,
  Threads,       \* the thread ids of the archive
  Unparsable,    \* those whose pages raise in the parser
  Sources,       \* the bulk sources of this instance: "zip", "folders"
  Singles,       \* the threads asked for with --thread
  BATCH,         \* write_batch_size
  CHUNK,         \* chunk_size
  MAX_VERSION,   \* bound: how often parser or archive change, plus one
  MAX_FAULTS     \* bound: crashes and failing writes

ASSUME IngestAssumption ==
  /\ Unparsable \subseteq Threads
  /\ Singles \subseteq Threads
  /\ Sources \subseteq {"zip", "folders"}
  /\ BATCH \in Nat \ {0}
  /\ CHUNK \in Nat \ {0}
  /\ MAX_VERSION \in Nat \ {0}
  /\ MAX_FAULTS \in Nat

VARIABLES
  row,       \* row[t]: the version of thread t and its posts, 0 when absent
  schema,    \* schema[tab]: how the full-text table is declared, if at all
  triggers,  \* the tables whose ai, ad and au triggers exist
  index,     \* index[tab][t]: the version the full-text table holds of t
  pc, job, todo, chunk, pending,   \* the command of each process
  done,      \* done[p]: the threads its bulk run counts as done
  ended,     \* how the last command of the process ended
  version,   \* the version a parse produces now
  faults,
  torn,      \* history: a bulk run dropped the tables, none has rebuilt them
  blind      \* history: threads written while a trigger was missing, since then

database == <<row, schema, triggers, index>>
command  == <<pc, job, todo, chunk, pending, done, ended>>
history  == <<torn, blind>>
vars     == <<database, command, version, faults, history>>

-----------------------------------------------------------------------------
Tables   == {"posts", "threads"}       \* fts_posts, fts_threads
Schemas  == {"none", "external", "standalone"}
Versions == 0..MAX_VERSION
NoRows   == [t \in Threads |-> 0]

Bulk   == [kind : Sources, overwrite : BOOLEAN]
Single == [kind : {"single"}, overwrite : BOOLEAN, thread : Singles]

\* The step that works on one of the two tables.
InitAt   == [posts |-> "init_posts",   threads |-> "init_threads"]
MakeAt   == [posts |-> "make_posts",   threads |-> "make_threads"]
DropAt   == [posts |-> "drop_posts",   threads |-> "drop_threads"]
CreateAt == [posts |-> "create_posts", threads |-> "create_threads"]

Places == {"idle", "init_posts", "init_threads", "reset", "make_posts", "make_threads",
           "select", "write", "load", "drop_triggers", "drop_posts", "drop_threads",
           "parse", "flush", "flush_chunk", "flush_last",
           "create_posts", "create_threads", "rebuild"}

Outcomes == {"none", "done", "skipped", "nothing", "failed", "crashed"}

TypeOK ==
  /\ row \in [Threads -> Versions]
  /\ schema \in [Tables -> Schemas]
  /\ triggers \subseteq Tables
  /\ index \in [Tables -> [Threads -> Versions]]
  /\ pc \in [Procs -> Places]
  /\ job \in [Procs -> Bulk \cup Single \cup {[kind |-> "none"]}]
  /\ todo \in [Procs -> SUBSET Threads]
  /\ chunk \in [Procs -> SUBSET Threads]
  /\ pending \in [Procs -> SUBSET Threads]
  /\ done \in [Procs -> SUBSET Threads]
  /\ ended \in [Procs -> Outcomes]
  /\ version \in 1..MAX_VERSION
  /\ faults \in 0..MAX_FAULTS
  /\ torn \in BOOLEAN
  /\ blind \subseteq Threads

Idle(p) == pc[p] = "idle"
Quiet   == \A p \in Procs : Idle(p)

\* A new database, one that is complete, or one of the old layout, whose
\* full-text tables keep their own copy of the text and have no triggers.
Init ==
  /\ row \in {NoRows, [t \in Threads |-> IF t \in Unparsable THEN 0 ELSE 1]}
  /\ \/ schema = [tab \in Tables |-> "none"] /\ triggers = {} /\ row = NoRows
     \/ schema = [tab \in Tables |-> "external"] /\ triggers = Tables
     \/ schema = [tab \in Tables |-> "standalone"] /\ triggers = {}
  /\ index = [tab \in Tables |-> row]
  /\ pc = [p \in Procs |-> "idle"]
  /\ job = [p \in Procs |-> [kind |-> "none"]]
  /\ todo = [p \in Procs |-> {}]
  /\ chunk = [p \in Procs |-> {}]
  /\ pending = [p \in Procs |-> {}]
  /\ done = [p \in Procs |-> {}]
  /\ ended = [p \in Procs |-> "none"]
  /\ version = 1
  /\ faults = 0
  /\ torn = FALSE
  /\ blind = {}

-----------------------------------------------------------------------------
Goto(p, place) == pc' = [pc EXCEPT ![p] = place]

\* The process of p ends; what it held in memory is gone.
Exit(p, how) ==
  /\ pc' = [pc EXCEPT ![p] = "idle"]
  /\ job' = [job EXCEPT ![p] = [kind |-> "none"]]
  /\ todo' = [todo EXCEPT ![p] = {}]
  /\ chunk' = [chunk EXCEPT ![p] = {}]
  /\ pending' = [pending EXCEPT ![p] = {}]
  /\ done' = [done EXCEPT ![p] = {}]
  /\ ended' = [ended EXCEPT ![p] = how]

work == <<job, todo, chunk, pending, done, ended>>

Fault == faults < MAX_FAULTS /\ faults' = faults + 1

\* The au trigger replaces the old document, the ai trigger adds one.  A post
\* that a later parse no longer yields keeps its row and its document: the
\* version is that of the posts the last parse did yield.
Upserted(S) == [t \in Threads |-> IF t \in S THEN version ELSE row[t]]

\* Bug: without the au trigger a document is added but never replaced.
IndexAddedOnly(S) ==
  [tab \in Tables |-> [t \in Threads |->
     IF t \in S /\ tab \in triggers /\ row[t] = 0 THEN version ELSE index[tab][t]]]

IndexAfter(S) ==
  [tab \in Tables |-> [t \in Threads |->
     IF t \in S /\ tab \in triggers THEN version ELSE index[tab][t]]]

\* A trigger that inserts into a table that is gone raises.
TriggersWork == \A tab \in triggers : schema[tab] # "none"

\* So does FTS5's 'delete' command on a table with its own copy of the text.
DeletesWork(S) == \A tab \in triggers, t \in S : schema[tab] = "standalone" => row[t] = 0

\* FTS5 may or may not notice the deletion of a document it does not hold, and
\* a copied rowid may clash in a table with rowids of its own.
MayRaise(S) == \E tab \in triggers, t \in S :
  schema[tab] = "standalone" \/ (row[t] # 0 /\ index[tab][t] # row[t])

Writable(S) == TriggersWork /\ DeletesWork(S)

-----------------------------------------------------------------------------
(* init_db and the tables and triggers it shares with the bulk run.         *)

StartSingle(p, j) ==
  /\ Idle(p)
  /\ pc' = [pc EXCEPT ![p] = "init_posts"]
  /\ job' = [job EXCEPT ![p] = j]
  /\ UNCHANGED <<database, todo, chunk, pending, done, ended, version, faults, history>>

StartBulk(p, j) ==
  /\ Idle(p)
  /\ pc' = [pc EXCEPT ![p] = "load"]
  /\ job' = [job EXCEPT ![p] = j]
  /\ UNCHANGED <<database, todo, chunk, pending, done, ended, version, faults, history>>

\* Bug: content='' in place of content='posts'.
CreateTableCopying(tab) ==
  schema' = [schema EXCEPT ![tab] = IF @ = "none" THEN "contentless" ELSE @]

\* CREATE VIRTUAL TABLE IF NOT EXISTS, committed at once: a new table is empty
\* whatever the rows are.
CreateTable(tab) ==
  schema' = [schema EXCEPT ![tab] = IF @ = "none" THEN "external" ELSE @]

\* The triggers are only for the external layout.
InitFts(p, tab) ==
  /\ pc[p] = InitAt[tab]
  /\ CreateTable(tab)
  /\ Goto(p, IF tab = "posts" THEN "init_threads"
             ELSE IF schema["posts"] = "external" THEN "reset" ELSE "select")
  /\ UNCHANGED <<row, triggers, index, work, version, faults, history>>

\* drop_fts_triggers at the start of create_fts_triggers, and of a bulk run
DropTriggers(p) ==
  /\ pc[p] \in {"reset", "drop_triggers"}
  /\ triggers' = {}
  /\ Goto(p, IF pc[p] = "reset" THEN "make_posts" ELSE "drop_posts")
  /\ UNCHANGED <<row, schema, index, work, version, faults, history>>

MakeTriggers(p, tab) ==
  /\ pc[p] = MakeAt[tab]
  /\ tab \notin triggers
  /\ triggers' = triggers \cup {tab}
  /\ IF tab = "posts" THEN Goto(p, "make_threads") /\ UNCHANGED work
     ELSE IF job[p].kind = "single" THEN Goto(p, "select") /\ UNCHANGED work
     ELSE Exit(p, "done")
  /\ UNCHANGED <<row, schema, index, version, faults, history>>

\* "trigger already exists": init_db goes on without the rest of the script,
\* a bulk run dies.
TriggersExist(p, tab) ==
  /\ pc[p] = MakeAt[tab]
  /\ tab \in triggers
  /\ IF job[p].kind = "single" THEN Goto(p, "select") /\ UNCHANGED work
     ELSE Exit(p, "failed")
  /\ UNCHANGED <<database, version, faults, history>>

\* init_db swallows every OperationalError of these statements and goes on: the
\* disk is full, a page cannot be read, or another process kept the write lock
\* for the whole timeout.  The tables and triggers stay as they are.
InitFails(p) ==
  /\ job[p].kind = "single"
  /\ pc[p] \in {"init_posts", "init_threads", "reset", "make_posts", "make_threads"}
  /\ \/ /\ \E q \in Procs : pc[q] \in {"flush", "flush_chunk", "flush_last", "rebuild"}
        /\ UNCHANGED faults
     \/ Fault
  /\ Goto(p, "select")
  /\ UNCHANGED <<database, work, version, history>>

-----------------------------------------------------------------------------
(* run_migration_on_file                                                    *)

Select(p) ==
  /\ pc[p] = "select"
  /\ LET t == job[p].thread
     IN  IF row[t] # 0 /\ ~job[p].overwrite THEN Exit(p, "skipped")
         ELSE IF t \in Unparsable THEN Exit(p, "failed")
         ELSE Goto(p, "write") /\ UNCHANGED work
  /\ UNCHANGED <<database, version, faults, history>>

\* The old layout needs no triggers; any other is followed by all or is blind.
Followed == schema["posts"] = "standalone" \/ triggers = Tables

\* Bug: the tables of the old layout are left alone.
WriteThreadOnly(p) ==
  /\ pc[p] = "write"
  /\ Writable({job[p].thread})
  /\ row' = Upserted({job[p].thread})
  /\ index' = IndexAfter({job[p].thread})
  /\ blind' = IF Followed THEN blind ELSE blind \cup {job[p].thread}
  /\ Exit(p, "done")
  /\ UNCHANGED <<schema, triggers, version, faults, torn>>

\* The upserts, with update_fts_for_thread for the old layout, and the commit.
WriteThread(p) ==
  /\ pc[p] = "write"
  /\ LET t == job[p].thread
     IN  /\ Writable({t})
         /\ row' = Upserted({t})
         /\ index' = IF schema["posts"] = "standalone"
                     THEN [tab \in Tables |-> [index[tab] EXCEPT ![t] = version]]
                     ELSE IndexAfter({t})
         /\ blind' = IF Followed THEN blind ELSE blind \cup {t}
  /\ Exit(p, "done")
  /\ UNCHANGED <<schema, triggers, version, faults, torn>>

\* An exception leaves without commit: the transaction is rolled back.
WriteThreadRaises(p) ==
  /\ pc[p] = "write"
  /\ \/ ~Writable({job[p].thread}) /\ UNCHANGED faults
     \/ MayRaise({job[p].thread}) /\ UNCHANGED faults
     \/ Fault
  /\ Exit(p, "failed")
  /\ UNCHANGED <<database, version, history>>

-----------------------------------------------------------------------------
(* run_concurrent_migration                                                 *)

\* The threads to process, read once.  With none the run ends here.
Load(p) ==
  /\ pc[p] = "load"
  /\ LET ids == IF job[p].overwrite THEN Threads ELSE {t \in Threads : row[t] = 0}
     IN  IF ids = {} THEN Exit(p, "nothing")
         ELSE /\ todo' = [todo EXCEPT ![p] = ids]
              /\ Goto(p, "drop_triggers")
              /\ UNCHANGED <<job, chunk, pending, done, ended>>
  /\ UNCHANGED <<database, version, faults, history>>

DropFts(p, tab) ==
  /\ pc[p] = DropAt[tab]
  /\ schema' = [schema EXCEPT ![tab] = "none"]
  /\ index' = [index EXCEPT ![tab] = NoRows]
  /\ torn' = TRUE
  /\ Goto(p, IF tab = "posts" THEN "drop_threads" ELSE "parse")
  /\ UNCHANGED <<row, triggers, work, version, faults, blind>>

\* The ZIP is one chunk; the folders are submitted CHUNK at a time.
NextChunk(p) ==
  /\ pc[p] = "parse"
  /\ chunk[p] = {} /\ todo[p] # {}
  /\ \E S \in SUBSET todo[p] :
       /\ IF job[p].kind = "zip" \/ Cardinality(todo[p]) <= CHUNK THEN S = todo[p]
          ELSE Cardinality(S) = CHUNK
       /\ chunk' = [chunk EXCEPT ![p] = S]
       /\ todo' = [todo EXCEPT ![p] = @ \ S]
  /\ UNCHANGED <<database, pc, job, pending, done, ended, version, faults, history>>

\* handle_result for one parsed thread, in the order the results come.  A full
\* batch is flushed before the next one is looked at.
HandleResult(p, t) ==
  /\ pc[p] = "parse"
  /\ t \in chunk[p]
  /\ chunk' = [chunk EXCEPT ![p] = @ \ {t}]
  /\ IF t \in Unparsable THEN UNCHANGED <<pc, pending, done>>
     ELSE /\ pending' = [pending EXCEPT ![p] = @ \cup {t}]
          /\ done' = [done EXCEPT ![p] = @ \cup {t}]
          /\ Goto(p, IF Cardinality(pending'[p]) >= BATCH THEN "flush" ELSE "parse")
  /\ UNCHANGED <<database, job, todo, ended, version, faults, history>>

\* Bug: no flush after the loop.
EndChunkUnflushed(p) ==
  /\ pc[p] = "parse"
  /\ chunk[p] = {} /\ todo[p] = {}
  /\ Goto(p, "create_posts")
  /\ UNCHANGED <<database, work, version, faults, history>>

\* The end of a chunk of folders flushes, and so does the end of the loop.
EndChunk(p) ==
  /\ pc[p] = "parse"
  /\ chunk[p] = {}
  /\ \/ job[p].kind = "folders" /\ pending[p] # {} /\ Goto(p, "flush_chunk")
     \/ job[p].kind = "folders" /\ pending[p] = {} /\ todo[p] = {} /\ Goto(p, "flush_last")
     \/ job[p].kind = "zip" /\ todo[p] = {} /\ Goto(p, "flush_last")
  /\ UNCHANGED <<database, work, version, faults, history>>

\* flush_pending
Flush(p) ==
  /\ pc[p] \in {"flush", "flush_chunk", "flush_last"}
  /\ Writable(pending[p])
  /\ row' = Upserted(pending[p])
  /\ index' = IndexAfter(pending[p])
  /\ pending' = [pending EXCEPT ![p] = {}]
  /\ Goto(p, IF pc[p] = "flush_last" THEN "create_posts" ELSE "parse")
  /\ UNCHANGED <<schema, triggers, job, todo, chunk, done, ended, version, faults, history>>

FlushRaises(p) ==
  /\ pending[p] # {}
  /\ \/ ~Writable(pending[p]) /\ UNCHANGED faults
     \/ MayRaise(pending[p]) /\ UNCHANGED faults
     \/ Fault

\* Bug: the batch is cleared although it was not written.
FlushDropped(p) ==
  /\ pc[p] = "flush" /\ job[p].kind = "zip"
  /\ FlushRaises(p)
  /\ Goto(p, "parse")
  /\ pending' = [pending EXCEPT ![p] = {}]
  /\ UNCHANGED <<database, job, todo, chunk, done, ended, version, history>>

\* In the ZIP loop the exception of a full batch is caught, counted as a
\* failed thread, and the batch is kept for the next flush.
FlushKept(p) ==
  /\ pc[p] = "flush" /\ job[p].kind = "zip"
  /\ FlushRaises(p)
  /\ Goto(p, "parse")
  /\ UNCHANGED <<database, work, version, history>>

\* Anywhere else it ends the command.
FlushFatal(p) ==
  /\ \/ pc[p] = "flush" /\ job[p].kind = "folders"
     \/ pc[p] \in {"flush_chunk", "flush_last"}
  /\ FlushRaises(p)
  /\ Exit(p, "failed")
  /\ UNCHANGED <<database, version, history>>

CreateFts(p, tab) ==
  /\ pc[p] = CreateAt[tab]
  /\ CreateTable(tab)
  /\ Goto(p, IF tab = "posts" THEN "create_threads" ELSE "rebuild")
  /\ UNCHANGED <<row, triggers, index, work, version, faults, history>>

\* 'rebuild' and 'optimize' of both tables, and the DROP TRIGGERs, committed by
\* the executescript that then creates the triggers.
Rebuild(p) ==
  /\ pc[p] = "rebuild"
  /\ \A tab \in Tables : schema[tab] = "external"
  /\ index' = [tab \in Tables |-> row]
  /\ triggers' = {}
  /\ torn' = FALSE
  /\ blind' = {}
  /\ Goto(p, "make_posts")
  /\ UNCHANGED <<row, schema, work, version, faults>>

\* Another bulk run has dropped a table: "no such table".
RebuildRaises(p) ==
  /\ pc[p] = "rebuild"
  /\ \E tab \in Tables : schema[tab] # "external"
  /\ Exit(p, "failed")
  /\ UNCHANGED <<database, version, faults, history>>

-----------------------------------------------------------------------------
\* The process is killed, or the machine stops.
Crash(p) ==
  /\ ~Idle(p)
  /\ Fault
  /\ Exit(p, "crashed")
  /\ UNCHANGED <<database, version, history>>

\* The parser or the archive changes between two commands.
NewVersion ==
  /\ Quiet
  /\ version < MAX_VERSION
  /\ version' = version + 1
  /\ UNCHANGED <<database, command, faults, history>>

Step(p) ==
  \/ \E tab \in Tables : \/ InitFts(p, tab) \/ MakeTriggers(p, tab)
                         \/ TriggersExist(p, tab)
                         \/ DropFts(p, tab) \/ CreateFts(p, tab)
  \/ DropTriggers(p) \/ InitFails(p)
  \/ Select(p) \/ WriteThread(p) \/ WriteThreadRaises(p)
  \/ Load(p) \/ NextChunk(p) \/ (\E t \in Threads : HandleResult(p, t)) \/ EndChunk(p)
  \/ Flush(p) \/ FlushKept(p) \/ FlushFatal(p)
  \/ Rebuild(p) \/ RebuildRaises(p)

Next ==
  \/ \E p \in Procs : \/ \E j \in Single : StartSingle(p, j)
                      \/ \E j \in Bulk : StartBulk(p, j)
                      \/ Step(p)
                      \/ Crash(p)
  \/ NewVersion

Spec == Init /\ [][Next]_vars

Resume(p) == \E j \in Bulk : ~j.overwrite /\ StartBulk(p, j)

(* A command that runs takes its steps, and whoever runs the parser comes   *)
(* back to a resuming bulk run until it has nothing left to do.             *)
FairSpec == Spec /\ \A p \in Procs : WF_vars(Step(p)) /\ SF_vars(Resume(p))

-----------------------------------------------------------------------------
\* What a search of the table finds of the thread.
Found(tab, t) == IF schema[tab] = "none" THEN 0 ELSE index[tab][t]

(* Between two commands both full-text tables hold exactly the rows, with   *)
(* two exceptions, which last until the next rebuild: all threads, once a   *)
(* bulk run died after it dropped the tables, and the threads that a command *)
(* wrote after init_db had swallowed an error (or a second command was      *)
(* making the triggers anew).  Every other crash or failed write, at any    *)
(* step of any command, leaves tables and rows in agreement.                *)
IntactUnlessTorn ==
  Quiet /\ ~torn => \A tab \in Tables, t \in Threads \ blind : Found(tab, t) = row[t]

(* A search never finds a text that is not the row's: even after a bulk run *)
(* died, and whatever commands follow, an entry of the index is the row's   *)
(* version or missing.  The exception is a thread written after init_db had *)
(* swallowed an error: it is found under its old text until the next        *)
(* rebuild.                                                                 *)
IndexSound ==
  \A tab \in Tables, t \in Threads \ blind : Found(tab, t) \in {0, row[t]}

(* A thread a bulk run counts as done is stored or still in the batch, also *)
(* when a flush raised and was retried, and nothing is left in the batch    *)
(* when the index is rebuilt.                                               *)
DoneIsStored ==
  \A p \in Procs :
    /\ \A t \in done[p] \ pending[p] : row[t] = version
    /\ pc[p] \in {"create_posts", "create_threads", "rebuild"} => pending[p] = {}

(* Crashes and failed writes only cost time: every thread that parses is    *)
(* stored in the end.                                                       *)
ArchiveStored == <>(\A t \in Threads \ Unparsable : row[t] # 0)
=============================================================================
