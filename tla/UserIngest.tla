----------------------------- MODULE UserIngest -----------------------------
(***************************************************************************)
(* scripts/profile_parser.py and scripts/reputation_parser.py: the commands *)
(* that fill users.db.  One command runs at a time: a bulk run over the    *)
(* archive, a run for one user, --repair-alts, or the reputation import.   *)
(* Each step is one transaction of SQLite, and a command can die at any    *)
(* step.  The batch loops of the bulk run and of the reputation import run *)
(* with journal_mode=OFF: when they die inside a batch nothing is rolled   *)
(* back.                                                                   *)
(*                                                                         *)
(* A version numbers the parser and archive that produced a value, 0 is no *)
(* value.  The reputation ids of two versions are taken as different, the  *)
(* worst case of an upsert that replaces equal ids only.                   *)
(***************************************************************************)
EXTENDS Integers, FiniteSets

CONSTANTS
  Users,        \* the user ids of the archive
  Missing,      \* those without profile.html
  Raising,      \* Raising[v]: those whose pages raise in version v
  Heavy,        \* those whose reputation alone fills a batch
  NoAlts,       \* those without alts.html
  First,        \* what --limit selects
  Singles,      \* the users asked for with --user
  Sources,      \* the bulk sources of this instance: "zip", "folders"
  BATCH,        \* rows per batch: 5000 users, 1000 alts, 50000 entries
  MAX_VERSION,  \* bound: how often parser or archive change, plus one
  MAX_FAULTS    \* bound: crashes and failing statements

ASSUME UserAssumption ==
  /\ Missing \subseteq Users /\ Heavy \subseteq Users
  /\ NoAlts \subseteq Users /\ First \subseteq Users /\ Singles \subseteq Users
  /\ Sources \subseteq {"zip", "folders"}
  /\ MAX_VERSION \in Nat \ {0}
  /\ Raising \in [1..MAX_VERSION -> SUBSET Users]
  /\ BATCH \in Nat \ {0}
  /\ MAX_FAULTS \in Nat

VARIABLES
  row,       \* row[u]: the version of the users row, 0 when absent
  alts,      \* alts[u]: the version of its alts column
  rep,       \* rep[u]: the versions of which all reputation entries of u are stored
  schema,    \* how fts_users is declared, if at all
  triggers,  \* its triggers that exist
  index,     \* index[u]: the version fts_users holds of u
  pc, job, todo, pending,   \* the command that runs
  open,      \* the batch raised half-way: its transaction is still open
  done,      \* the users a bulk run or an import counts as done
  ended,     \* how the last command ended
  version,   \* the version a parse produces now
  faults,
  \* History; no action reads it but to update it.
  dropped,   \* a bulk run dropped fts_users, and it is not back
  hollow,    \* users with a row over which fts_users was created empty
  blind,     \* users written while the trigger for it was missing
  bare       \* users whose reputation an import or a dying batch left incomplete

database == <<row, alts, rep, schema, triggers, index>>
work     == <<job, todo, pending, open, done, ended>>
lost     == <<dropped, hollow, blind>>   \* of fts_users, since its last rebuild
history  == <<lost, bare>>
vars     == <<database, pc, work, version, faults, history>>

-----------------------------------------------------------------------------
Versions == 0..MAX_VERSION
NoRows   == [u \in Users |-> 0]
Triggers == {"ai", "ad", "au"}
NoJob    == [kind |-> "none"]

BulkJob   == [kind : Sources, overwrite : BOOLEAN, limited : BOOLEAN]
SingleJob == [kind : {"single"}, overwrite : BOOLEAN, user : Singles]
OtherJob  == [kind : {"alts"}] \cup [kind : {"reputation"}, limited : BOOLEAN]
Jobs      == BulkJob \cup SingleJob \cup OtherJob

IsBulk  == job.kind \in {"zip", "folders"}
OffMode == job.kind \in {"zip", "folders", "reputation"}   \* journal_mode=OFF

Places == {"idle", "test", "parse", "init", "reset", "make", "write",
           "load", "drop_triggers", "drop_fts", "clear",
           "loop", "flush", "flush_last", "rebuild"}
Outcomes == {"none", "empty", "done", "skipped", "nothing", "failed", "crashed", "malformed"}

TypeOK ==
  /\ row \in [Users -> Versions]
  /\ alts \in [Users -> Versions]
  /\ rep \in [Users -> SUBSET (1..MAX_VERSION)]
  /\ schema \in {"none", "external", "standalone"}
  /\ triggers \subseteq Triggers
  /\ index \in [Users -> Versions]
  /\ pc \in Places
  /\ job \in Jobs \cup {NoJob}
  /\ todo \subseteq Users
  /\ pending \subseteq Users
  /\ open \in BOOLEAN
  /\ done \subseteq Users
  /\ ended \in Outcomes
  /\ version \in 1..MAX_VERSION
  /\ faults \in 0..MAX_FAULTS
  /\ dropped \in BOOLEAN
  /\ hollow \subseteq Users
  /\ blind \subseteq Users
  /\ bare \subseteq Users

Parses(u) == u \notin Missing /\ u \notin Raising[version]

\* A database with its tables and no rows, a complete one, or one of the old
\* layout, whose full-text table has its own copy of the text and no triggers.
Init ==
  /\ row \in {NoRows, [u \in Users |-> IF u \in Missing \cup Raising[1] THEN 0 ELSE 1]}
  /\ alts = row
  /\ rep = [u \in Users |-> IF row[u] = 0 THEN {} ELSE {1}]
  /\ \/ schema = "none" /\ triggers = {} /\ row = NoRows
     \/ schema = "external" /\ triggers = Triggers
     \/ schema = "standalone" /\ triggers = {}
  /\ index = row
  /\ pc = "idle" /\ job = NoJob /\ todo = {} /\ pending = {} /\ open = FALSE
  /\ done = {} /\ ended = "none"
  /\ version = 1 /\ faults = 0
  /\ dropped = FALSE /\ hollow = {} /\ blind = {} /\ bare = {}

-----------------------------------------------------------------------------
Fault == faults < MAX_FAULTS /\ faults' = faults + 1

Goto(place) == pc' = place /\ UNCHANGED work

\* The process ends; what it held in memory is gone.
Exit(how) ==
  /\ pc' = "idle" /\ job' = NoJob /\ todo' = {} /\ pending' = {} /\ open' = FALSE
  /\ done' = {} /\ ended' = how

\* --user tests for the row first, unless it overwrites; todo is what it parsed.
Start(j) ==
  /\ pc = "idle" /\ ended # "malformed"
  /\ pc' = IF j.kind = "single" THEN (IF j.overwrite THEN "parse" ELSE "init")
           ELSE IF j.kind = "reputation" THEN "clear"
           ELSE IF j.kind = "alts" THEN "loop" ELSE "load"
  /\ job' = j
  /\ todo' = IF j.kind = "alts" THEN Users ELSE {}
  /\ ended' = "none"
  /\ UNCHANGED <<database, pending, open, done, version, faults, history>>

-----------------------------------------------------------------------------
(* init_users_db and run_migration_on_user                                  *)

AfterInit == IF todo = {} THEN "test" ELSE "write"

\* Bug: content='' in place of content='users'.
InitFtsContentless ==
  /\ pc = "init"
  /\ schema' = IF schema = "none" THEN "contentless" ELSE schema
  /\ Goto("reset")
  /\ UNCHANGED <<row, alts, rep, triggers, index, version, faults, history>>

\* CREATE VIRTUAL TABLE IF NOT EXISTS: a new table is empty whatever rows exist.
InitFts ==
  /\ pc = "init"
  /\ schema' = IF schema = "none" THEN "external" ELSE schema
  /\ IF schema = "none"
     THEN /\ dropped' = FALSE
          /\ hollow' = hollow \cup {u \in Users : row[u] # 0}
     ELSE UNCHANGED <<dropped, hollow>>
  /\ Goto(IF schema' = "external" THEN "reset" ELSE AfterInit)
  /\ UNCHANGED <<row, alts, rep, triggers, index, version, faults, blind, bare>>

\* drop_user_fts_triggers, in front of the creation and of a bulk run
DropTriggers ==
  /\ pc \in {"reset", "drop_triggers"}
  /\ triggers' = {}
  /\ Goto(IF pc = "reset" THEN "make" ELSE "drop_fts")
  /\ UNCHANGED <<row, alts, rep, schema, index, version, faults, history>>

NextTrigger == IF "ai" \notin triggers THEN "ai"
               ELSE IF "ad" \notin triggers THEN "ad" ELSE "au"

\* The script creates them one by one; the last one ends init_users_db, or the
\* bulk run, for which the lookup index, VACUUM and the journal mode remain.
MakeTrigger ==
  /\ pc = "make"
  /\ triggers' = triggers \cup {NextTrigger}
  /\ IF triggers' # Triggers THEN Goto("make")
     ELSE IF IsBulk THEN Exit("done") ELSE Goto(AfterInit)
  /\ UNCHANGED <<row, alts, rep, schema, index, version, faults, history>>

\* init_users_db swallows every OperationalError of this part and goes on.
InitFails ==
  /\ ~IsBulk /\ pc \in {"init", "reset", "make"}
  /\ Fault
  /\ Goto(AfterInit)
  /\ UNCHANGED <<database, version, history>>

FindUser ==
  /\ pc = "test"
  /\ IF row[job.user] # 0 THEN Exit("skipped") ELSE Goto("parse")
  /\ UNCHANGED <<database, version, faults, history>>

\* parse_user_worker; init_users_db runs again before the write.
ParseUser ==
  /\ pc = "parse"
  /\ IF Parses(job.user)
     THEN /\ pc' = "init" /\ todo' = {job.user}
          /\ UNCHANGED <<job, pending, open, done, ended>>
     ELSE Exit("failed")
  /\ UNCHANGED <<database, version, faults, history>>

\* The upsert fires ai for a new row and au for an old one.
Fires(u) == (IF row[u] = 0 THEN "ai" ELSE "au") \in triggers

\* update_fts_for_user follows the table of the old layout, a trigger any other.
Followed(u) == schema = "standalone" \/ Fires(u)

\* To delete a document the index does not hold may raise.
MayRaise(u) == Fires(u) /\ row[u] # 0 /\ index[u] # row[u]

Written(f, u) == [f EXCEPT ![u] = version]

\* Bug: the table of the old layout is left alone.
WriteUserOnly ==
  /\ pc = "write"
  /\ LET u == job.user
     IN  /\ row' = Written(row, u)
         /\ alts' = Written(alts, u)
         /\ rep' = [rep EXCEPT ![u] = {version}]
         /\ index' = IF Fires(u) THEN Written(index, u) ELSE index
         /\ blind' = IF Followed(u) THEN blind ELSE blind \cup {u}
         /\ bare' = bare \ {u}
  /\ Exit("done")
  /\ UNCHANGED <<schema, triggers, version, faults, dropped, hollow>>

\* The upsert, the replaced reputation and, for the old layout,
\* update_fts_for_user; then the commit.
WriteUser ==
  /\ pc = "write"
  /\ LET u == job.user
     IN  /\ row' = Written(row, u)
         /\ alts' = Written(alts, u)
         /\ rep' = [rep EXCEPT ![u] = {version}]
         /\ index' = IF Followed(u) THEN Written(index, u) ELSE index
         /\ blind' = IF Followed(u) THEN blind ELSE blind \cup {u}
         /\ bare' = bare \ {u}
  /\ Exit("done")
  /\ UNCHANGED <<schema, triggers, version, faults, dropped, hollow>>

\* Nothing catches an exception of these statements: they are rolled back.
WriteUserRaises ==
  /\ pc = "write"
  /\ \/ MayRaise(job.user) /\ UNCHANGED faults
     \/ Fault
  /\ Exit("failed")
  /\ UNCHANGED <<database, version, history>>

-----------------------------------------------------------------------------
(* run_concurrent_migration, up to its loop, and the clearing of the import *)

\* The ids of the ZIP have a profile.html, those of the folders may not.
Listed ==
  {u \in IF job.limited THEN First ELSE Users : job.kind = "zip" => u \notin Missing}

\* Bug: with nothing to parse the run always ends.
LoadReturnsEarly ==
  /\ pc = "load"
  /\ LET ids == {u \in Listed : job.overwrite \/ row[u] = 0}
     IN  IF Listed = {} THEN Exit("empty")
         ELSE IF ids = {} THEN Exit("nothing")
         ELSE /\ todo' = ids
              /\ pc' = "drop_triggers"
              /\ UNCHANGED <<job, pending, open, done, ended>>
  /\ UNCHANGED <<database, version, faults, history>>

\* With nothing to parse the run ends here, unless the index must be upgraded.
Load ==
  /\ pc = "load"
  /\ LET ids == {u \in Listed : job.overwrite \/ row[u] = 0}
     IN  IF Listed = {} THEN Exit("empty")
         ELSE IF ids = {} /\ schema = "external" THEN Exit("nothing")
         ELSE /\ todo' = ids
              /\ pc' = "drop_triggers"
              /\ UNCHANGED <<job, pending, open, done, ended>>
  /\ UNCHANGED <<database, version, faults, history>>

DropFts ==
  /\ pc = "drop_fts"
  /\ schema' = "none"
  /\ index' = NoRows
  /\ dropped' = TRUE
  /\ Goto(IF job.overwrite THEN "clear" ELSE "loop")
  /\ UNCHANGED <<row, alts, rep, triggers, version, faults, hollow, blind, bare>>

Cleared(f, S, none) == [u \in Users |-> IF u \in S THEN none ELSE f[u]]

\* --overwrite deletes every user, or those of a limited run.  The import
\* deletes only reputation, but everyone's, also when --limit lets it read the
\* pages of some only.
Gone == IF IsBulk /\ job.limited THEN todo ELSE Users

Clear ==
  /\ pc = "clear"
  /\ rep' = Cleared(rep, Gone, {})
  /\ IF IsBulk
     THEN /\ row' = Cleared(row, Gone, 0)
          /\ alts' = Cleared(alts, Gone, 0)
          /\ bare' = bare \ Gone
          /\ UNCHANGED todo
     ELSE /\ todo' = IF job.limited THEN First ELSE Users
          /\ UNCHANGED <<row, alts, bare>>
  /\ pc' = "loop"
  /\ UNCHANGED <<schema, triggers, index, job, pending, open, done, ended, version,
                 faults, lost>>

-----------------------------------------------------------------------------
(* The three batch loops: of the bulk run, of repair_alts_only and of the   *)
(* reputation import.                                                       *)

\* A bulk run reads all pages of a user, the import only those of reputation,
\* --repair-alts only alts.html: a user one of whose pages raises may get through
\* the last two.
Queueable(u) ==
  /\ IsBulk => u \notin Missing \cup Raising[version]
  /\ job.kind = "alts" => u \notin NoAlts

\* Left out: no such page, or one that raises and is counted as failed.
Skippable(u) ==
  \/ IsBulk /\ u \in Missing
  \/ OffMode /\ u \in Raising[version]
  \/ job.kind = "alts" /\ u \in NoAlts

Full(S) == Cardinality(S) >= BATCH \/ (OffMode /\ S \cap Heavy # {})

HandleResult(u) ==
  /\ pc = "loop"
  /\ u \in todo
  /\ todo' = todo \ {u}
  /\ \/ /\ Queueable(u)
        /\ pending' = pending \cup {u}
        /\ done' = IF OffMode THEN done \cup {u} ELSE done
        /\ pc' = IF Full(pending') THEN "flush" ELSE "loop"
     \/ Skippable(u) /\ UNCHANGED <<pc, pending, done>>
  /\ UNCHANGED <<database, job, open, ended, version, faults, history>>

\* Bug: --repair-alts leaves a page that raises out, as the other loops do.
AltsSkipped(u) ==
  /\ pc = "loop" /\ job.kind = "alts"
  /\ u \in todo /\ u \in Raising[version] \ NoAlts
  /\ todo' = todo \ {u}
  /\ UNCHANGED <<database, pc, job, pending, open, done, ended, version, faults, history>>

\* Nothing in repair_alts_only catches an alts page that raises.
AltsRaise(u) ==
  /\ pc = "loop" /\ job.kind = "alts"
  /\ u \in todo /\ u \in Raising[version] \ NoAlts
  /\ Exit("failed")
  /\ UNCHANGED <<database, version, faults, history>>

EndLoop ==
  /\ pc = "loop" /\ todo = {}
  /\ Goto("flush_last")
  /\ UNCHANGED <<database, version, faults, history>>

Flushing == pc \in {"flush", "flush_last"}

\* Bug: the batch is cleared before its reputation is written.
StoredRowsOnly(rows, entries) ==
  /\ row' = IF IsBulk THEN [u \in Users |-> IF u \in rows THEN version ELSE row[u]] ELSE row
  /\ alts' = [u \in Users |-> IF u \in rows /\ (IsBulk \/ row[u] # 0)
                              THEN version ELSE alts[u]]
  /\ UNCHANGED rep

\* What the batch stores of the users in rows and of the reputation in entries.
Stored(rows, entries) ==
  /\ row' = IF IsBulk THEN [u \in Users |-> IF u \in rows THEN version ELSE row[u]] ELSE row
  /\ alts' = [u \in Users |-> IF u \in rows /\ (IsBulk \/ row[u] # 0)
                              THEN version ELSE alts[u]]
  /\ rep' = [u \in Users |-> IF u \in entries THEN rep[u] \cup {version} ELSE rep[u]]

Flush ==
  /\ Flushing
  /\ Stored(IF job.kind = "reputation" THEN {} ELSE pending,
            IF job.kind = "alts" THEN {} ELSE pending)
  /\ bare' = IF IsBulk THEN bare \ pending
             ELSE IF job.kind = "reputation" /\ pc = "flush_last" THEN Users \ done
             ELSE bare
  /\ IF pc = "flush_last" /\ ~IsBulk THEN Exit("done")
     ELSE /\ pc' = IF pc = "flush" THEN "loop" ELSE "rebuild"
          /\ pending' = {} /\ open' = FALSE
          /\ UNCHANGED <<job, todo, done, ended>>
  /\ UNCHANGED <<schema, triggers, index, version, faults, lost>>

\* Bug: the batch is dropped with the exception.
FlushForgotten ==
  /\ pc = "flush" /\ job.kind \in {"zip", "reputation"}
  /\ Fault
  /\ pc' = "loop" /\ pending' = {} /\ open' = FALSE
  /\ UNCHANGED <<database, job, todo, done, ended, version, history>>

\* The loop over the ZIP catches what handle_result raises, and the import what
\* flush raises: the batch is kept, and its transaction stays open.
FlushKept ==
  /\ pc = "flush" /\ job.kind \in {"zip", "reputation"}
  /\ Fault
  /\ pc' = "loop" /\ open' = TRUE
  /\ UNCHANGED <<database, job, todo, pending, done, ended, version, history>>

\* Everywhere else an exception ends the command; with a journal it is rolled
\* back.
FlushFatal ==
  /\ Flushing /\ ~OffMode /\ pending # {}
  /\ Fault
  /\ Exit("failed")
  /\ UNCHANGED <<database, version, history>>

\* An import that dies leaves only those complete whose entries it has stored.
AfterDeath(entries) ==
  IF job.kind = "reputation" /\ pc # "clear" THEN Users \ ((done \ pending) \cup entries)
  ELSE bare \ entries

\* Without a journal whatever pages have reached the file stay there, when the
\* process dies or closes the connection in the middle of a batch: some users,
\* the reputation of some, or a file that SQLite cannot read.
Torn(how) ==
  /\ OffMode /\ pending # {} /\ (Flushing \/ open)
  /\ how = "failed" => pc = "flush_last" \/ (pc = "flush" /\ job.kind = "folders")
  /\ Fault
  /\ \E rows, entries \in SUBSET pending :
       /\ Stored(IF IsBulk THEN rows ELSE {}, entries)
       /\ bare' = AfterDeath(entries) \cup IF IsBulk THEN rows \ entries ELSE {}
  /\ Exit(how)
  /\ UNCHANGED <<schema, triggers, index, version, lost>>

\* The same in the middle of the import's DELETE.
TornClear ==
  /\ pc = "clear" /\ OffMode /\ ~IsBulk
  /\ Fault
  /\ \E S \in SUBSET Users : rep' = Cleared(rep, S, {}) /\ bare' = bare \cup S
  /\ \E how \in {"failed", "crashed", "malformed"} : Exit(how)
  /\ UNCHANGED <<row, alts, schema, triggers, index, version, lost>>

\* Bug: the table is created and not populated.
RebuildEmpty ==
  /\ pc = "rebuild"
  /\ schema' = "external"
  /\ triggers' = {}
  /\ dropped' = FALSE /\ hollow' = {} /\ blind' = {}
  /\ Goto("make")
  /\ UNCHANGED <<row, alts, rep, index, version, faults, bare>>

\* The rebuild, with past_usernames_search and the table in one transaction that
\* the script of the triggers commits.
Rebuild ==
  /\ pc = "rebuild"
  /\ schema' = "external"
  /\ index' = row
  /\ triggers' = {}
  /\ dropped' = FALSE /\ hollow' = {} /\ blind' = {}
  /\ Goto("make")
  /\ UNCHANGED <<row, alts, rep, version, faults, bare>>

-----------------------------------------------------------------------------
\* The process is killed between two transactions, or in one with a journal.
Crash ==
  /\ pc # "idle"
  /\ Fault
  /\ bare' = AfterDeath({})
  /\ Exit("crashed")
  /\ UNCHANGED <<database, version, lost>>

\* A file that cannot be read is replaced by an empty database.
StartOver ==
  /\ ended = "malformed"
  /\ row' = NoRows /\ alts' = NoRows /\ rep' = [u \in Users |-> {}]
  /\ schema' = "none" /\ triggers' = {} /\ index' = NoRows
  /\ ended' = "none"
  /\ dropped' = FALSE /\ hollow' = {} /\ blind' = {} /\ bare' = {}
  /\ UNCHANGED <<pc, job, todo, pending, open, done, version, faults>>

\* The parser or the archive changes between two commands.
NewVersion ==
  /\ pc = "idle" /\ ended # "malformed"
  /\ version < MAX_VERSION
  /\ version' = version + 1
  /\ ended' = "none"
  /\ UNCHANGED <<database, pc, job, todo, pending, open, done, faults, history>>

Step ==
  \/ InitFts \/ DropTriggers \/ MakeTrigger \/ InitFails
  \/ FindUser \/ ParseUser \/ WriteUser \/ WriteUserRaises
  \/ Load \/ DropFts \/ Clear \/ (\E u \in Users : HandleResult(u) \/ AltsRaise(u)) \/ EndLoop
  \/ Flush \/ FlushKept \/ FlushFatal \/ Rebuild

Accidents ==
  (\E how \in {"failed", "crashed", "malformed"} : Torn(how)) \/ TornClear \/ Crash

Next == (\E j \in Jobs : Start(j)) \/ Step \/ Accidents \/ StartOver \/ NewVersion

Spec == Init /\ [][Next]_vars

Resume == \E j \in BulkJob : ~j.overwrite /\ ~j.limited /\ Start(j)

(* A command that runs takes its steps, an unreadable file is replaced, and *)
(* whoever runs the parser comes back to a resuming run.                    *)
FairSpec == Spec /\ WF_vars(Step) /\ WF_vars(StartOver) /\ SF_vars(Resume)

-----------------------------------------------------------------------------
\* What a search finds of the user.
Found(u) == IF schema = "none" THEN 0 ELSE index[u]

(* A search never finds a text that is not the row's, whatever died and     *)
(* whatever was run since.  The exception, until the next rebuild, is a user *)
(* whom --user wrote after init_users_db had swallowed an error            *)
(* (profile_parser.py:537) and left a trigger missing: that user may be     *)
(* found under an old text.                                                 *)
IndexSound == \A u \in Users \ blind : Found(u) \in {0, row[u]}

(* At the end of every command, crashed ones included, fts_users holds      *)
(* exactly the rows.  Three exceptions, until the next rebuild: the table   *)
(* that a bulk run has dropped and that is not back; a user whose row was   *)
(* there when --user created the table empty; and a user written after      *)
(* init_users_db had swallowed an error.                                    *)
IntactUnlessLost ==
  pc = "idle" /\ ~dropped => \A u \in Users \ (hollow \cup blind) : Found(u) = row[u]

(* "No users need processing." (profile_parser.py:858): a resuming run that *)
(* says so leaves a full-text table, also after a bulk run that died before *)
(* its rebuild, and the table holds every row but those of users over whom  *)
(* --user created it empty and of users written after init_users_db had     *)
(* swallowed an error.                                                      *)
NothingMeansIndexed ==
  ended = "nothing" => /\ schema = "external"
                       /\ \A u \in Users \ (hollow \cup blind) : index[u] = row[u]

(* A stored user has all entries of its reputation, at the version of its   *)
(* row or a later one, whenever no import is at work.  Excused are, until    *)
(* they are stored again: those whom an import that ended has not read, as  *)
(* --limit or a raising page kept it from; those whom an import that died   *)
(* had not stored; and those whose row, but not all of whose entries, a     *)
(* batch without journal left in the file.                                  *)
ReputationFollows ==
  job.kind # "reputation" =>
    \A u \in Users \ bare : row[u] # 0 => \E v \in rep[u] : v >= row[u]

(* What a bulk run or an import counts as done is stored or still in the    *)
(* batch, also when a full batch raised and was kept, and the batch is empty *)
(* when the index is rebuilt.                                               *)
DoneIsStored ==
  /\ \A u \in done \ pending : version \in rep[u] /\ (IsBulk => row[u] = version)
  /\ pc \in {"rebuild", "make"} => pending = {}

(* --repair-alts that ends without an exception has refreshed every stored  *)
(* user who has an alts.html, those of the last, unfilled batch included.   *)
RepairComplete ==
  [][job.kind = "alts" /\ ended' = "done" =>
       \A u \in Users \ NoAlts : row[u] # 0 => alts'[u] = version]_vars

(* A full-text table that is missing comes back, however many of the runs   *)
(* after it crash, and also when they find nothing left to parse.  (It may  *)
(* be a --user command that brings it back, empty.)                         *)
IndexComesBack == (schema = "none") ~> (schema = "external")
=============================================================================
