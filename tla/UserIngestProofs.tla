-------------------------- MODULE UserIngestProofs --------------------------
(***************************************************************************)
(* What scripts/profile_parser.py and scripts/reputation_parser.py promise *)
(* of users.db, for every archive, batch size and number of faults.        *)
(***************************************************************************)
EXTENDS UserIngest, TLAPS

Looping == {"loop", "flush", "flush_last"}
Serving == {"test", "parse", "init", "reset", "write"}

\* Which part of which command a place belongs to, and what it holds there.
Phases ==
  /\ pc \notin Looping => pending = {}
  /\ pc \notin Looping \cup {"rebuild", "make"} => done = {}
  /\ ~OffMode => done = {}
  /\ pc = "rebuild" => IsBulk
  /\ pc \in Serving \/ (pc = "make" /\ ~IsBulk) => job \in SingleJob
  /\ pc # "idle" => ended = "none"
  /\ job.kind = "alts" => pc \in Looping
  /\ job.kind = "reputation" => pc \in Looping \cup {"clear"}
  /\ pc \in {"load", "drop_triggers", "drop_fts"} => IsBulk
  /\ pc = "clear" => OffMode
  /\ pc = "flush_last" => todo = {}

CommandInv == TypeOK /\ Phases

\* The types of what no action reads.
HistoryTyped ==
  dropped \in BOOLEAN /\ hollow \subseteq Users /\ blind \subseteq Users /\ bare \subseteq Users

-----------------------------------------------------------------------------
LEMMA SingleUser ==
  ASSUME CommandInv, pc \in Serving
  PROVE  job.user \in Users /\ job.kind = "single"
BY UserAssumption DEF CommandInv, Phases, SingleJob

LEMMA JobKinds ==
  ASSUME NEW j \in Jobs
  PROVE  /\ j.kind = "single" => j \in SingleJob
         /\ j.kind \in {"zip", "folders", "single", "alts", "reputation"}
BY UserAssumption DEF Jobs, BulkJob, SingleJob, OtherJob

LEMMA FaultTypes ==
  ASSUME TypeOK, Fault
  PROVE  faults' \in 0..MAX_FAULTS
BY UserAssumption DEF TypeOK, Fault

\* Whatever ends a command leaves no batch and no job behind.
LEMMA ExitInv ==
  ASSUME CommandInv, NEW how \in Outcomes, Exit(how), version' = version,
         row' \in [Users -> Versions], alts' \in [Users -> Versions],
         rep' \in [Users -> SUBSET (1..MAX_VERSION)],
         schema' \in {"none", "external", "standalone"}, triggers' \subseteq Triggers,
         index' \in [Users -> Versions],
         faults' \in 0..MAX_FAULTS, HistoryTyped'
  PROVE  CommandInv'
<1>1. TypeOK'
  BY DEF CommandInv, TypeOK, HistoryTyped, Exit, Places
<1>2. Phases'
  BY DEF Exit, Phases, Looping, Serving, NoJob, IsBulk, OffMode
<1> QED BY <1>1, <1>2 DEF CommandInv

LEMMA CommandStarts == Init => CommandInv
<1> SUFFICES ASSUME Init PROVE CommandInv
  OBVIOUS
<1> USE UserAssumption DEF Init
<1>1. row \in [Users -> Versions]
  BY DEF NoRows, Versions
<1>2. rep \in [Users -> SUBSET (1..MAX_VERSION)]
  <2>1. {} \in SUBSET (1..MAX_VERSION) /\ {1} \in SUBSET (1..MAX_VERSION)
    OBVIOUS
  <2> QED BY <2>1
<1>3. alts \in [Users -> Versions] /\ index \in [Users -> Versions]
  BY <1>1
<1>4. TypeOK
  <2>1. job \in Jobs \cup {NoJob}
    OBVIOUS
  <2>2. pc \in Places /\ ended \in Outcomes
    BY DEF Places, Outcomes
  <2>3. version \in 1..MAX_VERSION /\ faults \in 0..MAX_FAULTS
    <3>1. version = 1 /\ faults = 0
      OBVIOUS
    <3> QED BY <3>1, UserAssumption
  <2>4. schema \in {"none", "external", "standalone"} /\ triggers \subseteq Triggers
        /\ todo \subseteq Users /\ pending \subseteq Users /\ open \in BOOLEAN
        /\ done \subseteq Users /\ HistoryTyped
    BY DEF Triggers, HistoryTyped
  <2> QED BY <1>1, <1>2, <1>3, <2>1, <2>2, <2>3, <2>4 DEF TypeOK, HistoryTyped
<1>5. Phases
  BY DEF Phases, Looping, Serving, NoJob, IsBulk, OffMode
<1> QED BY <1>4, <1>5 DEF CommandInv

-----------------------------------------------------------------------------
\* A step that changes the database and the place, and nothing it holds.
LEMMA GotoInv ==
  ASSUME CommandInv, NEW place \in Places, Goto(place), version' = version,
         pc \notin {"idle", "flush", "clear"}, place \notin {"idle", "rebuild", "flush", "clear"},
         place \in {"load", "drop_triggers", "drop_fts"} => IsBulk,
         pc \in Looping <=> place \in Looping,
         place = "make" => pc \in {"reset", "make", "rebuild"},
         place \in Serving => job \in SingleJob,
         pc \in {"rebuild", "make"} /\ IsBulk => place = "make",
         place = "flush_last" => todo = {},
         row' \in [Users -> Versions], alts' \in [Users -> Versions],
         rep' \in [Users -> SUBSET (1..MAX_VERSION)],
         schema' \in {"none", "external", "standalone"}, triggers' \subseteq Triggers,
         index' \in [Users -> Versions],
         faults' \in 0..MAX_FAULTS, HistoryTyped'
  PROVE  CommandInv'
<1>1. TypeOK'
  BY DEF CommandInv, TypeOK, HistoryTyped, Goto, work
<1>2. Phases'
  <2>1. /\ pc' = place /\ job' = job /\ todo' = todo /\ pending' = pending
        /\ done' = done /\ ended' = ended
    BY DEF Goto, work
  <2>2. Phases
    BY DEF CommandInv
  <2>3. pc' \in Serving \/ (pc' = "make" /\ ~IsBulk') => job' \in SingleJob
    BY <2>1, <2>2 DEF Phases, Serving, IsBulk
  <2>4. pc' \notin Looping \cup {"rebuild", "make"} => done' = {}
    <3>1. pc = "make" /\ ~IsBulk => done = {}
      BY <2>2 DEF Phases, SingleJob, OffMode
    <3> QED BY <2>1, <2>2, <3>1 DEF Phases, Looping
  <2>5. /\ ~OffMode' => done' = {}
        /\ job'.kind = "reputation" => pc' \in Looping \cup {"clear"}
    BY <2>1, <2>2 DEF Phases, Looping, OffMode
  <2> QED BY <2>1, <2>2, <2>3, <2>4, <2>5 DEF Phases, IsBulk, Looping
<1> QED BY <1>1, <1>2 DEF CommandInv

LEMMA StartInv ==
  ASSUME CommandInv, NEW j \in Jobs, Start(j)
  PROVE  CommandInv'
<1> USE DEF Start, CommandInv
<1>0. /\ j.kind = "single" => j \in SingleJob
      /\ j.kind \in {"zip", "folders", "single", "alts", "reputation"}
  BY JobKinds
<1>1. TypeOK'
  BY DEF TypeOK, database, history, lost, Places, Outcomes
<1>2. Phases'
  BY <1>0 DEF Phases, Looping, Serving, IsBulk, OffMode
<1> QED BY <1>1, <1>2

LEMMA WrittenTypes ==
  ASSUME TypeOK
  PROVE  /\ version \in Versions
         /\ \A f \in [Users -> Versions], u \in Users : Written(f, u) \in [Users -> Versions]
<1>1. version \in Versions
  BY UserAssumption DEF TypeOK, Versions
<1> QED BY <1>1 DEF Written

\* The types of what a batch stores.
LEMMA StoredTypes ==
  ASSUME TypeOK, NEW rows, NEW entries, Stored(rows, entries)
  PROVE  /\ row' \in [Users -> Versions] /\ alts' \in [Users -> Versions]
         /\ rep' \in [Users -> SUBSET (1..MAX_VERSION)]
<1>1. version \in Versions
  BY WrittenTypes
<1>2. row' \in [Users -> Versions] /\ alts' \in [Users -> Versions]
  BY <1>1 DEF Stored, TypeOK
<1>3. rep' \in [Users -> SUBSET (1..MAX_VERSION)]
  BY DEF Stored, TypeOK
<1> QED BY <1>2, <1>3
-----------------------------------------------------------------------------
(* One lemma for each part of the module.                                   *)

LEMMA SingleSteps ==
  ASSUME CommandInv, InitFts \/ DropTriggers \/ MakeTrigger \/ InitFails
                     \/ FindUser \/ ParseUser \/ WriteUser \/ WriteUserRaises
  PROVE  CommandInv'
<1>0. TypeOK /\ Phases
  BY DEF CommandInv
<1>1. AfterInit \in {"test", "write"}
  BY DEF AfterInit
<1>2. CASE InitFts
  <2>1. PICK place \in {"reset", AfterInit} : Goto(place)
    BY <1>2 DEF InitFts
  <2>2. pc = "init" /\ job \in SingleJob
    BY <1>0, <1>2 DEF InitFts, Phases, Serving
  <2>3. HistoryTyped' /\ schema' \in {"none", "external", "standalone"}
    BY <1>0, <1>2 DEF InitFts, TypeOK, HistoryTyped
  <2> QED BY <1>0, <1>1, <1>2, <2>1, <2>2, <2>3, GotoInv
          DEF InitFts, TypeOK, Places, Looping, Serving
<1>3. CASE DropTriggers
  <2>1. PICK place \in {"make", "drop_fts"} :
          Goto(place) /\ (pc = "reset" <=> place = "make")
    BY <1>3 DEF DropTriggers
  <2>2. /\ pc \in {"reset", "drop_triggers"} /\ triggers' = {}
        /\ UNCHANGED <<row, alts, rep, schema, index, version, faults>> /\ HistoryTyped'
    BY <1>0, <1>3 DEF DropTriggers, history, lost, HistoryTyped, TypeOK
  <2>3. pc = "drop_triggers" => IsBulk
    BY <1>0 DEF Phases
  <2> QED BY <1>0, <2>1, <2>2, <2>3, GotoInv DEF TypeOK, Places, Looping, Serving
<1>4. CASE MakeTrigger
  <2>1. triggers' \subseteq Triggers
    BY <1>0, <1>4 DEF MakeTrigger, NextTrigger, TypeOK, Triggers
  <2>2. /\ pc = "make"
        /\ UNCHANGED <<row, alts, rep, schema, index, version, faults>> /\ HistoryTyped'
    BY <1>0, <1>4 DEF MakeTrigger, history, lost, HistoryTyped, TypeOK
  <2>3. CASE Exit("done")
    BY <1>0, <2>1, <2>2, <2>3, ExitInv DEF TypeOK, Outcomes
  <2>4. CASE Goto("make")
    BY <1>0, <2>1, <2>2, <2>4, GotoInv DEF TypeOK, Places, Looping, Serving
  <2>5. CASE ~IsBulk /\ Goto(AfterInit)
    <3>1. job \in SingleJob
      BY <1>0, <2>2, <2>5 DEF Phases
    <3> QED BY <1>0, <1>1, <2>1, <2>2, <2>5, <3>1, GotoInv
            DEF TypeOK, Places, Looping, Serving
  <2> QED BY <1>4, <2>3, <2>4, <2>5 DEF MakeTrigger
<1>5. CASE InitFails
  <2>1. faults' \in 0..MAX_FAULTS /\ HistoryTyped'
    BY <1>0, <1>5, FaultTypes DEF InitFails, TypeOK, history, lost, HistoryTyped
  <2>2. job \in SingleJob
    BY <1>0, <1>5 DEF InitFails, Phases, Serving
  <2> QED BY <1>0, <1>1, <1>5, <2>1, <2>2, GotoInv
          DEF InitFails, database, TypeOK, Places, Looping, Serving
<1>6. CASE FindUser
  <2>1. CASE Exit("skipped")
    BY <1>0, <1>6, <2>1, ExitInv DEF FindUser, database, history, lost, HistoryTyped, TypeOK, Outcomes
  <2>2. CASE Goto("parse")
    <3>1. job \in SingleJob
      BY <1>0, <1>6 DEF FindUser, Phases, Serving
    <3> QED BY <1>0, <1>6, <2>2, <3>1, GotoInv
            DEF FindUser, database, history, lost, HistoryTyped, TypeOK, Places, Looping, Serving
  <2> QED BY <1>6, <2>1, <2>2 DEF FindUser
<1>7. CASE ParseUser
  <2>1. CASE Exit("failed")
    BY <1>0, <1>7, <2>1, ExitInv DEF ParseUser, database, history, lost, HistoryTyped, TypeOK, Outcomes
  <2>2. CASE pc' = "init" /\ todo' = {job.user} /\ UNCHANGED <<job, pending, open, done, ended>>
    <3>1. pc = "parse" /\ job.user \in Users
      BY <1>7, SingleUser DEF ParseUser, Serving
    <3>2. TypeOK'
      BY <1>0, <1>7, <2>2, <3>1 DEF ParseUser, database, history, lost, HistoryTyped, TypeOK, Places
    <3>3. Phases'
      BY <1>0, <2>2, <3>1 DEF Phases, Looping, Serving, IsBulk, OffMode
    <3> QED BY <3>2, <3>3 DEF CommandInv
  <2> QED BY <1>7, <2>1, <2>2 DEF ParseUser
<1>8. CASE WriteUser
  <2>1. job.user \in Users
    BY <1>8, SingleUser DEF WriteUser, Serving
  <2>2. /\ row' \in [Users -> Versions] /\ alts' \in [Users -> Versions]
        /\ index' \in [Users -> Versions]
    BY <1>0, <1>8, <2>1, WrittenTypes DEF WriteUser, TypeOK
  <2>3. rep' \in [Users -> SUBSET (1..MAX_VERSION)] /\ HistoryTyped'
    BY <1>0, <1>8, <2>1 DEF WriteUser, TypeOK, HistoryTyped
  <2> QED BY <1>0, <1>8, <2>2, <2>3, ExitInv DEF WriteUser, TypeOK, Outcomes
<1>9. CASE WriteUserRaises
  <2>1. faults' \in 0..MAX_FAULTS
    BY <1>0, <1>9, FaultTypes DEF WriteUserRaises, TypeOK
  <2> QED BY <1>0, <1>9, <2>1, ExitInv DEF WriteUserRaises, database, history, lost, HistoryTyped, TypeOK, Outcomes
<1> QED BY <1>2, <1>3, <1>4, <1>5, <1>6, <1>7, <1>8, <1>9

LEMMA ClearingSteps ==
  ASSUME CommandInv, Load \/ DropFts \/ Clear
  PROVE  CommandInv'
<1>0. TypeOK /\ Phases
  BY DEF CommandInv
<1>1. CASE Load
  <2>1. CASE \E how \in {"empty", "nothing"} : Exit(how)
    BY <1>0, <1>1, <2>1, ExitInv DEF Load, database, history, lost, HistoryTyped, TypeOK, Outcomes
  <2>2. CASE /\ todo' \subseteq Users /\ pc' = "drop_triggers"
             /\ UNCHANGED <<job, pending, open, done, ended>>
    <3>1. pc = "load"
      BY <1>1 DEF Load
    <3>2. TypeOK'
      BY <1>0, <1>1, <2>2 DEF Load, database, history, lost, HistoryTyped, TypeOK, Places
    <3>3. Phases'
      BY <1>0, <2>2, <3>1 DEF Phases, Looping, Serving, IsBulk, OffMode
    <3> QED BY <3>2, <3>3 DEF CommandInv
  <2>3. {u \in Listed : job.overwrite \/ row[u] = 0} \subseteq Users
    BY UserAssumption DEF Listed
  <2> QED BY <1>1, <2>1, <2>2, <2>3 DEF Load
<1>2. CASE DropFts
  <2>1. pc = "drop_fts" /\ HistoryTyped' /\ index' \in [Users -> Versions]
    BY <1>0, <1>2, UserAssumption DEF DropFts, TypeOK, HistoryTyped, NoRows, Versions
  <2>2. pc' \in {"clear", "loop"} /\ UNCHANGED work
    BY <1>2 DEF DropFts, Goto
  <2>3. TypeOK'
    BY <1>0, <1>2, <2>1, <2>2 DEF DropFts, HistoryTyped, work, TypeOK, Places
  <2>4. Phases'
    BY <1>0, <2>1, <2>2 DEF Phases, work, Looping, Serving, IsBulk, OffMode
  <2> QED BY <2>3, <2>4 DEF CommandInv
<1>3. CASE Clear
  <2>1. row' \in [Users -> Versions] /\ alts' \in [Users -> Versions]
    <3>1. \A f \in [Users -> Versions] : \A S : Cleared(f, S, 0) \in [Users -> Versions]
      BY UserAssumption DEF Cleared, Versions
    <3> QED BY <1>0, <1>3, <3>1 DEF Clear, TypeOK
  <2>2. rep' \in [Users -> SUBSET (1..MAX_VERSION)]
    <3>1. \A u \in Users : rep[u] \in SUBSET (1..MAX_VERSION)
      BY <1>0 DEF TypeOK
    <3> QED BY <1>3, <3>1 DEF Clear, Cleared
  <2>3. bare' \subseteq Users /\ todo' \subseteq Users
    BY <1>0, <1>3, UserAssumption DEF Clear, TypeOK
  <2>4. TypeOK'
    BY <1>0, <1>3, <2>1, <2>2, <2>3 DEF Clear, lost, TypeOK, Places
  <2>5. Phases'
    BY <1>0, <1>3 DEF Clear, Phases, Looping, Serving, IsBulk, OffMode
  <2> QED BY <2>4, <2>5 DEF CommandInv
<1> QED BY <1>1, <1>2, <1>3
LEMMA LoopSteps ==
  ASSUME CommandInv, (\E u \in Users : HandleResult(u) \/ AltsRaise(u)) \/ EndLoop
                     \/ Flush \/ FlushKept \/ FlushFatal \/ Rebuild
  PROVE  CommandInv'
<1>0. TypeOK /\ Phases
  BY DEF CommandInv
<1>1. ASSUME NEW u \in Users, HandleResult(u)
      PROVE  CommandInv'
  <2>1. /\ pc = "loop" /\ pc' \in {"loop", "flush"}
        /\ todo' = todo \ {u} /\ pending' \in {pending, pending \cup {u}}
        /\ done' \in {done, done \cup {u}} /\ (~OffMode => done' = done)
        /\ UNCHANGED <<database, job, open, ended, version, faults, history>>
    BY <1>1 DEF HandleResult
  <2>2. TypeOK'
    BY <1>0, <2>1 DEF database, history, lost, HistoryTyped, TypeOK, Places
  <2>3. Phases'
    BY <1>0, <2>1 DEF Phases, Looping, Serving, IsBulk, OffMode
  <2> QED BY <2>2, <2>3 DEF CommandInv
<1>2. CASE EndLoop
  BY <1>0, <1>2, GotoInv DEF EndLoop, database, history, lost, HistoryTyped, TypeOK, Places, Looping, Serving
<1>3. CASE Flush
  <2>1. PICK rows, entries : Stored(rows, entries)
    BY <1>3 DEF Flush
  <2>2. /\ row' \in [Users -> Versions] /\ alts' \in [Users -> Versions]
        /\ rep' \in [Users -> SUBSET (1..MAX_VERSION)]
    BY <1>0, <2>1, StoredTypes
  <2>3. /\ Flushing /\ HistoryTyped'
        /\ UNCHANGED <<schema, triggers, index, version, faults>>
    BY <1>0, <1>3 DEF Flush, TypeOK, lost, HistoryTyped
  <2>4. CASE Exit("done")
    BY <1>0, <2>2, <2>3, <2>4, ExitInv DEF TypeOK, Outcomes
  <2>5. CASE /\ ~(pc = "flush_last" /\ ~IsBulk)
             /\ pc' = IF pc = "flush" THEN "loop" ELSE "rebuild"
             /\ pending' = {} /\ open' = FALSE
             /\ UNCHANGED <<job, todo, done, ended>>
    <3>1. TypeOK'
      BY <1>0, <2>2, <2>3, <2>5 DEF TypeOK, HistoryTyped, Places
    <3>2. Phases'
      BY <1>0, <2>3, <2>5 DEF Phases, Flushing, Looping, Serving, IsBulk, OffMode
    <3> QED BY <3>1, <3>2 DEF CommandInv
  <2> QED BY <1>3, <2>4, <2>5 DEF Flush
<1>4. CASE FlushKept
  <2>1. faults' \in 0..MAX_FAULTS
    BY <1>0, <1>4, FaultTypes DEF FlushKept
  <2>2. TypeOK'
    BY <1>0, <1>4, <2>1 DEF FlushKept, database, history, lost, HistoryTyped, TypeOK, Places
  <2>3. Phases'
    BY <1>0, <1>4 DEF FlushKept, Phases, Looping, Serving, IsBulk, OffMode
  <2> QED BY <2>2, <2>3 DEF CommandInv
<1>5. CASE FlushFatal
  <2>1. faults' \in 0..MAX_FAULTS
    BY <1>0, <1>5, FaultTypes DEF FlushFatal
  <2> QED BY <1>0, <1>5, <2>1, ExitInv DEF FlushFatal, database, history, lost, HistoryTyped, TypeOK, Outcomes
<1>6. CASE Rebuild
  <2>1. pc = "rebuild" /\ triggers' \subseteq Triggers /\ HistoryTyped'
    BY <1>0, <1>6 DEF Rebuild, TypeOK, HistoryTyped
  <2> QED BY <1>0, <1>6, <2>1, GotoInv DEF Rebuild, TypeOK, Places, Looping, Serving
<1>7. ASSUME NEW u \in Users, AltsRaise(u)
      PROVE  CommandInv'
  BY <1>0, <1>7, ExitInv DEF AltsRaise, database, history, lost, HistoryTyped, TypeOK, Outcomes
<1> QED BY <1>1, <1>2, <1>3, <1>4, <1>5, <1>6, <1>7

LEMMA AccidentSteps ==
  ASSUME CommandInv, Accidents \/ StartOver \/ NewVersion
  PROVE  CommandInv'
<1>0. TypeOK /\ Phases
  BY DEF CommandInv
<1>1. ASSUME NEW how \in {"failed", "crashed", "malformed"}, Torn(how)
      PROVE  CommandInv'
  <2>1. PICK rows \in SUBSET pending, entries \in SUBSET pending :
          /\ Stored(IF IsBulk THEN rows ELSE {}, entries)
          /\ bare' = AfterDeath(entries) \cup IF IsBulk THEN rows \ entries ELSE {}
    BY <1>1 DEF Torn
  <2>2. /\ row' \in [Users -> Versions] /\ alts' \in [Users -> Versions]
        /\ rep' \in [Users -> SUBSET (1..MAX_VERSION)]
    BY <1>0, <2>1, StoredTypes
  <2>3. faults' \in 0..MAX_FAULTS /\ HistoryTyped'
    BY <1>0, <1>1, <2>1, FaultTypes DEF Torn, AfterDeath, TypeOK, lost, HistoryTyped
  <2> QED BY <1>0, <1>1, <2>2, <2>3, ExitInv DEF Torn, TypeOK, Outcomes
<1>2. CASE TornClear
  <2>1. PICK S \in SUBSET Users : rep' = Cleared(rep, S, {}) /\ bare' = bare \cup S
    BY <1>2 DEF TornClear
  <2>2. rep' \in [Users -> SUBSET (1..MAX_VERSION)] /\ HistoryTyped'
    <3>1. \A u \in Users : rep[u] \in SUBSET (1..MAX_VERSION)
      BY <1>0 DEF TypeOK
    <3>2. HistoryTyped'
      BY <1>0, <1>2, <2>1 DEF TornClear, lost, HistoryTyped, TypeOK
    <3> QED BY <1>0, <2>1, <3>1, <3>2 DEF Cleared, TypeOK
  <2>3. faults' \in 0..MAX_FAULTS
    BY <1>0, <1>2, FaultTypes DEF TornClear
  <2> QED BY <1>0, <1>2, <2>2, <2>3, ExitInv DEF TornClear, TypeOK, Outcomes
<1>3. CASE Crash
  <2>1. faults' \in 0..MAX_FAULTS /\ HistoryTyped'
    BY <1>0, <1>3, FaultTypes DEF Crash, AfterDeath, lost, HistoryTyped, TypeOK
  <2> QED BY <1>0, <1>3, <2>1, ExitInv DEF Crash, database, TypeOK, Outcomes
<1>4. CASE StartOver
  <2>1. NoRows \in [Users -> Versions]
        /\ [u \in Users |-> {}] \in [Users -> SUBSET (1..MAX_VERSION)]
    BY UserAssumption DEF NoRows, Versions
  <2>2. TypeOK'
    BY <1>0, <1>4, <2>1 DEF StartOver, TypeOK, Outcomes
  <2>3. Phases'
    BY <1>0, <1>4 DEF StartOver, Phases, Looping, Serving, IsBulk, OffMode
  <2> QED BY <2>2, <2>3 DEF CommandInv
<1>5. CASE NewVersion
  <2>1. version' \in 1..MAX_VERSION
    BY <1>0, <1>5, UserAssumption DEF NewVersion, TypeOK
  <2>2. TypeOK'
    BY <1>0, <1>5, <2>1 DEF NewVersion, database, history, lost, HistoryTyped, TypeOK, Outcomes
  <2>3. Phases'
    BY <1>0, <1>5 DEF NewVersion, Phases, Looping, Serving, IsBulk, OffMode
  <2> QED BY <2>2, <2>3 DEF CommandInv
<1> QED BY <1>1, <1>2, <1>3, <1>4, <1>5 DEF Accidents

LEMMA CommandStep == CommandInv /\ [Next]_vars => CommandInv'
<1> SUFFICES ASSUME CommandInv, [Next]_vars PROVE CommandInv'
  OBVIOUS
<1>1. CASE UNCHANGED vars
  BY <1>1 DEF CommandInv, TypeOK, Phases, IsBulk, OffMode, vars, database, work, history, lost
<1>2. CASE \E j \in Jobs : Start(j)
  BY <1>2, StartInv
<1>3. CASE Step
  BY <1>3, SingleSteps, ClearingSteps, LoopSteps DEF Step
<1>4. CASE Accidents \/ StartOver \/ NewVersion
  BY <1>4, AccidentSteps
<1> QED BY <1>1, <1>2, <1>3, <1>4 DEF Next

(* The types, of every variable, and what each command holds where.         *)
THEOREM UserTypes == Spec => []TypeOK
<1>1. CommandInv => TypeOK
  BY DEF CommandInv
<1> QED BY <1>1, CommandStarts, CommandStep, PTL DEF Spec

-----------------------------------------------------------------------------
(* The full-text index follows the rows: what fts_users, its triggers and  *)
(* the rows say of each other, through failing statements and crashes.      *)

Bulking == {"clear", "loop", "flush", "flush_last", "rebuild"}

\* The full-text table, its triggers and the rows, between any two steps.
FileInv ==
  /\ schema = "none" => index = NoRows
  /\ triggers # {} => schema = "external"
  /\ \A u \in Users \ blind :
       /\ index[u] \in {0, row[u]}
       /\ schema # "none" /\ u \notin hollow => index[u] = row[u]
       /\ schema = "none" /\ ~dropped /\ u \notin hollow => row[u] = 0

\* What a command knows of them where it stands.
PlaceInv ==
  /\ pc \in {"reset", "make"} => schema = "external"
  /\ pc = "drop_fts" => triggers = {}
  /\ IsBulk /\ pc \in Bulking => schema = "none" /\ dropped
  /\ ended = "nothing" => schema = "external"

IndexInv == CommandInv /\ FileInv /\ PlaceInv

-----------------------------------------------------------------------------
LEMMA IndexStarts == Init => IndexInv
<1> SUFFICES ASSUME Init PROVE IndexInv
  OBVIOUS
<1>1. FileInv
  BY DEF Init, FileInv, NoRows, Triggers
<1>2. PlaceInv
  BY DEF Init, PlaceInv, IsBulk, NoJob
<1> QED BY <1>1, <1>2, CommandStarts DEF IndexInv

\* A step that touches neither the rows nor the full-text table.
LEMMA FileKept ==
  ASSUME FileInv, UNCHANGED <<row, schema, triggers, index, lost>>
  PROVE  FileInv'
BY DEF FileInv, lost

\* A command that has ended stands nowhere.
LEMMA ExitPlace ==
  ASSUME NEW how, Exit(how), how = "nothing" => schema' = "external"
  PROVE  PlaceInv'
BY DEF Exit, PlaceInv, Bulking, NoJob, IsBulk

\* Of a command that runs, none has ended.
LEMMA RunningEnd ==
  ASSUME IndexInv, pc # "idle"
  PROVE  ended # "nothing"
BY DEF IndexInv, CommandInv, Phases

-----------------------------------------------------------------------------
(* One lemma for each part of the module.                                   *)

LEMMA StartIndex ==
  ASSUME IndexInv, NEW j \in Jobs, Start(j)
  PROVE  FileInv' /\ PlaceInv'
<1>1. UNCHANGED <<row, schema, triggers, index, lost>>
  BY DEF Start, database, history
<1>2. FileInv'
  BY <1>1, FileKept DEF IndexInv
<1>3. PlaceInv'
  <2>1. /\ pc' \in {"parse", "init", "clear", "loop", "load"}
        /\ pc' \in {"clear", "loop"} => j.kind \in {"reputation", "alts"}
        /\ job' = j /\ ended' = "none"
    BY DEF Start
  <2> QED BY <2>1 DEF PlaceInv, Bulking, IsBulk
<1> QED BY <1>2, <1>3

LEMMA InitIndex ==
  ASSUME IndexInv, InitFts \/ DropTriggers \/ MakeTrigger \/ InitFails
  PROVE  FileInv' /\ PlaceInv'
<1>0. TypeOK /\ Phases /\ FileInv /\ PlaceInv
  BY DEF IndexInv, CommandInv
<1>1. AfterInit \in {"test", "write"}
  BY DEF AfterInit
<1>2. CASE InitFts
  <2>1. /\ pc = "init" /\ UNCHANGED <<row, triggers, index>>
        /\ schema' = IF schema = "none" THEN "external" ELSE schema
        /\ blind' = blind
        /\ \/ schema = "none" /\ hollow' = hollow \cup {u \in Users : row[u] # 0}
           \/ schema # "none" /\ UNCHANGED <<dropped, hollow>>
        /\ pc' = IF schema' = "external" THEN "reset" ELSE AfterInit
        /\ job' = job /\ ended' = ended
    BY <1>2 DEF InitFts, Goto, work
  <2>2. FileInv'
    <3>1. schema = "none" => \A u \in Users : index[u] = 0
      BY <1>0 DEF FileInv, NoRows
    <3> QED BY <1>0, <2>1, <3>1 DEF FileInv
  <2>3. ~IsBulk /\ ended # "nothing"
    BY <1>0, <2>1, RunningEnd DEF Phases, Serving, SingleJob, IsBulk
  <2>4. PlaceInv'
    BY <1>1, <2>1, <2>3 DEF PlaceInv, Bulking, IsBulk
  <2> QED BY <2>2, <2>4
<1>3. CASE DropTriggers
  <2>1. /\ pc \in {"reset", "drop_triggers"} /\ triggers' = {}
        /\ UNCHANGED <<row, schema, index, lost>>
        /\ pc' = IF pc = "reset" THEN "make" ELSE "drop_fts"
        /\ job' = job /\ ended' = ended
    BY <1>3 DEF DropTriggers, Goto, work, history
  <2>2. FileInv'
    BY <1>0, <2>1 DEF FileInv, lost
  <2>3. PlaceInv'
    BY <1>0, <2>1, RunningEnd DEF PlaceInv, Bulking, IsBulk
  <2> QED BY <2>2, <2>3
<1>4. CASE MakeTrigger
  <2>1. /\ pc = "make" /\ UNCHANGED <<row, schema, index, lost>>
        /\ \/ pc' = "make" /\ UNCHANGED work
           \/ Exit("done")
           \/ triggers' = Triggers /\ pc' = AfterInit /\ ~IsBulk /\ UNCHANGED work
    BY <1>4 DEF MakeTrigger, Goto, history
  <2>2. schema = "external"
    BY <1>0, <2>1 DEF PlaceInv
  <2>3. FileInv'
    BY <1>0, <2>1, <2>2 DEF FileInv, lost
  <2>4. CASE Exit("done")
    BY <2>3, <2>4, ExitPlace
  <2>5. CASE ~Exit("done")
    BY <1>0, <1>1, <2>1, <2>2, <2>3, <2>5, RunningEnd
       DEF PlaceInv, Bulking, IsBulk, lost, work
  <2> QED BY <2>4, <2>5
<1>5. CASE InitFails
  <2>1. /\ ~IsBulk /\ pc # "idle" /\ UNCHANGED <<row, schema, triggers, index, lost>>
        /\ pc' = AfterInit /\ job' = job /\ ended' = ended
    BY <1>5 DEF InitFails, database, Goto, work, history
  <2>2. FileInv'
    BY <1>0, <2>1, FileKept
  <2>3. PlaceInv'
    BY <1>0, <1>1, <2>1, RunningEnd DEF PlaceInv, Bulking, IsBulk
  <2> QED BY <2>2, <2>3
<1> QED BY <1>2, <1>3, <1>4, <1>5

LEMMA SingleIndex ==
  ASSUME IndexInv, FindUser \/ ParseUser \/ WriteUser \/ WriteUserRaises
  PROVE  FileInv' /\ PlaceInv'
<1>0. TypeOK /\ Phases /\ FileInv /\ PlaceInv
  BY DEF IndexInv, CommandInv
<1>1. CASE FindUser \/ ParseUser \/ WriteUserRaises
  <2>1. UNCHANGED <<row, schema, triggers, index, lost>>
    BY <1>1 DEF FindUser, ParseUser, WriteUserRaises, database, history
  <2>2. FileInv'
    BY <1>0, <2>1, FileKept
  <2>3. \/ \E how \in {"skipped", "failed"} : Exit(how)
        \/ pc' \in {"parse", "init"} /\ pc # "idle" /\ ended' = ended
    BY <1>1 DEF FindUser, ParseUser, WriteUserRaises, Goto, work
  <2>4. PlaceInv'
    BY <2>3, ExitPlace, RunningEnd DEF PlaceInv, Bulking
  <2> QED BY <2>2, <2>4
<1>2. CASE WriteUser
  <2>1. job.user \in Users
    BY <1>2, SingleUser DEF IndexInv, WriteUser, Serving
  <2>2. /\ pc = "write" /\ UNCHANGED <<schema, triggers, dropped, hollow>> /\ Exit("done")
        /\ row' = Written(row, job.user)
        /\ index' = IF Followed(job.user) THEN Written(index, job.user) ELSE index
        /\ blind' = IF Followed(job.user) THEN blind ELSE blind \cup {job.user}
    BY <1>2 DEF WriteUser
  <2>3. PlaceInv'
    BY <2>2, ExitPlace
  <2>4. Followed(job.user) => schema # "none"
    BY <1>0, <2>2 DEF FileInv, Followed, Fires
  <2>5. FileInv'
    <3>1. CASE Followed(job.user)
      BY <1>0, <2>1, <2>2, <2>4, <3>1 DEF FileInv, Written, TypeOK
    <3>2. CASE ~Followed(job.user)
      BY <1>0, <2>1, <2>2, <3>2 DEF FileInv, Written, TypeOK
    <3> QED BY <3>1, <3>2
  <2> QED BY <2>3, <2>5
<1> QED BY <1>1, <1>2

LEMMA LoadIndex ==
  ASSUME IndexInv, Load \/ DropFts \/ Clear
  PROVE  FileInv' /\ PlaceInv'
<1>0. TypeOK /\ Phases /\ FileInv /\ PlaceInv
  BY DEF IndexInv, CommandInv
<1>1. CASE Load
  <2>1. UNCHANGED <<row, schema, triggers, index, lost>>
    BY <1>1 DEF Load, database, history
  <2>2. FileInv'
    BY <1>0, <2>1, FileKept
  <2>3. \/ Exit("empty")
        \/ schema = "external" /\ Exit("nothing")
        \/ pc' = "drop_triggers" /\ pc # "idle" /\ ended' = ended
    BY <1>1 DEF Load
  <2>4. PlaceInv'
    BY <2>1, <2>3, ExitPlace, RunningEnd DEF PlaceInv, Bulking
  <2> QED BY <2>2, <2>4
<1>2. CASE DropFts
  <2>1. /\ pc = "drop_fts" /\ schema' = "none" /\ index' = NoRows
        /\ dropped' = TRUE /\ UNCHANGED <<row, triggers, hollow, blind>>
        /\ pc' \in {"clear", "loop"} /\ ended' = ended
    BY <1>2 DEF DropFts, Goto, work
  <2>2. \A u \in Users : index'[u] = 0
    BY <2>1 DEF NoRows
  <2>3. FileInv'
    BY <1>0, <2>1, <2>2 DEF FileInv, PlaceInv
  <2>4. PlaceInv'
    BY <2>1, RunningEnd DEF PlaceInv
  <2> QED BY <2>3, <2>4
<1>3. CASE Clear
  <2>1. /\ pc = "clear" /\ pc' = "loop" /\ job' = job /\ ended' = ended
        /\ UNCHANGED <<schema, triggers, index, lost>>
        /\ ~IsBulk => row' = row
    BY <1>3 DEF Clear
  <2>2. IsBulk => schema = "none" /\ dropped
    BY <1>0, <2>1 DEF PlaceInv, Bulking
  <2>3. PlaceInv'
    BY <2>1, <2>2, RunningEnd DEF PlaceInv, IsBulk, Bulking, lost
  <2>4. CASE IsBulk
    <3>1. \A u \in Users : index[u] = 0
      BY <1>0, <2>2, <2>4 DEF FileInv, NoRows
    <3> QED BY <1>0, <2>1, <2>2, <2>3, <2>4, <3>1 DEF FileInv, lost
  <2>5. CASE ~IsBulk
    BY <1>0, <2>1, <2>3, <2>5, FileKept
  <2> QED BY <2>4, <2>5
<1> QED BY <1>1, <1>2, <1>3

\* While a bulk run holds a batch there is no full-text table to follow it.
LEMMA StoredIndex ==
  ASSUME IndexInv, NEW rows, NEW entries, Stored(rows, entries),
         UNCHANGED <<schema, triggers, index, lost>>,
         IsBulk => pc \in Bulking
  PROVE  FileInv'
<1>0. FileInv /\ PlaceInv
  BY DEF IndexInv
<1>1. CASE IsBulk
  <2>1. schema = "none" /\ dropped
    BY <1>0, <1>1 DEF PlaceInv
  <2>2. \A u \in Users : index[u] = 0
    BY <1>0, <2>1 DEF FileInv, NoRows
  <2> QED BY <1>0, <2>1, <2>2 DEF FileInv, lost
<1>2. CASE ~IsBulk
  <2>1. row' = row
    BY <1>2 DEF Stored
  <2> QED BY <1>0, <2>1, FileKept
<1> QED BY <1>1, <1>2

LEMMA LoopIndex ==
  ASSUME IndexInv, (\E u \in Users : HandleResult(u) \/ AltsRaise(u)) \/ EndLoop
                   \/ Flush \/ FlushKept \/ FlushFatal \/ Rebuild
  PROVE  FileInv' /\ PlaceInv'
<1>0. TypeOK /\ Phases /\ FileInv /\ PlaceInv
  BY DEF IndexInv, CommandInv
<1>1. CASE \/ \E u \in Users : HandleResult(u) \/ AltsRaise(u)
           \/ EndLoop \/ FlushKept \/ FlushFatal
  <2>1. UNCHANGED <<row, schema, triggers, index, lost>>
    BY <1>1 DEF HandleResult, AltsRaise, EndLoop, FlushKept, FlushFatal, database, history
  <2>2. FileInv'
    BY <1>0, <2>1, FileKept
  <2>3. \/ Exit("failed")
        \/ pc \in Looping /\ pc' \in Looping /\ job' = job /\ ended' = ended
    BY <1>1 DEF HandleResult, AltsRaise, EndLoop, FlushKept, FlushFatal, Goto, work, Looping
  <2>4. CASE Exit("failed")
    BY <2>2, <2>4, ExitPlace
  <2>5. CASE ~Exit("failed")
    BY <1>0, <2>1, <2>2, <2>3, <2>5, RunningEnd DEF PlaceInv, Looping, Bulking, IsBulk, lost
  <2> QED BY <2>4, <2>5
<1>2. CASE Flush
  <2>1. /\ Flushing /\ UNCHANGED <<schema, triggers, index, lost>>
        /\ \E rows, entries : Stored(rows, entries)
    BY <1>2 DEF Flush
  <2>2. FileInv'
    BY <2>1, StoredIndex DEF Flushing, Bulking
  <2>3. \/ Exit("done")
        \/ pc' \in {"loop", "rebuild"} /\ job' = job /\ ended' = ended
    BY <1>2 DEF Flush
  <2>4. CASE Exit("done")
    BY <2>2, <2>4, ExitPlace
  <2>5. CASE ~Exit("done")
    BY <1>0, <2>1, <2>2, <2>3, <2>5, RunningEnd DEF PlaceInv, Flushing, Bulking, IsBulk, lost
  <2> QED BY <2>4, <2>5
<1>3. CASE Rebuild
  <2>1. /\ pc = "rebuild" /\ pc' = "make" /\ schema' = "external" /\ index' = row
        /\ triggers' = {} /\ row' = row /\ ended' = ended
    BY <1>3 DEF Rebuild, Goto, work
  <2>2. FileInv'
    BY <2>1 DEF FileInv
  <2>3. PlaceInv'
    BY <2>1, RunningEnd DEF PlaceInv, Bulking
  <2> QED BY <2>2, <2>3
<1> QED BY <1>1, <1>2, <1>3

LEMMA AccidentIndex ==
  ASSUME IndexInv, Accidents \/ StartOver \/ NewVersion
  PROVE  FileInv' /\ PlaceInv'
<1>0. TypeOK /\ Phases /\ FileInv /\ PlaceInv
  BY DEF IndexInv, CommandInv
<1>1. ASSUME NEW how \in {"failed", "crashed", "malformed"}, Torn(how)
      PROVE  FileInv' /\ PlaceInv'
  <2>1. /\ Exit(how) /\ pending # {} /\ UNCHANGED <<schema, triggers, index, lost>>
        /\ \E rows, entries : Stored(rows, entries)
    BY <1>1 DEF Torn
  <2>2. pc \in Bulking
    BY <1>0, <2>1 DEF Phases, Looping, Bulking
  <2> QED BY <2>1, <2>2, StoredIndex, ExitPlace
<1>2. CASE TornClear \/ Crash
  <2>1. /\ \E how \in {"failed", "crashed", "malformed"} : Exit(how)
        /\ UNCHANGED <<row, schema, triggers, index, lost>>
    BY <1>2 DEF TornClear, Crash, database
  <2> QED BY <1>0, <2>1, FileKept, ExitPlace
<1>3. CASE StartOver
  <2>1. /\ row' = NoRows /\ schema' = "none" /\ triggers' = {} /\ index' = NoRows
        /\ ended' = "none" /\ pc' = pc /\ job' = job
    BY <1>3 DEF StartOver
  <2>2. pc = "idle"
    BY <1>0, <1>3 DEF StartOver, Phases
  <2> QED BY <2>1, <2>2 DEF FileInv, PlaceInv, NoRows, Bulking
<1>4. CASE NewVersion
  <2>1. /\ UNCHANGED <<row, schema, triggers, index, lost, pc>>
        /\ pc = "idle" /\ ended' = "none"
    BY <1>4 DEF NewVersion, database, history
  <2> QED BY <1>0, <2>1, FileKept DEF PlaceInv, Bulking
<1> QED BY <1>1, <1>2, <1>3, <1>4 DEF Accidents

LEMMA IndexStep == IndexInv /\ [Next]_vars => IndexInv'
<1> SUFFICES ASSUME IndexInv, [Next]_vars PROVE IndexInv'
  OBVIOUS
<1>1. CommandInv'
  BY CommandStep DEF IndexInv
<1>2. CASE UNCHANGED vars
  BY <1>2, <1>1 DEF IndexInv, FileInv, PlaceInv, Bulking, IsBulk, lost,
                    vars, database, work, history
<1>3. CASE \E j \in Jobs : Start(j)
  BY <1>1, <1>3, StartIndex DEF IndexInv
<1>4. CASE Step
  BY <1>1, <1>4, InitIndex, SingleIndex, LoadIndex, LoopIndex DEF Step, IndexInv
<1>5. CASE Accidents \/ StartOver \/ NewVersion
  BY <1>1, <1>5, AccidentIndex DEF IndexInv
<1> QED BY <1>2, <1>3, <1>4, <1>5 DEF Next

-----------------------------------------------------------------------------
(* A search finds no text that is not the row's, whatever died, but for the *)
(* users written after init_users_db had swallowed an error                *)
(* (profile_parser.py:537) and left their trigger missing.                  *)
THEOREM IndexNeverStale == Spec => []IndexSound
<1>1. IndexInv => IndexSound
  BY DEF IndexInv, FileInv, IndexSound, Found
<1> QED BY <1>1, IndexStarts, IndexStep, PTL DEF Spec

(* At the end of every command, a crashed one included, fts_users holds     *)
(* exactly the rows, unless a bulk run dropped it and died before its       *)
(* rebuild, and but for two kinds of user: those whose row was there when   *)
(* --user created the table empty, and those written after a swallowed     *)
(* error of init_users_db.                                                  *)
THEOREM IndexKept == Spec => []IntactUnlessLost
<1>1. ASSUME IndexInv, ~dropped, NEW u \in Users \ (hollow \cup blind)
      PROVE  Found(u) = row[u]
  BY <1>1 DEF IndexInv, FileInv, Found
<1>2. IndexInv => IntactUnlessLost
  BY <1>1 DEF IntactUnlessLost
<1> QED BY <1>2, IndexStarts, IndexStep, PTL DEF Spec

(* A bulk run that says there is nothing to do leaves a full-text table     *)
(* that holds every row, but for the same two kinds of user.                *)
THEOREM NothingLeft == Spec => []NothingMeansIndexed
<1>1. IndexInv => NothingMeansIndexed
  BY DEF IndexInv, FileInv, PlaceInv, NothingMeansIndexed
<1> QED BY <1>1, IndexStarts, IndexStep, PTL DEF Spec

-----------------------------------------------------------------------------
(* What a bulk run counts as done, what --repair-alts refreshes and what    *)
(* the reputation follows.                                                  *)

RowsNotAhead == \A u \in Users : row[u] <= version

\* All entries of the stored users are there, until an import has deleted them.
ReputationHeld ==
  job.kind # "reputation" \/ pc = "clear" =>
    \A u \in Users \ bare : row[u] # 0 => \E v \in rep[u] : v >= row[u]

\* Every stored user --repair-alts has passed is refreshed.
Repaired ==
  job.kind = "alts" =>
    \A u \in Users \ (NoAlts \cup todo \cup pending) : row[u] # 0 => alts[u] = version

WorkInv == CommandInv /\ RowsNotAhead /\ ReputationHeld /\ DoneIsStored /\ Repaired

\* The commands that neither store nor delete rows, alts and reputation.
DataKept == UNCHANGED <<row, alts, rep, bare, version>>

-----------------------------------------------------------------------------
LEMMA WorkStarts == Init => WorkInv
<1> SUFFICES ASSUME Init PROVE WorkInv
  OBVIOUS
<1>1. RowsNotAhead
  BY DEF Init, RowsNotAhead, NoRows
<1>2. ReputationHeld
  <2>1. ASSUME NEW u \in Users, row[u] # 0
        PROVE  row[u] = 1 /\ rep[u] = {1}
    BY <2>1 DEF Init, NoRows
  <2> QED BY <2>1 DEF ReputationHeld
<1>3. DoneIsStored /\ Repaired
  BY DEF Init, DoneIsStored, Repaired, NoJob
<1> QED BY <1>1, <1>2, <1>3, CommandStarts DEF WorkInv

\* The invariants of the data alone survive a step that leaves the data.
LEMMA KeptData ==
  ASSUME WorkInv, DataKept,
         \/ job.kind # "reputation"
         \/ job' = job /\ (pc' = "clear" => pc = "clear")
  PROVE  RowsNotAhead' /\ ReputationHeld'
BY DEF WorkInv, DataKept, RowsNotAhead, ReputationHeld

\* At the end of a command nothing counts as done.
LEMMA ExitWork ==
  ASSUME NEW how, Exit(how)
  PROVE  DoneIsStored' /\ Repaired'
BY DEF Exit, DoneIsStored, Repaired, NoJob

\* A step of a command that leaves the data and what it holds.
LEMMA GotoWork ==
  ASSUME WorkInv, DataKept, NEW place, Goto(place), CommandInv'
  PROVE  DoneIsStored' /\ Repaired'
<1>1. \A u \in done' \ pending' : version' \in rep'[u] /\ (IsBulk' => row'[u] = version')
  BY DEF WorkInv, DoneIsStored, DataKept, Goto, work, IsBulk
<1>2. pc' \in {"rebuild", "make"} => pending' = {}
  BY DEF CommandInv, Phases, Looping
<1>3. Repaired'
  BY DEF WorkInv, Repaired, DataKept, Goto, work
<1> QED BY <1>1, <1>2, <1>3 DEF DoneIsStored

-----------------------------------------------------------------------------
LEMMA StartWork ==
  ASSUME WorkInv, NEW j \in Jobs, Start(j)
  PROVE  RowsNotAhead' /\ ReputationHeld' /\ DoneIsStored' /\ Repaired'
<1>1. DataKept /\ done' = done /\ pending' = pending /\ pc = "idle"
  BY DEF Start, database, history, DataKept
<1>2. done = {} /\ pending = {} /\ job.kind # "reputation"
  BY <1>1 DEF WorkInv, CommandInv, Phases, Looping
<1>3. DoneIsStored'
  BY <1>1, <1>2 DEF DoneIsStored
<1>4. Repaired'
  BY DEF Start, Repaired
<1> QED BY <1>1, <1>2, <1>3, <1>4, KeptData

\* All steps outside the loops that leave the data.
LEMMA IdleWork ==
  ASSUME WorkInv, CommandInv',
         InitFts \/ DropTriggers \/ MakeTrigger \/ InitFails \/ FindUser \/ ParseUser
         \/ WriteUserRaises \/ Load \/ DropFts \/ (\E u \in Users : AltsRaise(u)) \/ EndLoop
         \/ FlushFatal \/ Rebuild
  PROVE  RowsNotAhead' /\ ReputationHeld' /\ DoneIsStored' /\ Repaired'
<1>1. DataKept
  BY DEF InitFts, DropTriggers, MakeTrigger, InitFails, FindUser, ParseUser,
         WriteUserRaises, Load, DropFts, AltsRaise, EndLoop, FlushFatal, Rebuild,
         database, history, DataKept
<1>5. \/ job.kind # "reputation"
      \/ job' = job /\ pc' # "clear"
  <2>1. CASE EndLoop
    BY <2>1 DEF EndLoop, Goto, work
  <2>2. CASE ~EndLoop
    <3>1. \/ pc \notin Looping \cup {"clear"}
          \/ job.kind \notin {"zip", "folders", "reputation"}
      BY <2>2 DEF InitFts, DropTriggers, MakeTrigger, InitFails, FindUser, ParseUser,
         WriteUserRaises, Load, DropFts, AltsRaise, FlushFatal, Rebuild, OffMode, Looping
    <3> QED BY <3>1 DEF WorkInv, CommandInv, Phases
  <2> QED BY <2>1, <2>2
<1>2. \/ \E how : Exit(how)
      \/ \E place : Goto(place)
      \/ /\ pc \in {"parse", "load"} /\ pc' \in {"init", "drop_triggers"}
         /\ UNCHANGED <<job, pending, done>>
  <2>1. InitFts \/ DropTriggers \/ InitFails \/ DropFts \/ EndLoop \/ Rebuild
        => \E place : Goto(place)
    BY DEF InitFts, DropTriggers, InitFails, DropFts, EndLoop, Rebuild
  <2>2. WriteUserRaises \/ FlushFatal \/ (\E u \in Users : AltsRaise(u)) => \E how : Exit(how)
    BY DEF WriteUserRaises, FlushFatal, AltsRaise
  <2>3. MakeTrigger \/ FindUser => (\E how : Exit(how)) \/ \E place : Goto(place)
    BY DEF MakeTrigger, FindUser
  <2>4. ParseUser \/ Load
        => \/ \E how : Exit(how)
           \/ /\ pc \in {"parse", "load"} /\ pc' \in {"init", "drop_triggers"}
              /\ UNCHANGED <<job, pending, done>>
    BY DEF ParseUser, Load
  <2> QED BY <2>1, <2>2, <2>3, <2>4
<1>3. CASE (\E how : Exit(how)) \/ \E place : Goto(place)
  BY <1>1, <1>5, <1>3, KeptData, ExitWork, GotoWork
<1>4. CASE /\ pc \in {"parse", "load"} /\ pc' \in {"init", "drop_triggers"}
           /\ UNCHANGED <<job, pending, done>>
  <2>1. done = {} /\ job.kind # "alts"
    BY <1>4 DEF WorkInv, CommandInv, Phases, Looping
  <2>2. DoneIsStored' /\ Repaired'
    BY <1>4, <2>1 DEF DoneIsStored, Repaired
  <2> QED BY <1>1, <1>5, <2>2, KeptData
<1> QED BY <1>2, <1>3, <1>4

LEMMA WriteWork ==
  ASSUME WorkInv, WriteUser
  PROVE  RowsNotAhead' /\ ReputationHeld' /\ DoneIsStored' /\ Repaired'
<1>0. TypeOK /\ RowsNotAhead /\ ReputationHeld /\ version \in Versions
  BY WrittenTypes DEF WorkInv, CommandInv
<1>5. job.kind # "reputation"
  BY SingleUser DEF WorkInv, WriteUser, Serving
<1>1. /\ Exit("done") /\ version' = version
      /\ row' = [row EXCEPT ![job.user] = version]
      /\ rep' = [rep EXCEPT ![job.user] = {version}]
      /\ bare' = bare \ {job.user}
  BY DEF WriteUser, Written
<1>2. job.user \in Users
  BY SingleUser DEF WorkInv, WriteUser, Serving
<1>3. RowsNotAhead'
  BY <1>0, <1>1, <1>2 DEF TypeOK, RowsNotAhead, Versions
<1>4. ASSUME NEW u \in Users \ bare', row'[u] # 0
      PROVE  \E v \in rep'[u] : v >= row'[u]
  <2>1. CASE u = job.user
    BY <1>0, <1>1, <1>2, <2>1 DEF TypeOK, Versions
  <2>2. CASE u # job.user
    BY <1>0, <1>1, <1>2, <1>4, <1>5, <2>2 DEF TypeOK, ReputationHeld
  <2> QED BY <2>1, <2>2
<1> QED BY <1>1, <1>3, <1>4, ExitWork DEF ReputationHeld

LEMMA ClearWork ==
  ASSUME WorkInv, CommandInv', Clear
  PROVE  RowsNotAhead' /\ ReputationHeld' /\ DoneIsStored' /\ Repaired'
<1>0. TypeOK /\ Phases /\ RowsNotAhead /\ ReputationHeld /\ version \in Versions
  BY WrittenTypes DEF WorkInv, CommandInv
<1>1. /\ pc = "clear" /\ pc' = "loop" /\ UNCHANGED <<job, pending, done, version>>
      /\ rep' = Cleared(rep, Gone, {})
      /\ IsBulk => row' = Cleared(row, Gone, 0) /\ bare' = bare \ Gone
      /\ ~IsBulk => row' = row
  BY DEF Clear
<1>2. done = {} /\ job.kind # "alts"
  BY <1>0, <1>1 DEF Phases, Looping
<1>3. DoneIsStored' /\ Repaired'
  BY <1>1, <1>2 DEF DoneIsStored, Repaired
<1>4. RowsNotAhead'
  BY <1>0, <1>1 DEF Cleared, RowsNotAhead, Versions, TypeOK
<1>5. ReputationHeld'
  <2>1. CASE ~IsBulk
    <3>1. job.kind = "reputation"
      BY <1>0, <1>1, <2>1 DEF IsBulk, OffMode, Phases
    <3> QED BY <1>1, <3>1 DEF ReputationHeld
  <2>2. CASE IsBulk
    BY <1>0, <1>1, <2>2 DEF Cleared, ReputationHeld, IsBulk
  <2> QED BY <2>1, <2>2
<1> QED BY <1>3, <1>4, <1>5

LEMMA ResultWork ==
  ASSUME WorkInv, NEW u \in Users, HandleResult(u)
  PROVE  RowsNotAhead' /\ ReputationHeld' /\ DoneIsStored' /\ Repaired'
<1>1. /\ DataKept /\ job' = job /\ todo' = todo \ {u} /\ alts' = alts
      /\ pc' \in {"loop", "flush"}
  BY DEF HandleResult, database, history, DataKept
<1>2. \/ pending' = pending \cup {u} /\ done' \subseteq done \cup {u}
      \/ Skippable(u) /\ UNCHANGED <<pending, done>>
  BY DEF HandleResult
<1>3. DoneIsStored'
  BY <1>1, <1>2 DEF WorkInv, DoneIsStored, DataKept, IsBulk
<1>4. job.kind = "alts" /\ Skippable(u) => u \in NoAlts
  BY DEF Skippable, OffMode, IsBulk
<1>5. Repaired'
  BY <1>1, <1>2, <1>4 DEF WorkInv, Repaired, DataKept
<1> QED BY <1>1, <1>3, <1>5, KeptData

\* What a batch stores is of this version, of whichever users.
LEMMA StoredRows ==
  ASSUME WorkInv, job.kind # "reputation",
         NEW rows, NEW entries, Stored(rows, entries), version' = version,
         bare \subseteq bare' \cup entries, IsBulk => rows \subseteq entries \cup bare'
  PROVE  RowsNotAhead' /\ ReputationHeld'
<1>0. TypeOK /\ RowsNotAhead /\ ReputationHeld /\ version \in Versions
  BY WrittenTypes DEF WorkInv, CommandInv
<1>1. \A u \in Users : /\ row'[u] = IF IsBulk /\ u \in rows THEN version ELSE row[u]
                       /\ rep'[u] = IF u \in entries THEN rep[u] \cup {version} ELSE rep[u]
  BY DEF Stored
<1>2. RowsNotAhead'
  <2>1. ASSUME NEW u \in Users
        PROVE  row'[u] <= version
    <3>1. row'[u] = version \/ row'[u] = row[u]
      BY <1>1
    <3>2. version <= version /\ row[u] <= version
      BY <1>0, UserAssumption DEF RowsNotAhead, TypeOK
    <3> QED BY <3>1, <3>2
  <2> QED BY <2>1 DEF RowsNotAhead
<1>3. ASSUME NEW u \in Users \ bare', row'[u] # 0
      PROVE  \E v \in rep'[u] : v >= row'[u]
  <2>1. CASE u \in entries
    <3>1. version \in rep'[u] /\ version >= row'[u]
      BY <1>0, <1>1, <1>2, <2>1 DEF RowsNotAhead, TypeOK, Versions
    <3> QED BY <3>1
  <2>2. CASE u \notin entries
    <3>1. row'[u] = row[u] /\ rep'[u] = rep[u] /\ u \notin bare
      BY <1>1, <1>3, <2>2
    <3> QED BY <1>0, <1>3, <3>1 DEF ReputationHeld
  <2> QED BY <2>1, <2>2
<1> QED BY <1>2, <1>3 DEF ReputationHeld

\* The import leaves the rows, and those it counts as stored are complete.
LEMMA StoredReputation ==
  ASSUME WorkInv, row' = row, version' = version,
         \A u \in Users \ bare' : version \in rep'[u]
  PROVE  RowsNotAhead' /\ ReputationHeld'
<1>1. RowsNotAhead'
  BY DEF WorkInv, RowsNotAhead
<1>2. \A u \in Users : row[u] <= version /\ row[u] \in Int /\ version \in Int
  BY DEF WorkInv, CommandInv, TypeOK, RowsNotAhead, Versions
<1>3. \A u \in Users : version >= row'[u]
  BY <1>2
<1> QED BY <1>1, <1>3 DEF ReputationHeld

LEMMA FlushWork ==
  ASSUME WorkInv, CommandInv', Flush
  PROVE  RowsNotAhead' /\ ReputationHeld' /\ DoneIsStored' /\ Repaired'
<1>0. TypeOK /\ Phases /\ DoneIsStored /\ Repaired /\ RowsNotAhead
  BY DEF WorkInv, CommandInv
<1> DEFINE rows == IF job.kind = "reputation" THEN {} ELSE pending
           entries == IF job.kind = "alts" THEN {} ELSE pending
<1>1. /\ Stored(rows, entries) /\ version' = version /\ Flushing
      /\ bare' = IF IsBulk THEN bare \ pending
                 ELSE IF job.kind = "reputation" /\ pc = "flush_last" THEN Users \ done
                 ELSE bare
      /\ \/ Exit("done")
         \/ pc' \in {"loop", "rebuild"} /\ pending' = {} /\ UNCHANGED <<job, todo, done>>
  BY DEF Flush
<1>2. \A u \in Users : rep'[u] = IF u \in entries THEN rep[u] \cup {version} ELSE rep[u]
  BY <1>1 DEF Stored
<1>3. ~OffMode => done = {}
  BY <1>0 DEF Phases
<1>4. \A u \in done : u \in Users /\ version \in rep'[u]
  <2>1. ASSUME NEW u \in done
        PROVE  u \in Users /\ version \in rep'[u]
    <3>1. u \in Users /\ job.kind # "alts"
      BY <1>0, <1>3 DEF TypeOK, OffMode
    <3>2. CASE u \in pending
      BY <1>2, <3>1, <3>2
    <3>3. CASE u \notin pending
      BY <1>0, <1>2, <3>1, <3>3 DEF DoneIsStored
    <3> QED BY <3>1, <3>2, <3>3
  <2> QED BY <2>1
<1>5. RowsNotAhead' /\ ReputationHeld'
  <2>1. CASE job.kind # "reputation"
    BY <1>1, <2>1, StoredRows DEF IsBulk
  <2>2. CASE job.kind = "reputation"
    <3>1. row' = row
      BY <1>1, <2>2 DEF Stored, IsBulk
    <3>2. CASE pc = "flush_last"
      <4>1. bare' = Users \ done
        BY <1>1, <2>2, <3>2 DEF IsBulk
      <4> QED BY <1>1, <1>4, <3>1, <4>1, StoredReputation
    <3>3. CASE pc # "flush_last"
      <4>1. job' = job /\ pc' # "clear"
        BY <1>1, <2>2, <3>3 DEF Flush, IsBulk, Flushing
      <4> QED BY <1>0, <1>1, <2>2, <3>1, <4>1 DEF RowsNotAhead, ReputationHeld
    <3> QED BY <3>2, <3>3
  <2> QED BY <2>1, <2>2
<1>6. CASE Exit("done")
  BY <1>5, <1>6, ExitWork
<1>7. CASE pc' \in {"loop", "rebuild"} /\ pending' = {} /\ UNCHANGED <<job, todo, done>>
  <2>1. DoneIsStored'
    <3>1. ASSUME NEW u \in done, IsBulk
          PROVE  row'[u] = version
      BY <1>0, <1>1, <3>1 DEF Stored, DoneIsStored, IsBulk, TypeOK
    <3> QED BY <1>1, <1>4, <1>7, <3>1 DEF DoneIsStored, IsBulk
  <2>2. Repaired'
    BY <1>0, <1>1, <1>7 DEF Stored, Repaired, IsBulk
  <2> QED BY <1>5, <2>1, <2>2
<1> QED BY <1>1, <1>6, <1>7

LEMMA AccidentWork ==
  ASSUME WorkInv, FlushKept \/ (\E how \in {"failed", "crashed", "malformed"} : Torn(how))
                  \/ TornClear \/ Crash \/ StartOver \/ NewVersion
  PROVE  RowsNotAhead' /\ ReputationHeld' /\ DoneIsStored' /\ Repaired'
<1>0. TypeOK /\ Phases /\ RowsNotAhead /\ ReputationHeld /\ version \in Versions
  BY WrittenTypes DEF WorkInv, CommandInv
<1>1. CASE FlushKept
  <2>1. /\ DataKept /\ UNCHANGED <<alts, job, todo, pending, done>> /\ pc' = "loop"
    BY <1>1 DEF FlushKept, database, history, DataKept
  <2>2. DoneIsStored' /\ Repaired'
    BY <2>1 DEF WorkInv, DoneIsStored, Repaired, DataKept, IsBulk
  <2> QED BY <2>1, <2>2, KeptData
<1>2. ASSUME NEW how \in {"failed", "crashed", "malformed"}, Torn(how)
      PROVE  RowsNotAhead' /\ ReputationHeld' /\ DoneIsStored' /\ Repaired'
  <2>1. PICK rows \in SUBSET pending, entries \in SUBSET pending :
          /\ Stored(IF IsBulk THEN rows ELSE {}, entries)
          /\ bare' = AfterDeath(entries) \cup IF IsBulk THEN rows \ entries ELSE {}
    BY <1>2 DEF Torn
  <2>2. Exit(how) /\ version' = version /\ pending # {}
    BY <1>2 DEF Torn
  <2>3. CASE job.kind # "reputation"
    <3>1. bare' = (bare \ entries) \cup IF IsBulk THEN rows \ entries ELSE {}
      BY <2>1, <2>3 DEF AfterDeath
    <3> QED BY <2>1, <2>2, <2>3, <3>1, StoredRows, ExitWork
  <2>4. CASE job.kind = "reputation"
    <3>1. bare' = Users \ ((done \ pending) \cup entries)
      BY <1>0, <2>1, <2>2, <2>4 DEF AfterDeath, IsBulk, Phases, Looping
    <3>2. row' = row
      BY <2>1, <2>4 DEF Stored, IsBulk
    <3>3. ASSUME NEW u \in Users \ bare'
          PROVE  version \in rep'[u]
      <4>1. u \in entries \/ version \in rep[u]
        BY <3>1, <3>3 DEF WorkInv, DoneIsStored
      <4> QED BY <2>1, <4>1 DEF Stored
    <3> QED BY <2>2, <3>2, <3>3, StoredReputation, ExitWork
  <2> QED BY <2>3, <2>4
<1>3. CASE TornClear
  <2>1. PICK S \in SUBSET Users : rep' = Cleared(rep, S, {}) /\ bare' = bare \cup S
    BY <1>3 DEF TornClear
  <2>2. (\E how : Exit(how)) /\ UNCHANGED <<row, version>> /\ pc = "clear"
    BY <1>3 DEF TornClear
  <2>3. RowsNotAhead' /\ ReputationHeld'
    BY <1>0, <2>1, <2>2 DEF Cleared, RowsNotAhead, ReputationHeld
  <2> QED BY <2>2, <2>3, ExitWork
<1>5. CASE Crash
  <2>1. Exit("crashed") /\ UNCHANGED <<row, rep, version>> /\ bare' = AfterDeath({})
    BY <1>5 DEF Crash, database
  <2>2. CASE job.kind = "reputation" /\ pc # "clear"
    <3>1. Users \ bare' \subseteq done \ pending
      BY <2>1, <2>2 DEF AfterDeath
    <3>2. \A u \in Users \ bare' : version \in rep'[u]
      BY <2>1, <3>1 DEF WorkInv, DoneIsStored
    <3> QED BY <2>1, <3>2, StoredReputation, ExitWork
  <2>3. CASE ~(job.kind = "reputation" /\ pc # "clear")
    <3>1. bare' = bare
      BY <2>1, <2>3 DEF AfterDeath
    <3> QED BY <1>0, <2>1, <2>3, <3>1, ExitWork DEF RowsNotAhead, ReputationHeld
  <2> QED BY <2>2, <2>3
<1>4. CASE StartOver \/ NewVersion
  <2>1. /\ UNCHANGED <<pc, job, todo, pending, done>>
        /\ \/ row' = NoRows /\ version' = version
           \/ UNCHANGED <<row, rep, bare>> /\ version' = version + 1
    BY <1>4 DEF StartOver, NewVersion, database, history
  <2>2. pc = "idle"
    BY <1>0, <1>4 DEF StartOver, NewVersion, Phases
  <2>3. done = {} /\ job.kind \notin {"alts", "reputation"}
    BY <1>0, <2>2 DEF Phases, Looping
  <2>4. DoneIsStored' /\ Repaired'
    BY <2>1, <2>2, <2>3 DEF DoneIsStored, Repaired
  <2>5. RowsNotAhead'
    BY <1>0, <2>1, UserAssumption DEF RowsNotAhead, NoRows, Versions, TypeOK
  <2>6. ReputationHeld'
    BY <1>0, <2>1, <2>3 DEF ReputationHeld, NoRows
  <2> QED BY <2>4, <2>5, <2>6
<1> QED BY <1>1, <1>2, <1>3, <1>4, <1>5

LEMMA WorkStep == WorkInv /\ [Next]_vars => WorkInv'
<1> SUFFICES ASSUME WorkInv, [Next]_vars PROVE WorkInv'
  OBVIOUS
<1>0. CommandInv'
  BY CommandStep DEF WorkInv
<1>1. CASE UNCHANGED vars
  BY <1>0, <1>1 DEF WorkInv, RowsNotAhead, ReputationHeld, DoneIsStored, Repaired, IsBulk,
                    vars, database, work, history
<1>2. CASE \E j \in Jobs : Start(j)
  BY <1>0, <1>2, StartWork DEF WorkInv
<1>3. CASE Step \/ Crash
  BY <1>0, <1>3, IdleWork, WriteWork, ClearWork, ResultWork, FlushWork, AccidentWork
     DEF Step, WorkInv
<1>4. CASE Accidents \/ StartOver \/ NewVersion
  BY <1>0, <1>3, <1>4, AccidentWork DEF Accidents, WorkInv
<1> QED BY <1>1, <1>2, <1>3, <1>4 DEF Next

-----------------------------------------------------------------------------
(* Whenever no import is at work, a stored user has all its reputation, of  *)
(* the version of its row or a later one.  Excused, until they are stored  *)
(* again: those whose entries an import deleted and, limited, stopped by a  *)
(* raising page or by its death, did not store; those whose row, but not    *)
(* all of whose entries, a batch without journal left in the file.          *)
THEOREM ReputationKept == Spec => []ReputationFollows
<1>1. WorkInv => ReputationFollows
  BY DEF WorkInv, ReputationHeld, ReputationFollows
<1> QED BY <1>1, WorkStarts, WorkStep, PTL DEF Spec

(* What a bulk run or an import counts as done is stored, or in the batch   *)
(* it still has to write: a batch whose write raised is not forgotten.      *)
THEOREM NothingForgotten == Spec => []DoneIsStored
<1>1. WorkInv => DoneIsStored
  BY DEF WorkInv
<1> QED BY <1>1, WorkStarts, WorkStep, PTL DEF Spec

(* --repair-alts ends without an exception only when it has refreshed every *)
(* stored user who has an alts.html.                                        *)
THEOREM RepairRefreshesAll == Spec => RepairComplete
<1>1. ASSUME WorkInv, [Next]_vars, job.kind = "alts", ended' = "done",
             NEW u \in Users \ NoAlts, row[u] # 0
      PROVE  alts'[u] = version
  <2>1. TypeOK /\ Phases /\ Repaired /\ pc \in Looping /\ ended = "none"
    BY <1>1 DEF WorkInv, CommandInv, Phases, Looping
  <2>2. Flush /\ Exit("done")
    BY <1>1, <2>1 DEF Next, Step, Accidents, Start, StartOver, NewVersion, vars, work, Goto,
       Exit, Looping, InitFts, DropTriggers, MakeTrigger, InitFails, FindUser, ParseUser,
       WriteUser, WriteUserRaises, Load, DropFts, Clear, HandleResult, AltsRaise, EndLoop, Flush,
       FlushKept, FlushFatal, Rebuild, Torn, TornClear, Crash
  <2>3. pc = "flush_last" /\ todo = {}
    BY <2>1, <2>2 DEF Flush, Flushing, Exit, Phases, Looping
  <2>4. Stored(pending, {})
    BY <1>1, <2>2 DEF Flush
  <2> QED BY <1>1, <2>1, <2>3, <2>4 DEF Stored, Repaired
<1>2. WorkInv /\ [Next]_vars
      => [job.kind = "alts" /\ ended' = "done"
          => \A u \in Users \ NoAlts : row[u] # 0 => alts'[u] = version]_vars
  BY <1>1
<1> QED BY <1>2, WorkStarts, WorkStep, PTL DEF Spec, RepairComplete
=============================================================================
