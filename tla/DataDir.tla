------------------------------ MODULE DataDir ------------------------------
(* The data directory over restarts: the one-off split of the combined       *)
(* database (core/migrations/000_split_databases.py), the start of the       *)
(* engine (main.py lifespan, database.initialize), the SQL migrations of the *)
(* per-account files (core/migrations/runner.py), the conversion of the      *)
(* thresholds (convert_thresholds.py) and changes of an account's settings   *)
(* (core/db_account_settings.py).  Either process may die between any two    *)
(* steps that reach the disk; the tool runs while the engine does not.       *)
(*                                                                           *)
(* A file holds for each item the version of its rows, 0 for none.  "global" *)
(* stands for the tables of GLOBAL_TABLES, "bars" for ohlcv_cache, an        *)
(* account for its rows in PER_ACCOUNT_TABLES and "params" for the tables in *)
(* no list, account_params among them.  The engine's own connection is the   *)
(* combined file before and after the split.                                 *)
EXTENDS Naturals, Sequences, SequencesExt

CONSTANTS
    Accounts,     \* accounts of the combined database
    Scripts,      \* the per-account migrations in order: a sequence of kinds
    MaxVersion,   \* bound on the writes of the engine
    MaxCrash      \* bound on crashes

Targets == Accounts \cup {"global", "bars"}
Items == Targets \cup {"params"}
Empty == [i \in Items |-> 0]
Order == <<"global">> \o SetToSeq(Accounts) \o <<"bars">>
Numbers == DOMAIN Scripts

VARIABLES
    legacy, backup,  \* combined file and its renamed copy: there, rows
    there, copy,     \* per target: the split file exists, its rows' version
    marker,          \* .split-complete-v1
    tables,          \* per account file: an accounts table with its row
    applied, log,    \* per account file: scripts whose effects are in, logged
    thresholds,      \* per account file: who wrote them
    converted,       \* per account file: the conversion is logged
    pc, at,          \* the process that runs, and how far it is
    failed,          \* run_all's failed_targets
    clock, last,     \* versions given out; per item the newest one written
    crashes

files == <<legacy, backup, there, copy, marker, tables>>
accts == <<applied, log, thresholds, converted>>
vars == <<files, accts, pc, at, failed, clock, last, crashes>>

TypeOK ==
    /\ \A f \in {legacy, backup} : f.there \in BOOLEAN /\ f.rows \in [Items -> 0 .. MaxVersion]
    /\ there \in [Targets -> BOOLEAN] /\ copy \in [Targets -> 0 .. MaxVersion]
    /\ \A t \in Targets : copy[t] > 0 => there[t]
    /\ marker \in BOOLEAN /\ tables \in [Accounts -> BOOLEAN]
    /\ {applied, log} \subseteq [Accounts -> SUBSET Numbers]
    /\ thresholds \in [Accounts -> {"none", "null", "tuned", "user"}]
    /\ converted \in [Accounts -> BOOLEAN]
    /\ pc \in {"off", "copy", "fill", "rename", "mark", "migrate", "log", "convert", "on"}
    /\ failed \subseteq Accounts /\ (pc \in {"off", "on"} => failed = {})
    /\ clock \in 0 .. MaxVersion /\ last \in [Items -> 0 .. MaxVersion]

\* A combined database; or a layout already split, whose account files hold
\* their accounts row as the tests of the runner make them.
Init ==
    /\ marker \in BOOLEAN
    /\ legacy = [there |-> TRUE, rows |-> [i \in Items |-> IF marker THEN 0 ELSE 1]]
    /\ backup = [there |-> marker, rows |-> [i \in Items |-> IF marker THEN 1 ELSE 0]]
    /\ there = [t \in Targets |-> marker]
    /\ copy = [t \in Targets |-> IF marker THEN 1 ELSE 0]
    /\ tables = [a \in Accounts |-> marker]
    /\ applied = [a \in Accounts |-> {}] /\ log = applied
    /\ thresholds = [a \in Accounts |-> "none"]
    /\ converted = [a \in Accounts |-> FALSE]
    /\ pc = "off" /\ at = 0 /\ failed = {}
    /\ clock = 1 /\ last = [i \in Items |-> 1]
    /\ crashes = 0

Go(p, n) == pc' = p /\ at' = n
Kept == UNCHANGED <<clock, last, crashes>>

Crash ==
    /\ pc # "off" /\ crashes < MaxCrash
    /\ crashes' = crashes + 1
    /\ Go("off", 0) /\ failed' = {}
    /\ UNCHANGED <<files, accts, clock, last>>

-----------------------------------------------------------------------------
(* The split.                                                                *)

\* main, build_plan: nothing to do with the marker or without a source.
SplitStarts ==
    /\ pc = "off" /\ ~marker /\ legacy.there
    /\ Go("copy", 1)
    /\ UNCHANGED <<files, accts, failed>> /\ Kept

\* (Mutant: a file that exists is taken for finished.)
MutOpens ==
    /\ pc = "copy" /\ at \in DOMAIN Order
    /\ there' = [there EXCEPT ![Order[at]] = TRUE]
    /\ IF there[Order[at]] THEN Go("copy", at + 1) ELSE Go("fill", at)
    /\ UNCHANGED <<legacy, backup, copy, marker, tables, accts, failed>> /\ Kept
\* execute opens the next file.
Opens ==
    /\ pc = "copy" /\ at \in DOMAIN Order
    /\ there' = [there EXCEPT ![Order[at]] = TRUE]
    /\ Go("fill", at)
    /\ UNCHANGED <<legacy, backup, copy, marker, tables, accts, failed>> /\ Kept

\* _copy_table_filtered for every table and commit: rows that are already
\* there are left as they are (INSERT OR IGNORE).
Fills ==
    /\ pc = "fill"
    /\ LET t == Order[at]
       IN  copy' = [copy EXCEPT ![t] = IF @ = 0 THEN legacy.rows[t] ELSE @]
    /\ Go("copy", at + 1)
    /\ UNCHANGED <<legacy, backup, there, marker, tables, accts, failed>> /\ Kept

\* (Mutant: the combined file is moved over an earlier backup.)
MutRenames ==
    /\ pc = "copy" /\ at \notin DOMAIN Order
    /\ backup' = legacy /\ legacy' = [there |-> FALSE, rows |-> Empty]
    /\ Go("mark", 0)
    /\ UNCHANGED <<there, copy, marker, tables, accts, failed>> /\ Kept
\* The combined file is kept under another name, unless one has it already.
Renames ==
    /\ pc = "copy" /\ at \notin DOMAIN Order
    /\ \/ backup.there /\ UNCHANGED <<legacy, backup>>
       \/ /\ ~backup.there
          /\ backup' = legacy /\ legacy' = [there |-> FALSE, rows |-> Empty]
    /\ Go("mark", 0)
    /\ UNCHANGED <<there, copy, marker, tables, accts, failed>> /\ Kept

Marks ==
    /\ pc = "mark"
    /\ marker' = TRUE
    /\ Go("off", 0)
    /\ UNCHANGED <<legacy, backup, there, copy, tables, accts, failed>> /\ Kept

-----------------------------------------------------------------------------
(* The engine.                                                               *)

\* lifespan: initialize creates the combined file when it is missing; run_all
\* goes on only with the marker.
EngineStarts ==
    /\ pc = "off"
    /\ legacy' = [legacy EXCEPT !.there = TRUE]
    /\ IF marker THEN Go("migrate", 1) ELSE Go("on", 0)
    /\ UNCHANGED <<backup, there, copy, marker, tables, accts, failed>> /\ Kept

\* The pairs (script, file) in the order of run_all's loops.
Files == SetToSeq(Accounts)
ScriptAt == ((at - 1) \div Len(Files)) + 1
FileAt == Files[((at - 1) % Len(Files)) + 1]
AllTried == at > Len(Scripts) * Len(Files)

\* Whether executescript succeeds: 001 reads the accounts table, and a column
\* is not added twice; the others are written to be run again.
Runs(s, f) ==
    /\ Scripts[s] = "seed" => tables[f]
    /\ Scripts[s] = "rebuild" => \E r \in applied[f] : Scripts[r] = "seed"
    /\ Scripts[s] = "column" => s \notin applied[f]

\* (Mutant: a file that failed is tried again with the next script.)
MutPasses == pc = "migrate" /\ ~AllTried /\ ScriptAt \in log[FileAt]
\* A file that failed before, or has the script in its log.
Passes == /\ pc = "migrate" /\ ~AllTried
          /\ (FileAt \in failed \/ ScriptAt \in log[FileAt])

SkipsScript ==
    /\ Passes
    /\ Go("migrate", at + 1)
    /\ UNCHANGED <<files, accts, failed>> /\ Kept

ScriptRuns ==
    /\ pc = "migrate" /\ ~AllTried /\ ~Passes /\ Runs(ScriptAt, FileAt)
    /\ applied' = [applied EXCEPT ![FileAt] = @ \cup {ScriptAt}]
    /\ thresholds' = [thresholds EXCEPT ![FileAt] =
                        IF Scripts[ScriptAt] = "rebuild" THEN "none" ELSE @]
    /\ Go("log", at)
    /\ UNCHANGED <<files, log, converted, failed>> /\ Kept

ScriptFails ==
    /\ pc = "migrate" /\ ~AllTried /\ ~Passes /\ ~Runs(ScriptAt, FileAt)
    /\ failed' = failed \cup {FileAt}
    /\ Go("migrate", at + 1)
    /\ UNCHANGED <<files, accts>> /\ Kept

Logs ==
    /\ pc = "log"
    /\ log' = [log EXCEPT ![FileAt] = @ \cup {ScriptAt}]
    /\ Go("migrate", at + 1)
    /\ UNCHANGED <<files, applied, thresholds, converted, failed>> /\ Kept

MigrationsEnd ==
    /\ pc = "migrate" /\ AllTried
    /\ Go("convert", 1)
    /\ UNCHANGED <<files, accts, failed>> /\ Kept

\* (Mutant: the conversion is not recorded.)
MutConvertible(f) ==
    /\ tables[f] /\ \E s \in applied[f] : Scripts[s] = "rebuild"
\* convert_thresholds on one file: not when logged, and it raises without the
\* accounts row or the columns.
Convertible(f) ==
    /\ ~converted[f]
    /\ tables[f] /\ \E s \in applied[f] : Scripts[s] = "rebuild"

\* The ratios are read from the combined file of today.
Converts ==
    /\ pc = "convert" /\ at \in DOMAIN Files
    /\ LET f == Files[at]
       IN  \/ /\ Convertible(f)
              /\ thresholds' = [thresholds EXCEPT ![f] =
                                  IF legacy.rows["params"] > 0 THEN "tuned" ELSE "null"]
              /\ converted' = [converted EXCEPT ![f] = TRUE]
           \/ /\ ~Convertible(f)
              /\ UNCHANGED <<thresholds, converted>>
    /\ Go("convert", at + 1)
    /\ UNCHANGED <<files, applied, log, failed>> /\ Kept

\* The lifespan's start is over: requests and loops write from now on.
Serves ==
    /\ pc = "convert" /\ at \notin DOMAIN Files
    /\ Go("on", 0) /\ failed' = {}
    /\ UNCHANGED <<files, accts>> /\ Kept

Stops ==
    /\ pc = "on"
    /\ Go("off", 0)
    /\ UNCHANGED <<files, accts, failed>> /\ Kept

\* Any commit of the running engine.
Writes(i) ==
    /\ pc = "on" /\ clock < MaxVersion
    /\ clock' = clock + 1
    /\ legacy' = [legacy EXCEPT !.rows[i] = clock + 1]
    /\ last' = [last EXCEPT ![i] = clock + 1]
    /\ UNCHANGED <<backup, there, copy, marker, tables, accts, pc, at, failed, crashes>>

\* update_account_settings finds the file by its accounts row.
UserSets(f) ==
    /\ pc = "on" /\ marker /\ tables[f]
    /\ \E s \in applied[f] : Scripts[s] = "rebuild"
    /\ thresholds' = [thresholds EXCEPT ![f] = "user"]
    /\ UNCHANGED <<files, applied, log, converted, pc, at, failed>> /\ Kept

Next ==
    \/ Crash
    \/ SplitStarts \/ Opens \/ Fills \/ Renames \/ Marks
    \/ EngineStarts \/ SkipsScript \/ ScriptRuns \/ ScriptFails \/ Logs
    \/ MigrationsEnd \/ Converts \/ Serves \/ Stops
    \/ \E i \in Items : Writes(i)
    \/ \E f \in Accounts : UserSets(f)

Spec == Init /\ [][Next]_vars

-----------------------------------------------------------------------------
(* Properties.                                                               *)

\* Wherever the split and the engine died, the newest rows of every item are
\* still in some file of the directory.
NothingLost ==
    \A i \in Items :
        \/ last[i] \in {legacy.rows[i], backup.rows[i]}
        \/ i \in Targets /\ last[i] = copy[i]

\* With the marker every item the renamed file holds, of those the split knows,
\* is in its split file, though perhaps in an older version.
MarkerComplete ==
    marker => \A t \in Targets : backup.rows[t] > 0 => copy[t] > 0

\* On each file the migrations succeed in their order, and one is logged only
\* when its effects are in.
PrefixLogged ==
    \A f \in Accounts :
        /\ \A s \in log[f] : 1 .. s \subseteq log[f]
        /\ log[f] \subseteq applied[f]

\* Neither a rebuild of the settings table nor the conversion ever replaces
\* thresholds the user has set since.
UserKept == [][\A f \in Accounts : thresholds[f] = "user" => thresholds'[f] = "user"]_vars

\* convert_thresholds.py: the conversion "preserves the user's tuned ratios".
RatiosKept ==
    \A f \in Accounts : converted[f] /\ backup.rows["params"] > 0 => thresholds[f] # "null"

\* 000_split_databases.py: rows copied by a run that died are safe to copy
\* again ("Idempotent on row inserts").
CopyCurrent ==
    pc = "mark" => \A t \in Targets : backup.rows[t] > 0 => copy[t] = backup.rows[t]
=============================================================================
