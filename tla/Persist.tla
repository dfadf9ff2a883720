------------------------------- MODULE Persist -------------------------------
(***************************************************************************)
(* The daemon's two files over its whole life: db.json (sw/persistence/    *)
(* src/db.c) and the AST snapshot (ast_snapshot.c), opened at start and    *)
(* written at a clean stop by sw/tetra_d.c.  The process may die at any    *)
(* step, the machine may lose power at any step, and every system call of  *)
(* a write may fail.                                                       *)
(*                                                                         *)
(* A file is what its name leads to now (main), its <path>.tmp, and the    *)
(* set of files the name may lead to after a power loss (kept): rename is  *)
(* not followed by an fsync of the directory, so the old file stays in     *)
(* kept until the kernel writes the directory back.                        *)
(***************************************************************************)
EXTENDS Integers, FiniteSets

CONSTANTS
  NProfiles,    \* TETRA_DB_PROFILE_COUNT
  Width,        \* bits of a packed profile (32)
  Profile0Bits, \* TETRA_DB_PROFILE0_BITS
  ProfileBits,  \* packed profiles that callers of db_put_profile write
  Entities,     \* records that callers of db_put_entity write
  Slots,        \* entity slots
  AstSlots,     \* AST slots
  AstEntries,   \* valid AST slot contents
  MaxStops      \* bound: clean stops

ASSUME NProfilesAssumption == NProfiles \in Nat \ {0}
ASSUME WidthAssumption == Width \in Nat \ {0}
ASSUME BitsAssumption ==
  /\ ProfileBits \subseteq 0 .. 2^Width - 1
  /\ Profile0Bits \in 0 .. 2^(Width - 1) - 1
ASSUME MaxStopsAssumption == MaxStops \in Nat

Paths == {"db", "ast"}
ProfileIds == 0 .. NProfiles - 1
NoEntity == "empty slot"
Invalid == "invalid slot"

VARIABLES
  pc,      \* where the process is: "off", "open", "reload", "run" or "save"
  at,      \* in "save": the file being written and the next step of the write
  file,    \* the two files
  db,      \* SubscriberDb in memory
  ast,     \* Ast in memory
  stops,   \* clean stops begun
  saved,   \* history: {what the last successful save of the path wrote}, or {}
  ended    \* history: how the last running process ended

vars == <<pc, at, file, db, ast, stops, saved, ended>>

(* memset(db, 0): not opened.                                              *)
ClosedDb == [opened |-> FALSE,
             profiles |-> [i \in ProfileIds |-> 0],
             entities |-> [s \in Slots |-> NoEntity]]

(* db_init_empty.                                                          *)
EmptyDb == [opened |-> TRUE,
            profiles |-> [i \in ProfileIds |-> IF i = 0 THEN Profile0Bits ELSE 0],
            entities |-> [s \in Slots |-> NoEntity]]

EmptyAst == [s \in AstSlots |-> Invalid]

(* Texts: no file, the beginning of a text, text that is not a document,   *)
(* and documents.  wrote is history: the clean stop that wrote it.         *)
NoFile == [kind |-> "none"]
Torn == [kind |-> "torn"]
Malformed == [kind |-> "malformed"]

(* (int) bits, as json_pack's "i" stores a packed profile.                 *)
AsInt(bits) == IF bits >= 2^(Width - 1) THEN bits - 2^Width ELSE bits

(* db_dump_json: profile 0 is written as the constant, empty slots are not *)
(* written.                                                                *)
DbText(d, n) ==
  [kind |-> "db", wrote |-> n,
   profiles |-> [i \in ProfileIds |-> IF i = 0 THEN Profile0Bits ELSE AsInt(d.profiles[i])],
   entities |-> [s \in {t \in Slots : d.entities[t] # NoEntity} |-> d.entities[s]]]

(* ast_snapshot: only valid slots are written, the flag is always true.    *)
AstText(a, n) ==
  [kind |-> "ast", wrote |-> n, flag |-> TRUE,
   slots |-> [s \in {t \in AstSlots : a[t] # Invalid} |-> a[s]]]

(* json_get_uint refuses a negative number, and with it the whole file.    *)
Readable(text) == text.kind = "db" /\ \A i \in ProfileIds : text.profiles[i] >= 0

(* db_load_json, with the correction of profile 0.                         *)
Loaded(text) ==
  [opened |-> TRUE,
   profiles |-> [i \in ProfileIds |-> IF i = 0 THEN Profile0Bits ELSE text.profiles[i]],
   entities |-> [s \in Slots |-> IF s \in DOMAIN text.entities THEN text.entities[s] ELSE NoEntity]]

(* Mutant: a refused file leaves the table as db_init_empty made it.       *)
OpenedKeepsTable(text) ==
  CASE text.kind = "none" -> EmptyDb
    [] Readable(text)     -> Loaded(text)
    [] OTHER              -> EmptyDb

(* db_open on a file with this text.                                       *)
Opened(text) ==
  CASE text.kind = "none" -> EmptyDb
    [] Readable(text)     -> Loaded(text)
    [] OTHER              -> ClosedDb

(* ast_reload: *out_loaded, and the table then in memory.                  *)
Reloads(text) == text.kind = "ast" /\ text.flag

Reloaded(text) ==
  [s \in AstSlots |-> IF Reloads(text) /\ s \in DOMAIN text.slots THEN text.slots[s] ELSE Invalid]

(* A file on disk: its text, and whether it survives a power loss.         *)
Inode(text, synced) == [text |-> text, synced |-> synced]

Init ==
  /\ pc = "off"
  /\ at = [path |-> "ast", step |-> "create"]
  /\ file = [p \in Paths |-> [main |-> Inode(NoFile, TRUE),
                              tmp  |-> Inode(NoFile, TRUE),
                              kept |-> {Inode(NoFile, TRUE)}]]
  /\ db = ClosedDb
  /\ ast = EmptyAst
  /\ stops = 0
  /\ saved = [p \in Paths |-> {}]
  /\ ended = "never"

-----------------------------------------------------------------------------
(* Start: db_open, then ast_reload.  A refused database is only logged.    *)

Start ==
  /\ pc = "off"
  /\ pc' = "open"
  /\ UNCHANGED <<at, file, db, ast, stops, saved, ended>>

(* Mutant: the cleanup takes the leftover for a newer version.             *)
DbOpenAdoptsTmp ==
  /\ pc = "open"
  /\ LET f == file["db"]
         main == IF f.tmp.text.kind = "db" THEN f.tmp ELSE f.main
     IN  /\ file' = [file EXCEPT !["db"] = [main |-> main, tmp |-> Inode(NoFile, TRUE), kept |-> {main}]]
         /\ db' = Opened(main.text)
  /\ pc' = "reload"
  /\ UNCHANGED <<at, ast, stops, saved, ended>>

DbOpen ==
  /\ pc = "open"
  /\ file' = [file EXCEPT !["db"].tmp = Inode(NoFile, TRUE)]   \* cleanup_stale_tmp
  /\ db' = Opened(file["db"].main.text)
  /\ pc' = "reload"
  /\ UNCHANGED <<at, ast, stops, saved, ended>>

AstReload ==
  /\ pc = "reload"
  /\ ast' = Reloaded(file["ast"].main.text)
  /\ pc' = "run"
  /\ UNCHANGED <<at, file, db, stops, saved, ended>>

-----------------------------------------------------------------------------
(* While the daemon runs.                                                  *)

(* Mutant: profile 0 can be written.                                       *)
PutProfileAny(id, bits) ==
  /\ pc = "run"
  /\ db.opened
  /\ db' = [db EXCEPT !.profiles[id] = bits]
  /\ UNCHANGED <<pc, at, file, ast, stops, saved, ended>>

(* db_put_profile: -EINVAL before db_open succeeded, -EPERM for profile 0. *)
PutProfile(id, bits) ==
  /\ pc = "run"
  /\ db.opened
  /\ id # 0
  /\ db' = [db EXCEPT !.profiles[id] = bits]
  /\ UNCHANGED <<pc, at, file, ast, stops, saved, ended>>

(* db_put_entity with a record that passes its checks.                     *)
PutEntity(s, e) ==
  /\ pc = "run"
  /\ db.opened
  /\ db' = [db EXCEPT !.entities[s] = e]
  /\ UNCHANGED <<pc, at, file, ast, stops, saved, ended>>

(* The holder of the AST changes a slot.                                   *)
AstUpdate(s, v) ==
  /\ pc = "run"
  /\ ast' = [ast EXCEPT ![s] = v]
  /\ UNCHANGED <<pc, at, file, db, stops, saved, ended>>

-----------------------------------------------------------------------------
(* Clean stop: ast_snapshot, then db_atomic_save; both failures are only   *)
(* logged, and a database that was never opened is not saved (-EINVAL).    *)

Stop ==
  /\ pc = "run"
  /\ stops < MaxStops
  /\ stops' = stops + 1
  /\ pc' = "save"
  /\ at' = [path |-> "ast", step |-> "create"]
  /\ ended' = "stop"
  /\ UNCHANGED <<file, db, ast, saved>>

(* Where the process goes when the write of the current path is over.      *)
WriteOver ==
  IF at.path = "ast" /\ db.opened
  THEN /\ pc' = "save"
       /\ at' = [path |-> "db", step |-> "create"]
       /\ UNCHANGED <<db, ast>>
  ELSE /\ pc' = "off"
       /\ at' = [path |-> "ast", step |-> "create"]
       /\ db' = ClosedDb
       /\ ast' = EmptyAst

Text == IF at.path = "db" THEN DbText(db, stops) ELSE AstText(ast, stops)

(* open(tmp, O_CREAT | O_TRUNC).                                           *)
WriteCreate ==
  /\ pc = "save" /\ at.step = "create"
  /\ file' = [file EXCEPT ![at.path].tmp = Inode(Torn, FALSE)]
  /\ at' = [at EXCEPT !.step = "write"]
  /\ UNCHANGED <<pc, db, ast, stops, saved, ended>>

(* The write loop, to its end.                                             *)
WriteText ==
  /\ pc = "save" /\ at.step = "write"
  /\ file' = [file EXCEPT ![at.path].tmp = Inode(Text, FALSE)]
  /\ at' = [at EXCEPT !.step = "sync"]
  /\ UNCHANGED <<pc, db, ast, stops, saved, ended>>

(* Mutant: no fsync.                                                       *)
WriteNoSync ==
  /\ pc = "save" /\ at.step = "sync"
  /\ at' = [at EXCEPT !.step = "rename"]
  /\ UNCHANGED <<pc, file, db, ast, stops, saved, ended>>

(* fsync and close.                                                        *)
WriteSync ==
  /\ pc = "save" /\ at.step = "sync"
  /\ file' = [file EXCEPT ![at.path].tmp.synced = TRUE]
  /\ at' = [at EXCEPT !.step = "rename"]
  /\ UNCHANGED <<pc, db, ast, stops, saved, ended>>

(* rename(tmp, path): the new file is there, the old one may come back.    *)
WriteRename ==
  /\ pc = "save" /\ at.step = "rename"
  /\ file' = [file EXCEPT ![at.path] =
                [main |-> @.tmp, tmp |-> Inode(NoFile, TRUE), kept |-> @.kept \cup {@.tmp}]]
  /\ saved' = [saved EXCEPT ![at.path] = {IF at.path = "db" THEN db ELSE ast}]
  /\ WriteOver
  /\ UNCHANGED <<stops, ended>>

(* A system call of the write fails: -EIO, and all but a failed open       *)
(* unlink the temporary file.                                              *)
WriteFail ==
  /\ pc = "save"
  /\ file' = IF at.step = "create" THEN file
             ELSE [file EXCEPT ![at.path].tmp = Inode(NoFile, TRUE)]
  /\ WriteOver
  /\ UNCHANGED <<stops, saved, ended>>

-----------------------------------------------------------------------------
(* Environment.                                                            *)

(* The process ends without a clean stop: killed, crashed, or returned     *)
(* from a failed main_loop_init or main_loop_run.                          *)
Dies ==
  /\ pc' = "off"
  /\ at' = [path |-> "ast", step |-> "create"]
  /\ db' = ClosedDb
  /\ ast' = EmptyAst
  /\ ended' = IF pc = "run" THEN "crash" ELSE ended
  /\ UNCHANGED stops

Crash ==
  /\ pc # "off"
  /\ Dies
  /\ UNCHANGED <<file, saved>>

(* What an inode holds after a power loss.                                 *)
Survivors(i) == IF i.synced THEN {i} ELSE {i, Inode(Torn, TRUE)}

PowerLoss ==
  /\ Dies
  /\ \E m \in [Paths -> UNION {file[p].kept : p \in Paths}] :
       /\ \A p \in Paths : m[p] \in file[p].kept
       /\ \E s \in [Paths -> UNION {Survivors(m[p]) : p \in Paths}] :
            /\ \A p \in Paths : s[p] \in Survivors(m[p])
            /\ \E t \in [Paths -> BOOLEAN] :   \* does the temporary file survive, torn?
                 file' = [p \in Paths |->
                   [main |-> s[p],
                    tmp  |-> IF t[p] /\ file[p].tmp.text # NoFile THEN Inode(Torn, TRUE)
                             ELSE Inode(NoFile, TRUE),
                    kept |-> {s[p]}]]
  /\ saved' = [p \in Paths |-> IF file[p].kept = {file[p].main} THEN saved[p] ELSE {}]

(* The kernel writes the directory back.                                   *)
Flush(p) ==
  /\ file[p].kept # {file[p].main}
  /\ file' = [file EXCEPT ![p].kept = {file[p].main}]
  /\ UNCHANGED <<pc, at, db, ast, stops, saved, ended>>

(* The operator replaces a file while the daemon is off: by text that is   *)
(* no document, by a database with another profile 0, by a snapshot with   *)
(* the flag false.                                                         *)
Edited(p) ==
  {Malformed,
   IF p = "db" THEN [DbText(EmptyDb, 0) EXCEPT !.profiles[0] = Profile0Bits + 1]
               ELSE [AstText(EmptyAst, 0) EXCEPT !.flag = FALSE]}

OperatorEdit(p) ==
  /\ pc = "off"
  /\ \E text \in Edited(p) :
       file' = [file EXCEPT ![p].main = Inode(text, TRUE), ![p].kept = {Inode(text, TRUE)}]
  /\ saved' = [saved EXCEPT ![p] = {}]
  /\ UNCHANGED <<pc, at, db, ast, stops, ended>>

Next ==
  \/ Start
  \/ DbOpen
  \/ AstReload
  \/ \E id \in ProfileIds, bits \in ProfileBits : PutProfile(id, bits)
  \/ \E s \in Slots, e \in Entities : PutEntity(s, e)
  \/ \E s \in AstSlots, v \in AstEntries \cup {Invalid} : AstUpdate(s, v)
  \/ Stop
  \/ WriteCreate
  \/ WriteText
  \/ WriteSync
  \/ WriteRename
  \/ WriteFail
  \/ Crash
  \/ PowerLoss
  \/ \E p \in Paths : Flush(p)
  \/ \E p \in Paths : OperatorEdit(p)

Spec == Init /\ [][Next]_vars

-----------------------------------------------------------------------------
(* Properties.                                                             *)

DbMem == [opened : BOOLEAN,
          profiles : [ProfileIds -> 0 .. 2^Width - 1],
          entities : [Slots -> Entities \cup {NoEntity}]]

(* Type invariant, with what every state of the table in memory shares: an *)
(* opened database has profile 0 at its fixed value whatever the file said *)
(* (db.c:373, -EPERM in db_put_profile), a closed one is all zero.         *)
TypeOK ==
  /\ pc \in {"off", "open", "reload", "run", "save"}
  /\ at \in [path : Paths, step : {"create", "write", "sync", "rename"}]
  /\ db \in DbMem
  /\ ast \in [AstSlots -> AstEntries \cup {Invalid}]
  /\ stops \in 0 .. MaxStops
  /\ IF db.opened THEN db.profiles[0] = Profile0Bits ELSE db = ClosedDb
  /\ \A p \in Paths : file[p].main \in file[p].kept /\ Cardinality(saved[p]) <= 1

(* Whatever step a crash, a power loss or a failing system call hits, a    *)
(* name never leads to a half-written file: it "is either the old version  *)
(* or the new version, never a torn one" (db.c:165-168).                   *)
NeverTorn ==
  \A p \in Paths : file[p].main.text # Torn

(* Once db_atomic_save or ast_snapshot has returned 0, the next start      *)
(* finds exactly the table that was in memory: through any number of       *)
(* crashes and failed later writes, and through a power loss once the      *)
(* directory is written back.                                              *)
ReopenedAsSaved ==
  [][/\ pc = "open" /\ pc' = "reload" /\ saved["db"] # {} => db' \in saved["db"]
     /\ pc = "reload" /\ pc' = "run" /\ saved["ast"] # {} => ast' \in saved["ast"]]_vars

(* "We do NOT auto-heal a malformed file" (db.c:366-368): a database file  *)
(* that db_open refused stays as it is for the operator; running, stopping *)
(* and crashing any number of times does not replace it.                   *)
RefusedFileKept ==
  [][LET text == file["db"].main.text
     IN  text # NoFile /\ ~Readable(text) /\ file'["db"].main.text # text
           => OperatorEdit("db")]_vars

(* Does not hold.  tetra_d.c:24-26: after a crash "the daemon initialises  *)
(* an empty AST".  The flag of the last clean stop is never cleared.       *)
CrashStartsEmpty ==
  [][pc = "reload" /\ pc' = "run" /\ ended = "crash" => ast' = EmptyAst]_vars

(* Does not hold.  tetra_d.c:26-27: it "refuses to read from a snapshot    *)
(* that is older than its companion db.json".  When ast_snapshot fails and *)
(* db_atomic_save succeeds, nothing compares the two.                      *)
NoOlderSnapshot ==
  [][pc = "reload" /\ pc' = "run" /\ Reloads(file["ast"].main.text) /\ Readable(file["db"].main.text)
       => file["ast"].main.text.wrote >= file["db"].main.text.wrote]_vars
=============================================================================
