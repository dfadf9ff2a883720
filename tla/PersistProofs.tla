----------------------------- MODULE PersistProofs -----------------------------
(***************************************************************************)
(* Proofs about Persist, for any tables, any number of stops and a crash,  *)
(* a power loss or a failing system call at every step: no file is ever    *)
(* torn, a refused file is left to the operator, and a saved table is      *)
(* found again.                                                            *)
(***************************************************************************)
EXTENDS Persist, FiniteSetTheorems, TLAPS

(* The texts a file may hold.                                              *)
Partial(S, T) == UNION {[R -> T] : R \in SUBSET S}
DbTexts == [kind : {"db"}, wrote : Nat, profiles : [ProfileIds -> Int],
            entities : Partial(Slots, Entities)]
AstTexts == [kind : {"ast"}, wrote : Nat, flag : BOOLEAN, slots : Partial(AstSlots, AstEntries)]
Fits(text) == text.kind = "db" => \A i \in ProfileIds \ {0} : text.profiles[i] < 2^(Width - 1)
Texts == {text \in {NoFile, Torn, Malformed} \cup DbTexts \cup AstTexts : Fits(text)}

Inodes == [text : Texts, synced : BOOLEAN]
FileRec == [main : Inodes, tmp : Inodes, kept : SUBSET Inodes]
AstMem == [AstSlots -> AstEntries \cup {Invalid}]

(* TypeOK, what it says of the process and its tables ...                  *)
Tables ==
  /\ pc \in {"off", "open", "reload", "run", "save"}
  /\ at \in [path : Paths, step : {"create", "write", "sync", "rename"}]
  /\ db \in DbMem
  /\ ast \in AstMem
  /\ stops \in 0 .. MaxStops
  /\ IF db.opened THEN db.profiles[0] = Profile0Bits ELSE db = ClosedDb

(* ... and more than it says of the files.                                 *)
Shape ==
  /\ file \in [Paths -> FileRec]
  /\ saved \in [Paths -> SUBSET (DbMem \cup AstMem)]
  /\ \A p \in Paths : saved[p] = {} \/ \E v : saved[p] = {v}

(* Whatever a name may lead to is whole and on disk.                       *)
Whole ==
  \A p \in Paths :
    /\ file[p].main \in file[p].kept
    /\ \A i \in file[p].kept : i.synced = TRUE /\ i.text # Torn

(* A temporary file about to be renamed holds the table, and is synced.    *)
Writing ==
  /\ pc = "save" /\ at.step \in {"sync", "rename"} => file[at.path].tmp.text = Text
  /\ pc = "save" /\ at.step = "rename" => file[at.path].tmp.synced = TRUE

(* Only an opened database is written.                                     *)
OpenedOnly ==
  /\ pc \in {"off", "open"} => ~db.opened
  /\ pc = "save" /\ at.path = "db" => db.opened

DiskInv == Tables /\ Shape /\ Whole /\ Writing /\ OpenedOnly

(* A saved table is what the file reads as, and an opened database came    *)
(* from a file that was not refused; a file whose directory entry is not   *)
(* yet written back was written by the daemon itself.                      *)
SavedIsRead ==
  /\ saved["db"] # {} => Readable(file["db"].main.text) /\ Loaded(file["db"].main.text) \in saved["db"]
  /\ saved["ast"] # {} => Reloaded(file["ast"].main.text) \in saved["ast"]
OpenedIsRead ==
  /\ db.opened => file["db"].main.text = NoFile \/ Readable(file["db"].main.text)
  /\ file["db"].kept # {file["db"].main} => Readable(file["db"].main.text)
SmallInMemory == \A i \in ProfileIds : db.profiles[i] < 2^(Width - 1)

ReadInv == SavedIsRead /\ OpenedIsRead /\ SmallInMemory

-----------------------------------------------------------------------------
(* Powers of two, counted as subsets.                                      *)

LEMMA Powers ==
  /\ 2^Width \in Nat /\ 2^(Width - 1) \in Nat
  /\ 1 <= 2^(Width - 1) /\ 2^(Width - 1) <= 2^Width
<1> DEFINE A == 1 .. Width - 1
           B == 1 .. Width
<1>1. Width \in Nat /\ Width - 1 \in Nat
  BY WidthAssumption
<1>2. IsFiniteSet(A) /\ Cardinality(A) = Width - 1 /\ IsFiniteSet(B) /\ Cardinality(B) = Width
  BY <1>1, FS_Interval
<1>3. SUBSET A \subseteq SUBSET B /\ {} \in SUBSET A
  BY <1>1
<1> HIDE DEF A, B
<1>4. /\ IsFiniteSet(SUBSET A) /\ Cardinality(SUBSET A) = 2^(Width - 1)
      /\ IsFiniteSet(SUBSET B) /\ Cardinality(SUBSET B) = 2^Width
  BY <1>2, FS_SUBSET
<1>5. Cardinality(SUBSET A) \in Nat /\ Cardinality(SUBSET B) \in Nat
  BY <1>4, FS_CardinalityType
<1>6. Cardinality(SUBSET A) <= Cardinality(SUBSET B)
  BY <1>3, <1>4, FS_Subset
<1>7. Cardinality(SUBSET A) # 0
  BY <1>3, <1>4, FS_EmptySet
<1> QED
  BY <1>4, <1>5, <1>6, <1>7

-----------------------------------------------------------------------------
(* Tables and texts.                                                       *)

LEMMA TablesTyped ==
  /\ ClosedDb \in DbMem /\ ~ClosedDb.opened
  /\ EmptyDb \in DbMem /\ EmptyDb.opened /\ EmptyDb.profiles[0] = Profile0Bits
  /\ EmptyAst \in AstMem
<1>1. 0 \in 0 .. 2^Width - 1 /\ Profile0Bits \in 0 .. 2^Width - 1
  BY Powers, BitsAssumption
<1>2. 0 \in ProfileIds
  BY NProfilesAssumption DEF ProfileIds
<1>3. ClosedDb \in DbMem
  BY <1>1 DEF ClosedDb, DbMem
<1>4. EmptyDb \in DbMem
  BY <1>1 DEF EmptyDb, DbMem
<1>5. EmptyDb.profiles[0] = Profile0Bits
  BY <1>2 DEF EmptyDb
<1>6. EmptyAst \in AstMem
  BY DEF EmptyAst, AstMem
<1>7. ~ClosedDb.opened /\ EmptyDb.opened
  BY DEF ClosedDb, EmptyDb
<1> QED
  BY <1>3, <1>4, <1>5, <1>6, <1>7

LEMMA PlainTexts ==
  /\ NoFile \in Texts /\ Torn \in Texts /\ Malformed \in Texts
  /\ NoFile # Torn /\ Malformed # Torn
<1>1. NoFile.kind = "none" /\ Torn.kind = "torn" /\ Malformed.kind = "malformed"
  BY DEF NoFile, Torn, Malformed
<1> QED
  BY <1>1 DEF Texts, Fits

LEMMA DbTextTyped ==
  ASSUME NEW d \in DbMem, NEW n \in Nat
  PROVE  DbText(d, n) \in Texts /\ DbText(d, n).kind = "db"
<1> DEFINE x == DbText(d, n)
           R == {t \in Slots : d.entities[t] # NoEntity}
<1>1. x.kind = "db" /\ x.wrote = n
  BY DEF DbText
<1>2. ASSUME NEW i \in ProfileIds
      PROVE  AsInt(d.profiles[i]) \in Int /\ AsInt(d.profiles[i]) < 2^(Width - 1)
  <2>1. d.profiles[i] \in 0 .. 2^Width - 1
    BY DEF DbMem
  <2> QED
    BY <2>1, Powers DEF AsInt
<1>3. Profile0Bits \in Int
  BY BitsAssumption
<1>4. [i \in ProfileIds |-> IF i = 0 THEN Profile0Bits ELSE AsInt(d.profiles[i])] \in [ProfileIds -> Int]
  BY <1>2, <1>3
<1>5. [s \in R |-> d.entities[s]] \in [R -> Entities]
  BY DEF DbMem
<1>6. [s \in R |-> d.entities[s]] \in Partial(Slots, Entities)
  BY <1>5 DEF Partial
<1>7. x \in DbTexts
  BY <1>4, <1>6 DEF DbText, DbTexts
<1>8. \A i \in ProfileIds \ {0} : x.profiles[i] < 2^(Width - 1)
  BY <1>2 DEF DbText
<1> QED
  BY <1>1, <1>7, <1>8 DEF Texts, Fits

LEMMA AstTextTyped ==
  ASSUME NEW a \in AstMem, NEW n \in Nat
  PROVE  AstText(a, n) \in Texts /\ AstText(a, n).kind = "ast"
<1> DEFINE x == AstText(a, n)
           R == {t \in AstSlots : a[t] # Invalid}
<1>1. x.kind = "ast"
  BY DEF AstText
<1>2. [s \in R |-> a[s]] \in [R -> AstEntries]
  BY DEF AstMem
<1>3. [s \in R |-> a[s]] \in Partial(AstSlots, AstEntries)
  BY <1>2 DEF Partial
<1>4. x \in AstTexts
  BY <1>3 DEF AstText, AstTexts
<1> QED
  BY <1>1, <1>4 DEF Texts, Fits

(* db_load_json of a file that is not refused.                             *)
LEMMA LoadedTyped ==
  ASSUME NEW x \in Texts, Readable(x)
  PROVE  Loaded(x) \in DbMem /\ Loaded(x).opened /\ Loaded(x).profiles[0] = Profile0Bits
<1>1. x.kind = "db"
  BY DEF Readable
<1>2. x \in DbTexts /\ \A i \in ProfileIds \ {0} : x.profiles[i] < 2^(Width - 1)
  BY <1>1 DEF Texts, Fits, NoFile, Torn, Malformed, AstTexts
<1>3. ASSUME NEW i \in ProfileIds
      PROVE  (IF i = 0 THEN Profile0Bits ELSE x.profiles[i]) \in 0 .. 2^Width - 1
  <2>1. CASE i = 0
    BY <2>1, Powers, BitsAssumption
  <2>2. CASE i # 0
    <3>1. x.profiles[i] \in Int /\ x.profiles[i] >= 0 /\ x.profiles[i] < 2^(Width - 1)
      BY <1>2, <2>2 DEF Readable, DbTexts
    <3> QED
      BY <2>2, <3>1, Powers
  <2> QED
    BY <2>1, <2>2
<1>4. ASSUME NEW s \in Slots
      PROVE  (IF s \in DOMAIN x.entities THEN x.entities[s] ELSE NoEntity) \in Entities \cup {NoEntity}
  <2>1. PICK R \in SUBSET Slots : x.entities \in [R -> Entities]
    BY <1>2 DEF DbTexts, Partial
  <2> QED
    BY <2>1
<1>5. Loaded(x) \in DbMem
  BY <1>3, <1>4 DEF Loaded, DbMem
<1>6. 0 \in ProfileIds
  BY NProfilesAssumption DEF ProfileIds
<1> QED
  BY <1>5, <1>6 DEF Loaded

(* db_open: the table is open exactly when the file was not refused.       *)
LEMMA OpenedTyped ==
  ASSUME NEW x \in Texts
  PROVE  /\ Opened(x) \in DbMem
         /\ IF Opened(x).opened THEN Opened(x).profiles[0] = Profile0Bits ELSE Opened(x) = ClosedDb
         /\ Opened(x).opened => x = NoFile \/ Readable(x)
<1>1. CASE x.kind = "none"
  <2>1. Opened(x) = EmptyDb
    BY <1>1 DEF Opened, Readable
  <2>2. x = NoFile
    BY <1>1 DEF Texts, NoFile, Torn, Malformed, DbTexts, AstTexts
  <2> QED
    BY <2>1, <2>2, TablesTyped
<1>2. CASE Readable(x)
  <2>1. Opened(x) = Loaded(x)
    BY <1>2 DEF Opened, Readable
  <2> QED
    BY <1>2, <2>1, LoadedTyped
<1>3. CASE x.kind # "none" /\ ~Readable(x)
  <2>1. Opened(x) = ClosedDb
    BY <1>3 DEF Opened
  <2> QED
    BY <2>1, TablesTyped
<1> QED
  BY <1>1, <1>2, <1>3

LEMMA ReloadedTyped ==
  ASSUME NEW x \in Texts
  PROVE  Reloaded(x) \in AstMem
<1>1. CASE Reloads(x)
  <2>1. x \in AstTexts
    BY <1>1 DEF Reloads, Texts, NoFile, Torn, Malformed, DbTexts
  <2>2. PICK R \in SUBSET AstSlots : x.slots \in [R -> AstEntries]
    BY <2>1 DEF AstTexts, Partial
  <2> QED
    BY <2>2 DEF Reloaded, AstMem
<1>2. CASE ~Reloads(x)
  BY <1>2 DEF Reloaded, AstMem
<1> QED
  BY <1>1, <1>2

(* What ast_snapshot writes, ast_reload reads back.                        *)
LEMMA AstRoundTrip ==
  ASSUME NEW a \in AstMem, NEW n \in Nat
  PROVE  Reloaded(AstText(a, n)) = a
<1> DEFINE x == AstText(a, n)
<1>1. Reloads(x)
  BY DEF Reloads, AstText
<1>2. DOMAIN x.slots = {t \in AstSlots : a[t] # Invalid} /\ \A s \in DOMAIN x.slots : x.slots[s] = a[s]
  BY DEF AstText
<1> HIDE DEF x
<1>3. Reloaded(x) = [s \in AstSlots |-> a[s]]
  BY <1>1, <1>2 DEF Reloaded
<1> QED
  BY <1>3 DEF AstMem, x

(* What db_dump_json writes, db_load_json reads back, if no packed profile *)
(* has the sign bit set.                                                   *)
LEMMA DbRoundTrip ==
  ASSUME NEW d \in DbMem, NEW n \in Nat, d.opened, d.profiles[0] = Profile0Bits,
         \A i \in ProfileIds : d.profiles[i] < 2^(Width - 1)
  PROVE  Readable(DbText(d, n)) /\ Loaded(DbText(d, n)) = d
<1> DEFINE x == DbText(d, n)
<1>1. x.kind = "db" /\ DOMAIN x.entities = {t \in Slots : d.entities[t] # NoEntity}
      /\ \A s \in DOMAIN x.entities : x.entities[s] = d.entities[s]
  BY DEF DbText
<1>2. ASSUME NEW i \in ProfileIds PROVE x.profiles[i] = d.profiles[i] /\ d.profiles[i] >= 0
  <2>1. d.profiles[i] \in 0 .. 2^Width - 1 /\ d.profiles[i] < 2^(Width - 1)
    BY DEF DbMem
  <2>2. AsInt(d.profiles[i]) = d.profiles[i] /\ d.profiles[i] >= 0
    BY <2>1, Powers DEF AsInt
  <2> QED
    BY <2>2 DEF DbText
<1> HIDE DEF x
<1>3. Readable(x)
  BY <1>1, <1>2 DEF Readable
<1>4. [i \in ProfileIds |-> IF i = 0 THEN Profile0Bits ELSE x.profiles[i]] = d.profiles
  <2>1. d.profiles = [i \in ProfileIds |-> d.profiles[i]]
    BY DEF DbMem
  <2> QED
    BY <1>2, <2>1
<1>5. [s \in Slots |-> IF s \in DOMAIN x.entities THEN x.entities[s] ELSE NoEntity] = d.entities
  <2>1. d.entities = [s \in Slots |-> d.entities[s]]
    BY DEF DbMem
  <2> QED
    BY <1>1, <2>1
<1>6. Loaded(x) = [opened |-> TRUE, profiles |-> d.profiles, entities |-> d.entities]
  BY <1>4, <1>5 DEF Loaded
<1>7. d = [opened |-> TRUE, profiles |-> d.profiles, entities |-> d.entities]
  BY DEF DbMem
<1> QED
  BY <1>3, <1>6, <1>7 DEF x
-----------------------------------------------------------------------------
(* No file is ever torn.                                                   *)

LEMMA DiskTypes == DiskInv => TypeOK
<1> SUFFICES ASSUME DiskInv PROVE TypeOK
  OBVIOUS
<1>1. ASSUME NEW p \in Paths PROVE Cardinality(saved[p]) <= 1
  <2>1. CASE saved[p] = {}
    BY <2>1, FS_EmptySet
  <2>2. ASSUME NEW v, saved[p] = {v} PROVE Cardinality(saved[p]) = 1
    BY <2>2, FS_Singleton
  <2> QED
    BY <2>1, <2>2 DEF DiskInv, Shape
<1> QED
  BY <1>1 DEF DiskInv, Tables, Whole, TypeOK, AstMem

LEMMA InodeTyped ==
  ASSUME NEW x \in Texts, NEW b \in BOOLEAN
  PROVE  /\ Inode(x, b) \in Inodes
         /\ Inode(x, b).text = x /\ Inode(x, b).synced = b
BY DEF Inode, Inodes

LEMMA TextTyped ==
  ASSUME DiskInv, pc = "save"
  PROVE  Text \in Texts /\ Text # Torn
<1>1. stops \in Nat /\ db \in DbMem /\ ast \in AstMem
  BY MaxStopsAssumption DEF DiskInv, Tables
<1>2. DbText(db, stops) \in Texts /\ DbText(db, stops).kind = "db"
  BY <1>1, DbTextTyped
<1>3. AstText(ast, stops) \in Texts /\ AstText(ast, stops).kind = "ast"
  BY <1>1, AstTextTyped
<1>4. Torn.kind = "torn"
  BY DEF Torn
<1>5. CASE at.path = "db"
  BY <1>2, <1>4, <1>5 DEF Text
<1>6. CASE at.path # "db"
  BY <1>3, <1>4, <1>6 DEF Text
<1> QED
  BY <1>5, <1>6

(* A step that rewrites the temporary file of path p.                      *)
TmpSet(p, x) ==
  /\ \A q \in Paths : file'[q].main = file[q].main /\ file'[q].kept = file[q].kept
  /\ file'[p].tmp = x

LEMMA TmpStep ==
  ASSUME Shape, Whole, NEW p \in Paths, NEW x \in Inodes,
         file' = [file EXCEPT ![p].tmp = x], saved' = saved
  PROVE  Shape' /\ Whole' /\ TmpSet(p, x)
<1>1. file \in [Paths -> FileRec] /\ file[p] \in FileRec
  BY DEF Shape
<1>2. file' = [file EXCEPT ![p] = [file[p] EXCEPT !.tmp = x]]
  BY <1>1
<1> DEFINE f == [file[p] EXCEPT !.tmp = x]
<1>3. f \in FileRec /\ f.main = file[p].main /\ f.kept = file[p].kept /\ f.tmp = x
  BY <1>1 DEF FileRec
<1> HIDE DEF f
<1>4. file' \in [Paths -> FileRec] /\ file'[p] = f /\ \A q \in Paths \ {p} : file'[q] = file[q]
  BY <1>1, <1>2, <1>3 DEF f
<1>5. TmpSet(p, x)
  BY <1>3, <1>4 DEF TmpSet
<1>6. Shape'
  BY <1>4 DEF Shape
<1>7. Whole'
  BY <1>5 DEF Whole, TmpSet
<1> QED
  BY <1>5, <1>6, <1>7

(* A step that replaces the whole file p: what its name may lead to is     *)
(* whole.                                                                  *)
LEMMA FileStep ==
  ASSUME Shape, Whole, NEW p \in Paths, NEW f \in FileRec,
         f.main \in f.kept, \A i \in f.kept : i.synced = TRUE /\ i.text # Torn,
         file' = [file EXCEPT ![p] = f],
         \/ saved' = saved
         \/ saved' = [saved EXCEPT ![p] = {}]
         \/ \E v \in DbMem \cup AstMem : saved' = [saved EXCEPT ![p] = {v}]
  PROVE  Shape' /\ Whole'
<1>1. file \in [Paths -> FileRec] /\ saved \in [Paths -> SUBSET (DbMem \cup AstMem)]
  BY DEF Shape
<1>2. file' \in [Paths -> FileRec] /\ file'[p] = f /\ \A q \in Paths \ {p} : file'[q] = file[q]
  BY <1>1
<1>3. Whole'
  BY <1>2 DEF Whole
<1> DEFINE M == DbMem \cup AstMem
<1> HIDE DEF M
<1>4. /\ saved' \in [Paths -> SUBSET M]
      /\ \A q \in Paths : saved'[q] = {} \/ \E v : saved'[q] = {v}
  <2>1. CASE saved' = saved
    BY <1>1, <2>1 DEF Shape, M
  <2>2. CASE saved' = [saved EXCEPT ![p] = {}]
    BY <1>1, <2>2 DEF Shape, M
  <2>3. ASSUME NEW v \in M, saved' = [saved EXCEPT ![p] = {v}]
        PROVE  /\ saved' \in [Paths -> SUBSET M]
               /\ \A q \in Paths : saved'[q] = {} \/ \E w : saved'[q] = {w}
    BY <1>1, <2>3 DEF Shape, M
  <2> QED
    BY <2>1, <2>2, <2>3 DEF M
<1> QED
  BY <1>2, <1>3, <1>4 DEF Shape, M

LEMMA InitDisk == Init => DiskInv
<1> SUFFICES ASSUME Init PROVE DiskInv
  OBVIOUS
<1> DEFINE i == Inode(NoFile, TRUE)
<1>1. i \in Inodes /\ i.text = NoFile /\ i.synced = TRUE /\ NoFile # Torn
  BY PlainTexts, InodeTyped
<1>2. file = [p \in Paths |-> [main |-> i, tmp |-> i, kept |-> {i}]]
  BY DEF Init
<1> HIDE DEF i
<1>3. Shape
  <2>1. [main |-> i, tmp |-> i, kept |-> {i}] \in FileRec
    BY <1>1 DEF FileRec
  <2>2. file \in [Paths -> FileRec]
    BY <1>2, <2>1
  <2>3. saved = [p \in Paths |-> {}]
    BY DEF Init
  <2> QED
    BY <2>2, <2>3 DEF Shape
<1>4. Whole
  BY <1>1, <1>2 DEF Whole
<1>5. Tables
  <2>1. 0 \in 0 .. MaxStops
    BY MaxStopsAssumption
  <2>2. db = ClosedDb /\ ast = EmptyAst /\ pc = "off" /\ stops = 0
        /\ at = [path |-> "ast", step |-> "create"]
    BY DEF Init
  <2>3. at \in [path : Paths, step : {"create", "write", "sync", "rename"}]
    BY <2>2 DEF Paths
  <2> QED
    BY <2>1, <2>2, <2>3, TablesTyped DEF Tables
<1>6. Writing /\ OpenedOnly
  BY TablesTyped DEF Init, Writing, OpenedOnly
<1> QED
  BY <1>3, <1>4, <1>5, <1>6 DEF DiskInv

(* The process ends: what it had in memory is gone.                        *)
Down ==
  /\ pc' = "off" /\ at' = [path |-> "ast", step |-> "create"]
  /\ db' = ClosedDb /\ ast' = EmptyAst

LEMMA DownTables ==
  ASSUME Tables, Down, stops' = stops
  PROVE  Tables' /\ Writing' /\ OpenedOnly'
<1>1. at' \in [path : Paths, step : {"create", "write", "sync", "rename"}]
  BY DEF Down, Paths
<1>2. Tables'
  BY <1>1, TablesTyped DEF Tables, Down
<1>3. Writing' /\ OpenedOnly'
  BY TablesTyped DEF Down, Writing, OpenedOnly
<1> QED
  BY <1>2, <1>3

LEMMA OverTables ==
  ASSUME Tables, WriteOver, stops' = stops
  PROVE  Tables' /\ Writing' /\ OpenedOnly'
<1>1. CASE at.path = "ast" /\ db.opened
  <2>1. pc' = "save" /\ at' = [path |-> "db", step |-> "create"] /\ UNCHANGED <<db, ast>>
    BY <1>1 DEF WriteOver
  <2>2. at' \in [path : Paths, step : {"create", "write", "sync", "rename"}] /\ at'.step = "create"
    BY <2>1 DEF Paths
  <2> QED
    BY <1>1, <2>1, <2>2 DEF Tables, Writing, OpenedOnly
<1>2. CASE ~(at.path = "ast" /\ db.opened)
  BY <1>2, DownTables DEF WriteOver, Down
<1> QED
  BY <1>1, <1>2

(* A power loss: each name leads to one of the files it may lead to, and   *)
(* these are on disk.                                                      *)
LEMMA LossEffect ==
  ASSUME DiskInv, PowerLoss
  PROVE  /\ Down /\ stops' = stops
         /\ file' \in [Paths -> FileRec]
         /\ \A p \in Paths : file'[p].main \in file[p].kept /\ file'[p].kept = {file'[p].main}
         /\ saved' = [p \in Paths |-> IF file[p].kept = {file[p].main} THEN saved[p] ELSE {}]
<1>1. PICK m \in [Paths -> UNION {file[p].kept : p \in Paths}] :
        /\ \A p \in Paths : m[p] \in file[p].kept
        /\ \E s \in [Paths -> UNION {Survivors(m[p]) : p \in Paths}] :
             /\ \A p \in Paths : s[p] \in Survivors(m[p])
             /\ \E t \in [Paths -> BOOLEAN] :
                  file' = [p \in Paths |->
                    [main |-> s[p],
                     tmp  |-> IF t[p] /\ file[p].tmp.text # NoFile THEN Inode(Torn, TRUE)
                              ELSE Inode(NoFile, TRUE),
                     kept |-> {s[p]}]]
  BY DEF PowerLoss
<1>2. PICK s :
        /\ \A p \in Paths : s[p] \in Survivors(m[p])
        /\ \E t \in [Paths -> BOOLEAN] :
             file' = [p \in Paths |->
               [main |-> s[p],
                tmp  |-> IF t[p] /\ file[p].tmp.text # NoFile THEN Inode(Torn, TRUE)
                         ELSE Inode(NoFile, TRUE),
                kept |-> {s[p]}]]
  BY <1>1
<1>3. PICK t :
        file' = [p \in Paths |->
          [main |-> s[p],
           tmp  |-> IF t[p] /\ file[p].tmp.text # NoFile THEN Inode(Torn, TRUE)
                    ELSE Inode(NoFile, TRUE),
           kept |-> {s[p]}]]
  BY <1>2
<1>4. ASSUME NEW p \in Paths PROVE s[p] = m[p] /\ m[p] \in file[p].kept /\ m[p] \in Inodes
  <2>1. m[p] \in file[p].kept /\ m[p].synced = TRUE /\ m[p] \in Inodes
    BY <1>1 DEF DiskInv, Whole, Shape, FileRec
  <2>2. s[p] \in Survivors(m[p])
    BY <1>2
  <2> QED
    BY <2>1, <2>2 DEF Survivors
<1>5. Inode(Torn, TRUE) \in Inodes /\ Inode(NoFile, TRUE) \in Inodes
  BY PlainTexts, InodeTyped
<1>6. ASSUME NEW p \in Paths
      PROVE  file'[p] \in FileRec /\ file'[p].main = m[p] /\ file'[p].kept = {m[p]}
  <2> DEFINE u == IF t[p] /\ file[p].tmp.text # NoFile THEN Inode(Torn, TRUE)
                  ELSE Inode(NoFile, TRUE)
  <2>1. u \in Inodes
    BY <1>5
  <2>2. file'[p] = [main |-> s[p], tmp |-> u, kept |-> {s[p]}]
    BY <1>3
  <2> HIDE DEF u
  <2> QED
    BY <1>4, <2>1, <2>2 DEF FileRec
<1>7. file' \in [Paths -> FileRec]
  <2>1. file' = [p \in Paths |-> file'[p]]
    BY <1>3
  <2> QED
    BY <1>6, <2>1
<1>8. Down /\ stops' = stops
  BY DEF PowerLoss, Dies, Down
<1>9. saved' = [p \in Paths |-> IF file[p].kept = {file[p].main} THEN saved[p] ELSE {}]
  BY DEF PowerLoss
<1> QED
  BY <1>4, <1>6, <1>7, <1>8, <1>9

(* Steps that touch no file.                                               *)
LEMMA MemoryDisk ==
  ASSUME DiskInv, UNCHANGED <<file, saved>>, Tables', Writing', OpenedOnly'
  PROVE  DiskInv'
BY DEF DiskInv, Shape, Whole

LEMMA RunDisk ==
  ASSUME DiskInv,
         \/ Start \/ DbOpen \/ AstReload \/ Stop \/ Crash
         \/ \E id \in ProfileIds, bits \in ProfileBits : PutProfile(id, bits)
         \/ \E s \in Slots, e \in Entities : PutEntity(s, e)
         \/ \E s \in AstSlots, v \in AstEntries \cup {Invalid} : AstUpdate(s, v)
  PROVE  DiskInv'
<1>0. /\ Tables /\ Shape /\ Whole /\ OpenedOnly /\ db \in DbMem /\ ast \in AstMem
      /\ file \in [Paths -> FileRec]
  BY DEF DiskInv, Tables, Shape
<1>1. CASE Start
  BY <1>0, <1>1, MemoryDisk DEF Start, Tables, Writing, OpenedOnly
<1>2. CASE DbOpen
  <2> DEFINE x == Inode(NoFile, TRUE)
             t == file["db"].main.text
  <2>1. pc = "open" /\ pc' = "reload" /\ db' = Opened(t) /\ UNCHANGED <<at, ast, stops, saved>>
    BY <1>2 DEF DbOpen
  <2>2. x \in Inodes /\ "db" \in Paths
    BY PlainTexts, InodeTyped DEF Paths
  <2>3. file' = [file EXCEPT !["db"].tmp = x]
    BY <1>2 DEF DbOpen
  <2>4. t \in Texts
    BY <1>0, <2>2 DEF FileRec, Inodes
  <2> HIDE DEF x, t
  <2>5. Shape' /\ Whole'
    BY <1>0, <2>1, <2>2, <2>3, TmpStep
  <2>6. Tables'
    BY <1>0, <2>1, <2>4, OpenedTyped DEF Tables
  <2>7. Writing' /\ OpenedOnly'
    BY <2>1 DEF Writing, OpenedOnly
  <2> QED
    BY <2>5, <2>6, <2>7 DEF DiskInv
<1>3. CASE AstReload
  <2>1. "ast" \in Paths
    BY DEF Paths
  <2>2. file["ast"].main.text \in Texts
    BY <1>0, <2>1 DEF FileRec, Inodes
  <2>3. ast' \in AstMem
    BY <1>3, <2>2, ReloadedTyped DEF AstReload
  <2>4. Tables'
    BY <1>0, <1>3, <2>3 DEF AstReload, Tables
  <2>5. Writing' /\ OpenedOnly'
    BY <1>3 DEF AstReload, Writing, OpenedOnly
  <2> QED
    BY <1>3, <2>4, <2>5, MemoryDisk DEF AstReload
<1>4. CASE Stop
  <2>1. pc' = "save" /\ at' = [path |-> "ast", step |-> "create"] /\ stops' \in 0 .. MaxStops
    BY <1>0, <1>4, MaxStopsAssumption DEF Stop, Tables
  <2>2. at' \in [path : Paths, step : {"create", "write", "sync", "rename"}]
        /\ at'.step = "create" /\ at'.path = "ast"
    BY <2>1 DEF Paths
  <2>3. Tables'
    BY <1>0, <1>4, <2>1, <2>2 DEF Stop, Tables
  <2>4. Writing' /\ OpenedOnly'
    BY <2>1, <2>2 DEF Writing, OpenedOnly
  <2> QED
    BY <1>4, <2>3, <2>4, MemoryDisk DEF Stop
<1>5. CASE Crash
  BY <1>0, <1>5, DownTables, MemoryDisk DEF Crash, Dies, Down
<1>6. ASSUME NEW id \in ProfileIds, NEW bits \in ProfileBits, PutProfile(id, bits)
      PROVE  DiskInv'
  <2>1. /\ pc = "run" /\ db.opened /\ id # 0 /\ db' = [db EXCEPT !.profiles[id] = bits]
        /\ UNCHANGED <<pc, at, file, ast, stops, saved>>
    BY <1>6 DEF PutProfile
  <2>2. bits \in 0 .. 2^Width - 1
    BY BitsAssumption
  <2> DEFINE P == [db.profiles EXCEPT ![id] = bits]
  <2>3. P \in [ProfileIds -> 0 .. 2^Width - 1] /\ P[0] = db.profiles[0]
    <3>1. 0 \in ProfileIds
      BY NProfilesAssumption DEF ProfileIds
    <3> QED
      BY <1>0, <2>1, <2>2, <3>1 DEF DbMem
  <2>4. db' = [db EXCEPT !.profiles = P]
    BY <2>1
  <2> HIDE DEF P
  <2>5. db' \in DbMem /\ db'.profiles = P /\ db'.opened = db.opened
    BY <1>0, <2>3, <2>4 DEF DbMem
  <2>6. Tables'
    BY <1>0, <2>1, <2>3, <2>5 DEF Tables
  <2>7. Writing' /\ OpenedOnly'
    BY <2>1 DEF Writing, OpenedOnly
  <2> QED
    BY <2>1, <2>6, <2>7, MemoryDisk
<1>7. ASSUME NEW s \in Slots, NEW e \in Entities, PutEntity(s, e)
      PROVE  DiskInv'
  <2>1. /\ pc = "run" /\ db.opened /\ db' = [db EXCEPT !.entities[s] = e]
        /\ UNCHANGED <<pc, at, file, ast, stops, saved>>
    BY <1>7 DEF PutEntity
  <2> DEFINE E == [db.entities EXCEPT ![s] = e]
  <2>2. E \in [Slots -> Entities \cup {NoEntity}]
    BY <1>0 DEF DbMem
  <2>3. db' = [db EXCEPT !.entities = E]
    BY <2>1
  <2> HIDE DEF E
  <2>4. db' \in DbMem /\ db'.profiles = db.profiles /\ db'.opened = db.opened
    BY <1>0, <2>2, <2>3 DEF DbMem
  <2>5. Tables'
    BY <1>0, <2>1, <2>4 DEF Tables
  <2>6. Writing' /\ OpenedOnly'
    BY <2>1 DEF Writing, OpenedOnly
  <2> QED
    BY <2>1, <2>5, <2>6, MemoryDisk
<1>8. ASSUME NEW s \in AstSlots, NEW v \in AstEntries \cup {Invalid}, AstUpdate(s, v)
      PROVE  DiskInv'
  <2>1. pc = "run" /\ ast' = [ast EXCEPT ![s] = v] /\ UNCHANGED <<pc, at, file, db, stops, saved>>
    BY <1>8 DEF AstUpdate
  <2>2. ast' \in AstMem
    BY <1>0, <2>1 DEF AstMem
  <2>3. Tables'
    BY <1>0, <2>1, <2>2 DEF Tables
  <2>4. Writing' /\ OpenedOnly'
    BY <2>1 DEF Writing, OpenedOnly
  <2> QED
    BY <2>1, <2>3, <2>4, MemoryDisk
<1> QED
  BY <1>1, <1>2, <1>3, <1>4, <1>5, <1>6, <1>7, <1>8
(* The steps of a write.                                                   *)
LEMMA WriteDisk ==
  ASSUME DiskInv, WriteCreate \/ WriteText \/ WriteSync \/ WriteRename \/ WriteFail
  PROVE  DiskInv'
<1> DEFINE p == at.path
           none == Inode(NoFile, TRUE)
<1>0. /\ Tables /\ Shape /\ Whole /\ Writing /\ OpenedOnly /\ file \in [Paths -> FileRec]
      /\ at \in [path : Paths, step : {"create", "write", "sync", "rename"}]
      /\ p \in Paths /\ file[p] \in FileRec /\ none \in Inodes
  BY PlainTexts, InodeTyped DEF DiskInv, Tables, Shape
<1>1. ASSUME NEW step \in {"write", "sync", "rename"}, at' = [at EXCEPT !.step = step],
             pc = "save", UNCHANGED <<pc, db, ast, stops>>
      PROVE  Tables' /\ OpenedOnly' /\ at'.path = p /\ at'.step = step /\ Text' = Text
  <2>1. at'.path = p /\ at'.step = step
        /\ at' \in [path : Paths, step : {"create", "write", "sync", "rename"}]
    BY <1>0, <1>1
  <2>2. Tables'
    BY <1>0, <1>1, <2>1 DEF Tables
  <2>3. OpenedOnly'
    BY <1>0, <1>1, <2>1 DEF OpenedOnly
  <2>4. Text' = Text
    BY <1>1, <2>1 DEF Text
  <2> QED
    BY <2>1, <2>2, <2>3, <2>4
<1>2. CASE WriteCreate
  <2> DEFINE x == Inode(Torn, FALSE)
  <2>1. x \in Inodes
    BY PlainTexts, InodeTyped
  <2>2. /\ file' = [file EXCEPT ![p].tmp = x] /\ at' = [at EXCEPT !.step = "write"]
        /\ pc = "save" /\ UNCHANGED <<pc, db, ast, stops, saved>>
    BY <1>2 DEF WriteCreate
  <2> HIDE DEF x, p
  <2>3. Shape' /\ Whole'
    BY <1>0, <2>1, <2>2, TmpStep
  <2>4. Tables' /\ OpenedOnly' /\ at'.step = "write"
    BY <1>1, <2>2
  <2>5. Writing'
    BY <2>4 DEF Writing
  <2> QED
    BY <2>3, <2>4, <2>5 DEF DiskInv
<1>3. CASE WriteText
  <2> DEFINE x == Inode(Text, FALSE)
  <2>1. /\ file' = [file EXCEPT ![p].tmp = x] /\ at' = [at EXCEPT !.step = "sync"]
        /\ pc = "save" /\ UNCHANGED <<pc, db, ast, stops, saved>>
    BY <1>3 DEF WriteText
  <2>2. x \in Inodes /\ x.text = Text
    BY <2>1, TextTyped, InodeTyped
  <2> HIDE DEF x, p
  <2>3. Shape' /\ Whole' /\ TmpSet(p, x)
    BY <1>0, <2>1, <2>2, TmpStep
  <2>4. Tables' /\ OpenedOnly' /\ at'.path = p /\ at'.step = "sync" /\ Text' = Text
    BY <1>1, <2>1
  <2>5. Writing'
    BY <2>2, <2>3, <2>4 DEF Writing, TmpSet
  <2> QED
    BY <2>3, <2>4, <2>5 DEF DiskInv
<1>4. CASE WriteSync
  <2> DEFINE x == [file[p].tmp EXCEPT !.synced = TRUE]
  <2>1. /\ at' = [at EXCEPT !.step = "rename"]
        /\ pc = "save" /\ at.step = "sync" /\ UNCHANGED <<pc, db, ast, stops, saved>>
    BY <1>4 DEF WriteSync
  <2>2. file' = [file EXCEPT ![p].tmp = x]
    BY <1>0, <1>4 DEF WriteSync, FileRec, Inodes
  <2>3. x \in Inodes /\ x.text = file[p].tmp.text /\ x.synced = TRUE
    <3>1. file[p].tmp \in Inodes
      BY <1>0 DEF FileRec
    <3>2. x \in Inodes
      BY <3>1 DEF Inodes
    <3>3. x.text = file[p].tmp.text
      BY <3>1 DEF Inodes
    <3>4. x.synced = TRUE
      BY <3>1 DEF Inodes
    <3> QED
      BY <3>2, <3>3, <3>4
  <2>4. file[p].tmp.text = Text
    BY <1>0, <2>1 DEF Writing
  <2> HIDE DEF x, p
  <2>5. Shape' /\ Whole' /\ TmpSet(p, x)
    BY <1>0, <2>1, <2>2, <2>3, TmpStep
  <2>6. Tables' /\ OpenedOnly' /\ at'.path = p /\ at'.step = "rename" /\ Text' = Text
    BY <1>1, <2>1
  <2>7. Writing'
    BY <2>3, <2>4, <2>5, <2>6 DEF Writing, TmpSet
  <2> QED
    BY <2>5, <2>6, <2>7 DEF DiskInv
<1>5. CASE WriteRename
  <2> DEFINE i == file[p].tmp
             K == file[p].kept \cup {i}
             f == [main |-> i, tmp |-> none, kept |-> K]
             v == IF p = "db" THEN db ELSE ast
  <2>1. /\ pc = "save" /\ at.step = "rename" /\ WriteOver /\ stops' = stops
        /\ file' = [file EXCEPT ![p] = f]
        /\ saved' = [saved EXCEPT ![p] = {v}]
    BY <1>5 DEF WriteRename
  <2>2. i.text = Text /\ i.synced = TRUE /\ Text # Torn
    BY <1>0, <2>1, TextTyped DEF Writing
  <2>3. i \in Inodes /\ K \in SUBSET Inodes
    BY <1>0 DEF FileRec
  <2>4. \A j \in K : j.synced = TRUE /\ j.text # Torn
    BY <1>0, <2>2 DEF Whole
  <2> HIDE DEF i, K, none
  <2>5. f \in FileRec /\ f.main \in f.kept
    <3>1. i \in K
      BY DEF K
    <3> QED
      BY <1>0, <2>3, <3>1 DEF FileRec
  <2>6. f.kept = K
    OBVIOUS
  <2>7. v \in DbMem \cup AstMem
    BY <1>0 DEF Tables
  <2> HIDE DEF f, v, p
  <2>8. Shape' /\ Whole'
    BY <1>0, <2>1, <2>4, <2>5, <2>6, <2>7, FileStep
  <2>9. Tables' /\ Writing' /\ OpenedOnly'
    BY <1>0, <2>1, OverTables
  <2> QED
    BY <2>8, <2>9 DEF DiskInv
<1>6. CASE WriteFail
  <2>1. WriteOver /\ UNCHANGED <<stops, saved>>
    BY <1>6 DEF WriteFail
  <2>2. file' = file \/ file' = [file EXCEPT ![p].tmp = none]
    BY <1>6 DEF WriteFail
  <2> HIDE DEF none, p
  <2>3. Shape' /\ Whole'
    <3>1. CASE file' = file
      BY <1>0, <2>1, <3>1 DEF Shape, Whole
    <3>2. CASE file' = [file EXCEPT ![p].tmp = none]
      BY <1>0, <2>1, <3>2, TmpStep
    <3> QED
      BY <2>2, <3>1, <3>2
  <2>4. Tables' /\ Writing' /\ OpenedOnly'
    BY <1>0, <2>1, OverTables
  <2> QED
    BY <2>3, <2>4 DEF DiskInv
<1> QED
  BY <1>2, <1>3, <1>4, <1>5, <1>6

LEMMA EditedTyped ==
  ASSUME NEW p \in Paths, NEW x \in Edited(p)
  PROVE  x \in Texts /\ x # Torn
<1>1. CASE x = Malformed
  BY <1>1, PlainTexts
<1>2. CASE p = "db" /\ x = [DbText(EmptyDb, 0) EXCEPT !.profiles[0] = Profile0Bits + 1]
  <2> DEFINE y == DbText(EmptyDb, 0)
             P == [y.profiles EXCEPT ![0] = Profile0Bits + 1]
  <2>1. y \in Texts /\ y.kind = "db"
    BY DbTextTyped, TablesTyped
  <2>2. y \in DbTexts
    BY <2>1 DEF Texts, NoFile, Torn, Malformed, AstTexts
  <2>3. x = [y EXCEPT !.profiles = P]
    BY <1>2
  <2> HIDE DEF y
  <2>4. P \in [ProfileIds -> Int] /\ \A i \in ProfileIds \ {0} : P[i] < 2^(Width - 1)
    <3>1. Profile0Bits + 1 \in Int
      BY BitsAssumption
    <3>2. \A i \in ProfileIds \ {0} : y.profiles[i] < 2^(Width - 1)
      BY <2>1 DEF Texts, Fits
    <3> QED
      BY <2>2, <3>1, <3>2 DEF DbTexts
  <2> HIDE DEF P
  <2>5. x \in DbTexts /\ x.kind = "db" /\ x.profiles = P
    BY <2>2, <2>3, <2>4 DEF DbTexts
  <2> QED
    BY <2>4, <2>5 DEF Texts, Fits, Torn
<1>3. CASE x = [AstText(EmptyAst, 0) EXCEPT !.flag = FALSE]
  <2> DEFINE y == AstText(EmptyAst, 0)
  <2>1. y \in Texts /\ y.kind = "ast"
    BY AstTextTyped, TablesTyped
  <2>2. y \in AstTexts
    BY <2>1 DEF Texts, NoFile, Torn, Malformed, DbTexts
  <2> HIDE DEF y
  <2>3. x \in AstTexts /\ x.kind = "ast"
    BY <1>3, <2>2 DEF AstTexts, y
  <2> QED
    BY <2>3 DEF Texts, Fits, Torn
<1> QED
  BY <1>1, <1>2, <1>3 DEF Edited

LEMMA WorldDisk ==
  ASSUME DiskInv,
         PowerLoss \/ (\E p \in Paths : Flush(p)) \/ (\E p \in Paths : OperatorEdit(p))
  PROVE  DiskInv'
<1>0. Tables /\ Shape /\ Whole /\ Writing /\ OpenedOnly /\ file \in [Paths -> FileRec]
  BY DEF DiskInv, Shape
<1>1. CASE PowerLoss
  <2>1. /\ Down /\ stops' = stops
        /\ file' \in [Paths -> FileRec]
        /\ \A p \in Paths : file'[p].main \in file[p].kept /\ file'[p].kept = {file'[p].main}
        /\ saved' = [p \in Paths |-> IF file[p].kept = {file[p].main} THEN saved[p] ELSE {}]
    BY <1>1, LossEffect
  <2>2. Whole'
    BY <1>0, <2>1 DEF Whole
  <2>3. Shape'
    BY <1>0, <2>1 DEF Shape
  <2>4. Tables' /\ Writing' /\ OpenedOnly'
    BY <1>0, <2>1, DownTables
  <2> QED
    BY <2>2, <2>3, <2>4 DEF DiskInv
<1>2. ASSUME NEW p \in Paths, Flush(p) PROVE DiskInv'
  <2> DEFINE f == [file[p] EXCEPT !.kept = {file[p].main}]
  <2>1. file' = [file EXCEPT ![p] = f] /\ UNCHANGED <<pc, at, db, ast, stops, saved>>
    BY <1>2 DEF Flush
  <2>2. file[p] \in FileRec
    BY <1>0
  <2>3. f \in FileRec /\ f.main = file[p].main /\ f.tmp = file[p].tmp /\ f.kept = {file[p].main}
    BY <2>2 DEF FileRec
  <2> HIDE DEF f
  <2>4. \A i \in f.kept : i.synced = TRUE /\ i.text # Torn
    BY <1>0, <2>3 DEF Whole
  <2>5. Shape' /\ Whole'
    BY <1>0, <2>1, <2>3, <2>4, FileStep
  <2>6. \A q \in Paths : file'[q].tmp = file[q].tmp
    BY <1>0, <2>1, <2>3
  <2>7. Writing'
    <3>1. at.path \in Paths
      BY <1>0 DEF Tables
    <3>2. Text' = Text
      BY <2>1 DEF Text
    <3> QED
      BY <1>0, <2>1, <2>6, <3>1, <3>2 DEF Writing
  <2>8. Tables' /\ OpenedOnly'
    BY <1>0, <2>1 DEF Tables, OpenedOnly
  <2> QED
    BY <2>5, <2>7, <2>8 DEF DiskInv
<1>3. ASSUME NEW p \in Paths, OperatorEdit(p) PROVE DiskInv'
  <2>1. PICK x \in Edited(p) :
          file' = [file EXCEPT ![p].main = Inode(x, TRUE), ![p].kept = {Inode(x, TRUE)}]
    BY <1>3 DEF OperatorEdit
  <2>2. /\ pc = "off" /\ saved' = [saved EXCEPT ![p] = {}] /\ UNCHANGED <<pc, at, db, ast, stops>>
    BY <1>3 DEF OperatorEdit
  <2> DEFINE i == Inode(x, TRUE)
             f == [file[p] EXCEPT !.main = i, !.kept = {i}]
  <2>3. i \in Inodes /\ i.text = x /\ i.synced = TRUE /\ x # Torn
    BY EditedTyped, InodeTyped
  <2>4. file' = [file EXCEPT ![p] = f]
    BY <1>0, <2>1
  <2>5. file[p] \in FileRec
    BY <1>0
  <2> HIDE DEF i
  <2>6. f \in FileRec /\ f.main = i /\ f.kept = {i}
    BY <2>3, <2>5 DEF FileRec
  <2> HIDE DEF f
  <2>7. f.main \in f.kept /\ \A j \in f.kept : j.synced = TRUE /\ j.text # Torn
    BY <2>3, <2>6
  <2>8. Shape' /\ Whole'
    BY <1>0, <2>2, <2>4, <2>6, <2>7, FileStep
  <2>9. Tables' /\ OpenedOnly' /\ Writing'
    BY <1>0, <2>2 DEF Tables, OpenedOnly, Writing
  <2> QED
    BY <2>8, <2>9 DEF DiskInv
<1> QED
  BY <1>1, <1>2, <1>3

LEMMA NextDisk == DiskInv /\ [Next]_vars => DiskInv'
<1> SUFFICES ASSUME DiskInv, [Next]_vars PROVE DiskInv'
  OBVIOUS
<1>1. CASE UNCHANGED vars
  BY <1>1 DEF vars, DiskInv, Tables, Shape, Whole, Writing, OpenedOnly, Text
<1> QED
  BY <1>1, RunDisk, WriteDisk, WorldDisk DEF Next

(* Every variable keeps its type; an opened database has profile 0 at its  *)
(* fixed value, a closed one is all zero (db_open, db_put_profile).        *)
THEOREM TypeCorrect == Spec => []TypeOK
BY InitDisk, NextDisk, DiskTypes, PTL DEF Spec

(* Whatever a crash, a power loss or a failing system call interrupts, the *)
(* names of both files lead to the old or the new version, never to a torn *)
(* one (atomic_write: write, fsync, rename).                               *)
THEOREM FilesNeverTorn == Spec => []NeverTorn
<1>1. DiskInv => NeverTorn
  BY DEF DiskInv, Whole, NeverTorn
<1> QED
  BY <1>1, InitDisk, NextDisk, PTL DEF Spec
-----------------------------------------------------------------------------
(* A saved table is found again, and a refused file is left alone.  This   *)
(* needs packed profiles without the sign bit: json_pack writes one with   *)
(* it as a negative number, and json_get_uint refuses that.                *)

SmallBits == ProfileBits \subseteq 0 .. 2^(Width - 1) - 1

LEMMA InitRead == Init => ReadInv
<1> SUFFICES ASSUME Init PROVE ReadInv
  OBVIOUS
<1>1. "db" \in Paths /\ "ast" \in Paths
  BY DEF Paths
<1>2. SavedIsRead
  BY <1>1 DEF Init, SavedIsRead
<1>3. file["db"].main.text = NoFile /\ file["db"].kept = {file["db"].main}
  BY <1>1 DEF Init, Inode
<1>4. OpenedIsRead
  BY <1>3 DEF OpenedIsRead
<1>5. SmallInMemory
  BY Powers DEF Init, SmallInMemory, ClosedDb
<1> QED
  BY <1>2, <1>4, <1>5 DEF ReadInv

(* A step that leaves what the names lead to.                              *)
SameNames ==
  /\ \A p \in Paths : file'[p].main = file[p].main /\ file'[p].kept = file[p].kept
  /\ saved' = saved

LEMMA SameNamesRead ==
  ASSUME ReadInv, SameNames, SmallInMemory',
         db'.opened => \/ db.opened
                       \/ file["db"].main.text = NoFile
                       \/ Readable(file["db"].main.text)
  PROVE  ReadInv'
<1>1. "db" \in Paths /\ "ast" \in Paths
  BY DEF Paths
<1>2. SavedIsRead'
  BY <1>1 DEF ReadInv, SavedIsRead, SameNames
<1>3. OpenedIsRead'
  BY <1>1 DEF ReadInv, OpenedIsRead, SameNames
<1> QED
  BY <1>2, <1>3 DEF ReadInv

LEMMA ClosedSmall ==
  ASSUME db' = ClosedDb
  PROVE  SmallInMemory' /\ ~db'.opened
<1>1. 0 < 2^(Width - 1)
  BY Powers
<1> QED
  BY <1>1 DEF SmallInMemory, ClosedDb

(* db_open never makes a table with the sign bit set.                      *)
LEMMA OpenedSmall ==
  ASSUME NEW x \in Texts, db' = Opened(x)
  PROVE  SmallInMemory'
<1>1. 0 < 2^(Width - 1) /\ Profile0Bits < 2^(Width - 1)
  BY Powers, BitsAssumption
<1>2. CASE Opened(x) = EmptyDb
  BY <1>1, <1>2 DEF SmallInMemory, EmptyDb
<1>3. CASE Opened(x) = ClosedDb
  BY <1>3, ClosedSmall
<1>4. CASE Readable(x) /\ Opened(x) = Loaded(x)
  <2>1. \A i \in ProfileIds \ {0} : x.profiles[i] < 2^(Width - 1)
    BY <1>4 DEF Texts, Fits, Readable
  <2>2. \A i \in ProfileIds : Loaded(x).profiles[i] = IF i = 0 THEN Profile0Bits ELSE x.profiles[i]
    BY DEF Loaded
  <2> QED
    BY <1>1, <1>4, <2>1, <2>2 DEF SmallInMemory
<1>5. \/ Opened(x) = EmptyDb \/ Opened(x) = ClosedDb \/ (Readable(x) /\ Opened(x) = Loaded(x))
  BY DEF Opened
<1> QED
  BY <1>2, <1>3, <1>4, <1>5

LEMMA RunRead ==
  ASSUME SmallBits, DiskInv, ReadInv,
         \/ Start \/ DbOpen \/ AstReload \/ Stop \/ Crash
         \/ \E id \in ProfileIds, bits \in ProfileBits : PutProfile(id, bits)
         \/ \E s \in Slots, e \in Entities : PutEntity(s, e)
         \/ \E s \in AstSlots, v \in AstEntries \cup {Invalid} : AstUpdate(s, v)
  PROVE  ReadInv' /\ SameNames
<1>0. /\ db \in DbMem /\ file \in [Paths -> FileRec] /\ Shape /\ Whole /\ SmallInMemory
      /\ "db" \in Paths
  BY DEF DiskInv, Tables, Shape, ReadInv, Paths
<1>1. CASE Start \/ AstReload \/ Stop
  <2>1. SameNames /\ db' = db
    BY <1>1 DEF Start, AstReload, Stop, SameNames
  <2>2. SmallInMemory'
    BY <1>0, <2>1 DEF SmallInMemory
  <2> QED
    BY <2>1, <2>2, SameNamesRead
<1>2. CASE Crash
  <2>1. SameNames /\ db' = ClosedDb
    BY <1>2 DEF Crash, Dies, SameNames
  <2> QED
    BY <2>1, ClosedSmall, SameNamesRead
<1>3. CASE DbOpen
  <2> DEFINE x == Inode(NoFile, TRUE)
             t == file["db"].main.text
  <2>1. file' = [file EXCEPT !["db"].tmp = x] /\ db' = Opened(t) /\ saved' = saved /\ t \in Texts
    BY <1>0, <1>3 DEF DbOpen, FileRec, Inodes
  <2>2. x \in Inodes
    BY PlainTexts, InodeTyped
  <2> HIDE DEF x, t
  <2>3. TmpSet("db", x)
    BY <1>0, <2>1, <2>2, TmpStep
  <2>4. SameNames
    BY <2>1, <2>3 DEF SameNames, TmpSet
  <2>5. db'.opened => t = NoFile \/ Readable(t)
    BY <2>1, OpenedTyped
  <2>6. SmallInMemory'
    BY <2>1, OpenedSmall
  <2> QED
    BY <2>4, <2>5, <2>6, SameNamesRead DEF t
<1>4. ASSUME NEW id \in ProfileIds, NEW bits \in ProfileBits, PutProfile(id, bits)
      PROVE  ReadInv' /\ SameNames
  <2>1. SameNames /\ db.opened /\ db' = [db EXCEPT !.profiles[id] = bits]
    BY <1>4 DEF PutProfile, SameNames
  <2>2. bits < 2^(Width - 1)
    BY Powers DEF SmallBits
  <2>3. db'.profiles = [db.profiles EXCEPT ![id] = bits] /\ db.profiles \in [ProfileIds -> 0 .. 2^Width - 1]
    BY <1>0, <2>1 DEF DbMem
  <2>4. SmallInMemory'
    BY <1>0, <2>2, <2>3 DEF SmallInMemory
  <2> QED
    BY <2>1, <2>4, SameNamesRead
<1>5. ASSUME NEW s \in Slots, NEW e \in Entities, PutEntity(s, e)
      PROVE  ReadInv' /\ SameNames
  <2>1. SameNames /\ db.opened /\ db' = [db EXCEPT !.entities[s] = e]
    BY <1>5 DEF PutEntity, SameNames
  <2>2. db'.profiles = db.profiles
    BY <1>0, <2>1 DEF DbMem
  <2>3. SmallInMemory'
    BY <1>0, <2>2 DEF SmallInMemory
  <2> QED
    BY <2>1, <2>3, SameNamesRead
<1>6. ASSUME NEW s \in AstSlots, NEW v \in AstEntries \cup {Invalid}, AstUpdate(s, v)
      PROVE  ReadInv' /\ SameNames
  <2>1. SameNames /\ db' = db
    BY <1>6 DEF AstUpdate, SameNames
  <2>2. SmallInMemory'
    BY <1>0, <2>1 DEF SmallInMemory
  <2> QED
    BY <2>1, <2>2, SameNamesRead
<1> QED
  BY <1>1, <1>2, <1>3, <1>4, <1>5, <1>6

LEMMA OverSmall ==
  ASSUME SmallInMemory, WriteOver
  PROVE  SmallInMemory' /\ (db'.opened => db.opened)
<1>1. db' = db \/ db' = ClosedDb
  BY DEF WriteOver
<1>2. CASE db' = db
  BY <1>2 DEF SmallInMemory
<1>3. CASE db' = ClosedDb
  BY <1>3, ClosedSmall
<1> QED
  BY <1>1, <1>2, <1>3

(* The rename: the name of path p leads to the text of the table, and that *)
(* is what is read from it.                                                *)
LEMMA RenameEffect ==
  ASSUME DiskInv, ReadInv, WriteRename
  PROVE  LET p == at.path
             v == IF p = "db" THEN db ELSE ast
         IN /\ p \in Paths
            /\ file'[p].main.text = Text
            /\ \A q \in Paths \ {p} : file'[q] = file[q]
            /\ saved' = [saved EXCEPT ![p] = {v}]
            /\ p = "db" => Readable(Text) /\ Loaded(Text) = v /\ db.opened
            /\ p = "ast" => Reloaded(Text) = v
<1> DEFINE p == at.path
           v == IF p = "db" THEN db ELSE ast
<1>1. /\ pc = "save" /\ at.step = "rename" /\ p \in Paths /\ file \in [Paths -> FileRec]
      /\ db \in DbMem /\ ast \in AstMem /\ stops \in Nat
  BY MaxStopsAssumption DEF WriteRename, DiskInv, Tables, Shape
<1>2. file[p].tmp.text = Text
  BY <1>1 DEF DiskInv, Writing
<1>3. file'[p].main = file[p].tmp /\ \A q \in Paths \ {p} : file'[q] = file[q]
  BY <1>1 DEF WriteRename
<1>4. saved' = [saved EXCEPT ![p] = {v}]
  BY DEF WriteRename
<1>5. ASSUME p = "db" PROVE Readable(Text) /\ Loaded(Text) = v /\ db.opened
  <2>1. db.opened /\ db.profiles[0] = Profile0Bits /\ Text = DbText(db, stops)
    BY <1>1, <1>5 DEF DiskInv, OpenedOnly, Tables, Text
  <2>2. \A i \in ProfileIds : db.profiles[i] < 2^(Width - 1)
    BY DEF ReadInv, SmallInMemory
  <2> QED
    BY <1>1, <1>5, <2>1, <2>2, DbRoundTrip
<1>6. ASSUME p = "ast" PROVE Reloaded(Text) = v
  <2>1. Text = AstText(ast, stops) /\ v = ast
    BY <1>6 DEF Text
  <2> QED
    BY <1>1, <2>1, AstRoundTrip
<1> QED
  BY <1>1, <1>2, <1>3, <1>4, <1>5, <1>6

LEMMA WriteRead ==
  ASSUME DiskInv, ReadInv, WriteCreate \/ WriteText \/ WriteSync \/ WriteRename \/ WriteFail
  PROVE  ReadInv'
<1> DEFINE p == at.path
<1>0. /\ file \in [Paths -> FileRec] /\ Shape /\ Whole /\ SmallInMemory /\ p \in Paths
      /\ file[p] \in FileRec /\ saved \in [Paths -> SUBSET (DbMem \cup AstMem)]
  BY DEF DiskInv, Tables, Shape, ReadInv
<1>1. ASSUME NEW x \in Inodes, file' = [file EXCEPT ![p].tmp = x], saved' = saved,
             SmallInMemory', db'.opened => db.opened
      PROVE  ReadInv'
  <2> HIDE DEF p
  <2>1. TmpSet(p, x)
    BY <1>0, <1>1, TmpStep
  <2>2. SameNames
    BY <1>1, <2>1 DEF SameNames, TmpSet
  <2> QED
    BY <1>1, <2>2, SameNamesRead
<1>2. CASE WriteCreate \/ WriteText \/ WriteSync
  <2>1. saved' = saved /\ db' = db
    BY <1>2 DEF WriteCreate, WriteText, WriteSync
  <2>2. SmallInMemory'
    BY <1>0, <2>1 DEF SmallInMemory
  <2>3. CASE WriteCreate
    <3>1. Inode(Torn, FALSE) \in Inodes
      BY PlainTexts, InodeTyped
    <3> QED
      BY <1>1, <2>1, <2>2, <2>3, <3>1 DEF WriteCreate
  <2>4. CASE WriteText
    <3>1. Inode(Text, FALSE) \in Inodes
      BY <2>4, TextTyped, InodeTyped DEF WriteText
    <3> QED
      BY <1>1, <2>1, <2>2, <2>4, <3>1 DEF WriteText
  <2>5. CASE WriteSync
    <3> DEFINE x == [file[p].tmp EXCEPT !.synced = TRUE]
    <3>1. x \in Inodes
      BY <1>0 DEF FileRec, Inodes
    <3>2. file' = [file EXCEPT ![p].tmp = x]
      BY <1>0, <2>5 DEF WriteSync, FileRec, Inodes
    <3> HIDE DEF x
    <3> QED
      BY <1>1, <2>1, <2>2, <3>1, <3>2
  <2> QED
    BY <1>2, <2>3, <2>4, <2>5
<1>3. CASE WriteFail
  <2>1. saved' = saved /\ SmallInMemory' /\ (db'.opened => db.opened)
    BY <1>0, <1>3, OverSmall DEF WriteFail
  <2>2. CASE file' = file
    BY <2>1, <2>2, SameNamesRead DEF SameNames
  <2>3. CASE file' = [file EXCEPT ![p].tmp = Inode(NoFile, TRUE)]
    <3>1. Inode(NoFile, TRUE) \in Inodes
      BY PlainTexts, InodeTyped
    <3> QED
      BY <1>1, <2>1, <2>3, <3>1
  <2> QED
    BY <1>3, <2>2, <2>3 DEF WriteFail
<1>4. CASE WriteRename
  <2> DEFINE v == IF p = "db" THEN db ELSE ast
  <2>1. /\ file'[p].main.text = Text
        /\ \A q \in Paths \ {p} : file'[q] = file[q]
        /\ saved' = [saved EXCEPT ![p] = {v}]
        /\ p = "db" => Readable(Text) /\ Loaded(Text) = v /\ db.opened
        /\ p = "ast" => Reloaded(Text) = v
    BY <1>4, RenameEffect
  <2>2. SmallInMemory' /\ (db'.opened => db.opened)
    BY <1>0, <1>4, OverSmall DEF WriteRename
  <2>3. saved'[p] = {v} /\ \A q \in Paths \ {p} : saved'[q] = saved[q]
    BY <1>0, <2>1
  <2> HIDE DEF v
  <2>4. CASE p = "db"
    <3>1. file'["ast"] = file["ast"] /\ saved'["ast"] = saved["ast"]
      BY <2>1, <2>3, <2>4 DEF Paths
    <3>2. SavedIsRead'
      BY <2>1, <2>3, <2>4, <3>1 DEF SavedIsRead, ReadInv
    <3>3. OpenedIsRead'
      BY <2>1, <2>4 DEF OpenedIsRead
    <3> QED
      BY <2>2, <3>2, <3>3 DEF ReadInv
  <2>5. CASE p = "ast"
    <3>1. file'["db"] = file["db"] /\ saved'["db"] = saved["db"]
      BY <2>1, <2>3, <2>5 DEF Paths
    <3>2. SavedIsRead'
      BY <2>1, <2>3, <2>5, <3>1 DEF SavedIsRead, ReadInv
    <3>3. OpenedIsRead'
      BY <2>2, <3>1 DEF OpenedIsRead, ReadInv
    <3> QED
      BY <2>2, <3>2, <3>3 DEF ReadInv
  <2> QED
    BY <1>0, <2>4, <2>5 DEF Paths
<1> QED
  BY <1>2, <1>3, <1>4

LEMMA WorldRead ==
  ASSUME DiskInv, ReadInv,
         PowerLoss \/ (\E p \in Paths : Flush(p)) \/ (\E p \in Paths : OperatorEdit(p))
  PROVE  ReadInv'
<1>0. /\ file \in [Paths -> FileRec] /\ SmallInMemory /\ "db" \in Paths /\ "ast" \in Paths
      /\ saved \in [Paths -> SUBSET (DbMem \cup AstMem)]
  BY DEF DiskInv, Shape, ReadInv, Paths
<1>1. CASE PowerLoss
  <2>1. /\ Down
        /\ \A p \in Paths : file'[p].main \in file[p].kept /\ file'[p].kept = {file'[p].main}
        /\ saved' = [p \in Paths |-> IF file[p].kept = {file[p].main} THEN saved[p] ELSE {}]
    BY <1>1, LossEffect
  <2>2. SmallInMemory' /\ ~db'.opened
    BY <2>1, ClosedSmall DEF Down
  <2>3. \A p \in Paths : saved'[p] # {} => saved'[p] = saved[p] /\ file'[p].main = file[p].main
    BY <2>1
  <2>4. SavedIsRead'
    BY <1>0, <2>3 DEF SavedIsRead, ReadInv
  <2>5. OpenedIsRead'
    BY <1>0, <2>1, <2>2 DEF OpenedIsRead
  <2> QED
    BY <2>2, <2>4, <2>5 DEF ReadInv
<1>2. ASSUME NEW p \in Paths, Flush(p) PROVE ReadInv'
  <2>1. UNCHANGED <<db, saved>> /\ file' = [file EXCEPT ![p].kept = {file[p].main}]
    BY <1>2 DEF Flush
  <2>2. file[p] \in FileRec
    BY <1>0
  <2>3. /\ \A q \in Paths : file'[q].main = file[q].main
        /\ \A q \in Paths : file'[q].kept = file[q].kept \/ file'[q].kept = {file[q].main}
    BY <1>0, <2>1, <2>2 DEF FileRec
  <2>4. SmallInMemory'
    BY <1>0, <2>1 DEF SmallInMemory
  <2>5. SavedIsRead'
    BY <1>0, <2>1, <2>3 DEF SavedIsRead, ReadInv
  <2>6. OpenedIsRead'
    BY <1>0, <2>1, <2>3 DEF OpenedIsRead, ReadInv
  <2> QED
    BY <2>4, <2>5, <2>6 DEF ReadInv
<1>3. ASSUME NEW p \in Paths, OperatorEdit(p) PROVE ReadInv'
  <2>1. PICK x \in Edited(p) :
          file' = [file EXCEPT ![p].main = Inode(x, TRUE), ![p].kept = {Inode(x, TRUE)}]
    BY <1>3 DEF OperatorEdit
  <2>2. pc = "off" /\ saved' = [saved EXCEPT ![p] = {}] /\ UNCHANGED db
    BY <1>3 DEF OperatorEdit
  <2>3. ~db.opened
    BY <2>2 DEF DiskInv, OpenedOnly
  <2>4. file[p] \in FileRec
    BY <1>0
  <2> DEFINE i == Inode(x, TRUE)
  <2>5. file' = [file EXCEPT ![p] = [file[p] EXCEPT !.main = i, !.kept = {i}]]
    BY <1>0, <2>1
  <2> HIDE DEF i
  <2>6. file'[p].main = i /\ file'[p].kept = {i} /\ \A q \in Paths \ {p} : file'[q] = file[q]
    BY <1>0, <2>4, <2>5 DEF FileRec
  <2>7. saved'[p] = {} /\ \A q \in Paths \ {p} : saved'[q] = saved[q]
    BY <1>0, <2>2
  <2>8. SmallInMemory'
    BY <1>0, <2>2 DEF SmallInMemory
  <2>9. SavedIsRead'
    BY <1>0, <2>6, <2>7 DEF SavedIsRead, ReadInv
  <2>10. OpenedIsRead'
    BY <1>0, <2>2, <2>3, <2>6 DEF OpenedIsRead, ReadInv
  <2> QED
    BY <2>8, <2>9, <2>10 DEF ReadInv
<1> QED
  BY <1>1, <1>2, <1>3

LEMMA NextRead ==
  ASSUME SmallBits
  PROVE  DiskInv /\ ReadInv /\ [Next]_vars => ReadInv'
<1> SUFFICES ASSUME DiskInv, ReadInv, [Next]_vars PROVE ReadInv'
  OBVIOUS
<1>1. CASE UNCHANGED vars
  BY <1>1 DEF vars, ReadInv, SavedIsRead, OpenedIsRead, SmallInMemory
<1> QED
  BY <1>1, RunRead, WriteRead, WorldRead DEF Next
(* The table a start finds.                                                *)
LEMMA ReopenStep ==
  ASSUME DiskInv, ReadInv, Next
  PROVE  /\ pc = "open" /\ pc' = "reload" /\ saved["db"] # {} => db' \in saved["db"]
         /\ pc = "reload" /\ pc' = "run" /\ saved["ast"] # {} => ast' \in saved["ast"]
<1>1. ASSUME pc = "open", pc' = "reload" PROVE DbOpen
  BY <1>1 DEF Next, Start, AstReload, PutProfile, PutEntity, AstUpdate, Stop, WriteCreate, WriteText,
     WriteSync, WriteRename, WriteFail, Crash, PowerLoss, Dies, Flush, OperatorEdit
<1>2. ASSUME pc = "reload", pc' = "run" PROVE AstReload
  BY <1>2 DEF Next, Start, DbOpen, PutProfile, PutEntity, AstUpdate, Stop, WriteCreate, WriteText,
     WriteSync, WriteRename, WriteFail, Crash, PowerLoss, Dies, Flush, OperatorEdit
<1>3. ASSUME pc = "open", pc' = "reload", saved["db"] # {} PROVE db' \in saved["db"]
  <2>1. db' = Opened(file["db"].main.text)
    BY <1>1, <1>3 DEF DbOpen
  <2>2. Readable(file["db"].main.text) /\ Loaded(file["db"].main.text) \in saved["db"]
    BY <1>3 DEF ReadInv, SavedIsRead
  <2>3. Opened(file["db"].main.text) = Loaded(file["db"].main.text)
    BY <2>2 DEF Opened, Readable
  <2> QED
    BY <2>1, <2>2, <2>3
<1>4. ASSUME pc = "reload", pc' = "run", saved["ast"] # {} PROVE ast' \in saved["ast"]
  BY <1>2, <1>4 DEF AstReload, ReadInv, SavedIsRead
<1> QED
  BY <1>3, <1>4

(* db_atomic_save and ast_snapshot, then db_open and ast_reload: once a    *)
(* save has returned 0, the next start finds exactly that table, through   *)
(* crashes and failed later writes, and through a power loss once the      *)
(* directory is on disk - for every table whose packed profiles do not set *)
(* the sign bit.                                                           *)
THEOREM SavedTableIsFound ==
  ASSUME SmallBits
  PROVE  Spec => ReopenedAsSaved
<1> DEFINE A == /\ pc = "open" /\ pc' = "reload" /\ saved["db"] # {} => db' \in saved["db"]
                /\ pc = "reload" /\ pc' = "run" /\ saved["ast"] # {} => ast' \in saved["ast"]
<1>1. DiskInv /\ ReadInv /\ [Next]_vars => [A]_vars
  BY ReopenStep
<1>2. DiskInv /\ ReadInv /\ [Next]_vars => ReadInv'
  BY NextRead
<1> QED
  BY <1>1, <1>2, InitDisk, NextDisk, InitRead, PTL DEF Spec, ReopenedAsSaved

(* Only the operator changes a file that db_open refused.                  *)
LEMMA RefusedStep ==
  ASSUME SmallBits, DiskInv, ReadInv, Next,
         file["db"].main.text # NoFile, ~Readable(file["db"].main.text),
         file'["db"].main.text # file["db"].main.text
  PROVE  OperatorEdit("db")
<1>0. "db" \in Paths /\ file \in [Paths -> FileRec] /\ Shape /\ Whole /\ at.path \in Paths
  BY DEF Paths, DiskInv, Tables, Shape
<1>1. ~SameNames
  BY <1>0 DEF SameNames
<1>2. CASE WriteRename
  <2>1. at.path # "db"
    <3>1. at.path = "db" => db.opened
      BY <1>2 DEF DiskInv, OpenedOnly, WriteRename
    <3> QED
      BY <3>1 DEF ReadInv, OpenedIsRead
  <2>2. file'["db"] = file["db"]
    BY <1>0, <1>2, <2>1, RenameEffect
  <2> QED
    BY <2>2
<1>3. CASE PowerLoss
  <2>1. file["db"].kept = {file["db"].main}
    BY DEF ReadInv, OpenedIsRead
  <2>2. file'["db"].main \in file["db"].kept
    BY <1>0, <1>3, LossEffect
  <2> QED
    BY <2>1, <2>2
<1>4. ASSUME NEW p \in Paths, Flush(p) PROVE FALSE
  <2>1. file[p] \in FileRec /\ file' = [file EXCEPT ![p].kept = {file[p].main}]
    BY <1>0, <1>4 DEF Flush
  <2>2. file'["db"].main = file["db"].main
    BY <1>0, <2>1 DEF FileRec
  <2> QED
    BY <2>2
<1>5. ASSUME NEW p \in Paths, OperatorEdit(p) PROVE OperatorEdit("db")
  <2>1. CASE p # "db"
    <3>1. PICK x \in Edited(p) :
            file' = [file EXCEPT ![p].main = Inode(x, TRUE), ![p].kept = {Inode(x, TRUE)}]
      BY <1>5 DEF OperatorEdit
    <3>2. file'["db"] = file["db"]
      BY <1>0, <2>1, <3>1
    <3> QED
      BY <3>2
  <2> QED
    BY <1>5, <2>1
<1>6. CASE WriteCreate \/ WriteText \/ WriteSync \/ WriteFail
  <2>1. file'["db"].main = file["db"].main
    <3>1. CASE file' = file
      BY <3>1
    <3>2. ASSUME NEW x, file' = [file EXCEPT ![at.path].tmp = x] PROVE file'["db"].main = file["db"].main
      <4>1. file[at.path] \in FileRec
        BY <1>0
      <4> QED
        BY <1>0, <3>2, <4>1 DEF FileRec
    <3>3. CASE WriteSync
      <4>1. file' = [file EXCEPT ![at.path].tmp = [file[at.path].tmp EXCEPT !.synced = TRUE]]
        BY <1>0, <3>3 DEF WriteSync, FileRec, Inodes
      <4> QED
        BY <3>2, <4>1
    <3> QED
      BY <1>6, <3>1, <3>2, <3>3 DEF WriteCreate, WriteText, WriteFail
  <2> QED
    BY <2>1
<1> QED
  BY <1>1, <1>2, <1>3, <1>4, <1>5, <1>6, RunRead DEF Next

(* db_open does not auto-heal: a refused db.json stays as it is through    *)
(* any number of starts, stops, crashes and power losses, until the        *)
(* operator replaces it.                                                   *)
THEOREM RefusedIsLeftAlone ==
  ASSUME SmallBits
  PROVE  Spec => RefusedFileKept
<1> DEFINE A == LET text == file["db"].main.text
                IN  text # NoFile /\ ~Readable(text) /\ file'["db"].main.text # text
                      => OperatorEdit("db")
<1>1. DiskInv /\ ReadInv /\ [Next]_vars => [A]_vars
  BY RefusedStep
<1>2. DiskInv /\ ReadInv /\ [Next]_vars => ReadInv'
  BY NextRead
<1> QED
  BY <1>1, <1>2, InitDisk, NextDisk, InitRead, PTL DEF Spec, RefusedFileKept
=============================================================================
