------------------------- MODULE ConfigStore_proofs -------------------------
(***************************************************************************)
(* Proofs about ConfigStore, for any number of updates, fields, files and  *)
(* crashes: an acknowledged update survives a power loss, and replacing    *)
(* config.toml is atomic, although concurrent saves share config.tmp.      *)
(***************************************************************************)
EXTENDS ConfigStore, TLAPS

Contents == Configs \cup {Empty, Torn}
Steps == Saving \cup {"idle", "save", "refused", "done", "saved", "renameFailed", "ioError", "gone",
                      "bootFailed"}

TypeOK ==
    /\ mem \in Configs
    /\ pc \in [Callers -> Steps]
    /\ text \in [Callers -> Configs \cup {Empty}]
    /\ fd \in [Callers -> Files \cup {None}]
    /\ tmp \in Files \cup {None}
    /\ cfg \in Files \cup {None}
    /\ cfgDisk \subseteq Files \cup {None}
    /\ data \in [Files -> Contents]
    /\ disk \in [Files -> SUBSET Contents]
    /\ crashes \in Nat

\* A save between open and rename has its file open.
HasFile == \A w \in Callers : pc[w] \in {"write", "sync", "rename"} => fd[w] \in Files

\* A save has the file e open and has not synced it: what is on the disk of e is not settled.
Dirty(e) == \E w \in Callers : pc[w] \in {"write", "sync"} /\ fd[w] = e

\* What is on the disk of e, or will be once the saves that have e open synced it, is mem.
Settled(e) == Dirty(e) \/ (disk[e] = {mem} /\ data[e] = mem)

\* The read lock keeps memory still: every save under way serialised what is in memory.
TextIsMem == \A w \in Readers : text[w] = mem

\* A save that has written its file finds its own text in it when it syncs, unless another
\* save truncated the file, and that one has not written yet.
WrittenIsMem ==
    \A w \in Callers : pc[w] = "sync" =>
        data[fd[w]] = mem \/ \E v \in Callers : pc[v] = "write" /\ fd[v] = fd[w]

SyncedIsMem == \A w \in Callers : pc[w] = "rename" => Settled(fd[w])

\* While the disk works, config.tmp is the file of a save under way, and no name of config.toml.
TmpIsOpen ==
    tmp # None => \E w \in Callers : fd[w] = tmp /\ pc[w] \in {"write", "sync", "rename"}

TmpIsNotCfg == tmp # None => tmp \notin cfgDisk \cup {cfg}

CfgOnDisk == cfg \in cfgDisk

RenamedIsMem == \A w \in Callers : pc[w] = "syncDir" => cfg # None /\ (Dirty(cfg) \/ disk[cfg] = {mem})

\* A file that config.toml may name has one possible content, unless a save has it open.
NamedIsSynced == \A e \in cfgDisk \ {None} : Dirty(e) \/ disk[e] = {data[e]}

\* A saved update that is still in memory is in every file that config.toml may name, unless a
\* save has that file open.
SavedIsNamed ==
    \A u \in Updates : pc[u] = "saved" /\ mem[Field[u]] = u =>
        /\ None \notin cfgDisk
        /\ \A e \in cfgDisk : Dirty(e) \/ \A c \in disk[e] : c \in Configs /\ c[Field[u]] = u

SavesAgree ==
    /\ TextIsMem
    /\ WrittenIsMem
    /\ SyncedIsMem
    /\ TmpIsOpen
    /\ TmpIsNotCfg
    /\ CfgOnDisk
    /\ RenamedIsMem
    /\ NamedIsSynced
    /\ SavedIsNamed

\* The inductive invariant.  An io error may leave config.tmp behind half written, for the next
\* save to find, so everything but the types needs a disk that has worked so far.
StoreInv == TypeOK /\ HasFile /\ (DiskWorks => SavesAgree)

-----------------------------------------------------------------------------
(* Types *)

\* What load makes of a complete or an empty file is a configuration.
LEMMA LoadedType == ASSUME NEW c \in Contents PROVE Loaded(c) \in Configs
<1>1. Defaults \in Configs
  BY DEF Defaults, Configs
<1> QED BY <1>1 DEF Loaded, Contents

\* An update changes one field of a configuration.
LEMMA UpdateType ==
    ASSUME NEW c \in Configs, NEW u \in Updates
    PROVE  [c EXCEPT ![Field[u]] = u] \in Configs
  BY FieldAssumption DEF Configs

\* A crash leaves one of the contents of one of the files, or no file.
LEMMA CrashType ==
    ASSUME TypeOK, Crash
    PROVE  /\ cfg' \in Files \cup {None}
           /\ data' \in [Files -> Contents]
           /\ cfg' # None => data'[cfg'] \in disk[cfg']
           /\ \A i \in Files : disk'[i] = {data'[i]}
           /\ mem' = Loaded(IF cfg' = None THEN Empty ELSE data'[cfg'])
           /\ pc' \in [Callers -> Steps]
           /\ \A w \in Callers : pc'[w] \notin Saving
<1> USE DEF TypeOK
<1>1. cfg' \in Files \cup {None}
  BY DEF Crash
<1>2. data' \in [Files -> Contents] /\ (cfg' # None => data'[cfg'] \in disk[cfg'])
  <2>1. CASE cfg' = None
    BY <2>1 DEF Crash
  <2>2. CASE cfg' # None
    <3>1. PICK c \in disk[cfg'] : data' = [data EXCEPT ![cfg'] = c]
      BY <2>2 DEF Crash
    <3> QED BY <1>1, <2>2, <3>1
  <2> QED BY <2>1, <2>2
<1>3. \A i \in Files : disk'[i] = {data'[i]}
  BY DEF Crash
<1>4. mem' = Loaded(IF cfg' = None THEN Empty ELSE data'[cfg'])
  BY DEF Crash
<1>5. pc' \in [Callers -> Steps] /\ \A w \in Callers : pc'[w] \notin Saving
  BY DEF Crash, Steps, Saving
<1> QED BY <1>1, <1>2, <1>3, <1>4, <1>5

LEMMA TypeStep ==
    ASSUME TypeOK, HasFile, [Next]_vars
    PROVE  TypeOK' /\ HasFile'
<1> USE DEF TypeOK, HasFile, Goto, fileVars
<1>1. ASSUME NEW u \in Updates, Update(u) PROVE TypeOK' /\ HasFile'
  <2>1. mem' \in Configs
    BY <1>1, UpdateType DEF Update
  <2>2. pc' \in [Callers -> Steps]
    BY <1>1 DEF Update, Steps
  <2> QED BY <1>1, <2>1, <2>2 DEF Update
<1>2. ASSUME NEW w \in Callers, BeginSave(w) PROVE TypeOK' /\ HasFile'
  BY <1>2 DEF BeginSave, Steps, Saving
<1>3. ASSUME NEW w \in Callers, OpenTmp(w) PROVE TypeOK' /\ HasFile'
  <2>1. PICK i \in Files :
          /\ tmp' = i
          /\ fd' = [fd EXCEPT ![w] = i]
          /\ data' = [data EXCEPT ![i] = Empty]
          /\ disk' = [disk EXCEPT ![i] = IF tmp = None THEN {Empty} ELSE @ \cup {Empty}]
    BY <1>3 DEF OpenTmp
  <2>2. pc' \in [Callers -> Steps] /\ fd' \in [Callers -> Files \cup {None}]
    BY <1>3, <2>1 DEF OpenTmp, Steps, Saving
  <2>3. data' \in [Files -> Contents] /\ disk' \in [Files -> SUBSET Contents]
    BY <2>1 DEF Contents
  <2>4. HasFile'
    BY <1>3, <2>1 DEF OpenTmp
  <2> QED BY <1>3, <2>1, <2>2, <2>3, <2>4 DEF OpenTmp
<1>4. ASSUME NEW w \in Callers, WriteTmp(w) PROVE TypeOK' /\ HasFile'
  <2>1. fd[w] \in Files
    BY <1>4 DEF WriteTmp
  <2>2. data' \in [Files -> Contents] /\ disk' \in [Files -> SUBSET Contents]
    BY <1>4, <2>1 DEF WriteTmp, Contents
  <2>3. pc' \in [Callers -> Steps]
    BY <1>4 DEF WriteTmp, Steps, Saving
  <2> QED BY <1>4, <2>1, <2>2, <2>3 DEF WriteTmp
<1>5. ASSUME NEW w \in Callers, SyncTmp(w) PROVE TypeOK' /\ HasFile'
  BY <1>5 DEF SyncTmp, Steps, Saving
<1>6. ASSUME NEW w \in Callers, Rename(w) PROVE TypeOK' /\ HasFile'
  <2>1. pc' \in [Callers -> Steps] /\ fd' \in [Callers -> Files \cup {None}]
    BY <1>6 DEF Rename, Steps, Saving
  <2>2. tmp' \in Files \cup {None} /\ cfg' \in Files \cup {None} /\ cfgDisk' \subseteq Files \cup {None}
    BY <1>6 DEF Rename
  <2>3. HasFile'
    BY <1>6 DEF Rename
  <2> QED BY <1>6, <2>1, <2>2, <2>3 DEF Rename
<1>7. ASSUME NEW w \in Callers, SyncDir(w) PROVE TypeOK' /\ HasFile'
  BY <1>7 DEF SyncDir, Steps, Saving
<1>8. ASSUME NEW w \in Callers, IoFails(w) PROVE TypeOK' /\ HasFile'
  BY <1>8 DEF IoFails, Steps, Saving
<1>9. ASSUME Crash PROVE TypeOK' /\ HasFile'
  <2>1. mem' \in Configs
    <3>1. (IF cfg' = None THEN Empty ELSE data'[cfg']) \in Contents
      BY <1>9, CrashType DEF Contents
    <3> QED BY <1>9, <3>1, CrashType, LoadedType
  <2>2. disk' \in [Files -> SUBSET Contents]
    BY <1>9, CrashType DEF Crash
  <2>3. crashes' \in Nat /\ fd' \in [Callers -> Files \cup {None}] /\ cfgDisk' \subseteq Files \cup {None}
    BY <1>9, CrashType DEF Crash
  <2>4. HasFile'
    BY <1>9, CrashType DEF Saving
  <2> QED BY <1>9, <2>1, <2>2, <2>3, <2>4, CrashType DEF Crash
<1>10. CASE UNCHANGED vars
  BY <1>10 DEF vars
<1> QED BY <1>1, <1>2, <1>3, <1>4, <1>5, <1>6, <1>7, <1>8, <1>9, <1>10 DEF Next, Save
-----------------------------------------------------------------------------
(* The saves that share config.tmp *)

\* A save that failed on the disk stays failed: a disk that works now has worked before.
LEMMA WorksBefore ==
    ASSUME TypeOK, [Next]_vars, DiskWorks'
    PROVE  DiskWorks
<1> SUFFICES ASSUME NEW u \in Updates, pc[u] = "ioError" PROVE pc'[u] = "ioError"
  BY DEF DiskWorks
<1> USE DEF TypeOK, Goto, Callers
<1>1. ASSUME NEW v \in Updates, Update(v) PROVE pc'[u] = "ioError"
  BY <1>1 DEF Update
<1>2. ASSUME NEW w \in Callers, Save(w) PROVE pc'[u] = "ioError"
  BY <1>2 DEF Save, BeginSave, OpenTmp, WriteTmp, SyncTmp, Rename, SyncDir, IoFails
<1>3. ASSUME Crash PROVE pc'[u] = "ioError"
  BY <1>3, BootAssumption DEF Crash, Saving
<1>4. CASE UNCHANGED vars
  BY <1>4 DEF vars
<1> QED BY <1>1, <1>2, <1>3, <1>4 DEF Next
\* When no save is under way, no file is dirty and nothing is said about saves.
LEMMA NoSavesAgree ==
    ASSUME \A w \in Callers : pc[w] \notin Saving
    PROVE  TextIsMem /\ WrittenIsMem /\ SyncedIsMem /\ RenamedIsMem /\ \A e : ~Dirty(e)
  BY DEF TextIsMem, WrittenIsMem, SyncedIsMem, RenamedIsMem, Readers, Saving, Dirty

\* While memory changes no save is under way: what was saved of the other fields stays saved.
LEMMA UpdateAgrees ==
    ASSUME TypeOK, SavesAgree, NEW u \in Updates, Update(u)
    PROVE  SavesAgree'
<1> USE DEF TypeOK, Goto, fileVars
<1>1. \A w \in Callers : pc[w] \notin Saving
  BY DEF Update, Readers
<1>2. \A w \in Callers : pc'[w] \notin Saving
  BY <1>1 DEF Update, Saving
<1>3. TextIsMem' /\ WrittenIsMem' /\ SyncedIsMem' /\ RenamedIsMem'
  BY <1>2 DEF TextIsMem, WrittenIsMem, SyncedIsMem, RenamedIsMem, Readers, Saving
<1>4. \A e : ~Dirty(e)
  BY <1>1, NoSavesAgree
<1>5. tmp = None
  BY <1>1 DEF SavesAgree, TmpIsOpen, Saving
<1>6. TmpIsOpen' /\ TmpIsNotCfg' /\ CfgOnDisk'
  BY <1>5 DEF SavesAgree, CfgOnDisk, TmpIsOpen, TmpIsNotCfg, Update
<1>7. NamedIsSynced'
  BY <1>4 DEF SavesAgree, NamedIsSynced, Update
<1>8. ASSUME NEW v \in Updates, pc'[v] = "saved", mem'[Field[v]] = v
      PROVE  pc[v] = "saved" /\ mem[Field[v]] = v
  <2>1. pc[v] = "saved" /\ v # u
    BY <1>8 DEF Update, Callers
  <2>2. mem'[Field[v]] = IF Field[v] = Field[u] THEN u ELSE mem[Field[v]]
    BY FieldAssumption DEF Update, Configs
  <2> QED BY <1>8, <2>1, <2>2
<1>9. SavedIsNamed'
  BY <1>4, <1>8 DEF SavesAgree, SavedIsNamed, Update
<1> QED BY <1>3, <1>6, <1>7, <1>9 DEF SavesAgree

LEMMA BeginSaveAgrees ==
    ASSUME TypeOK, SavesAgree, NEW w \in Callers, BeginSave(w)
    PROVE  SavesAgree'
<1> USE DEF TypeOK, Goto, fileVars
<1>1. \A v \in Callers : pc'[v] = IF v = w THEN "open" ELSE pc[v]
  BY DEF BeginSave
<1>2. \A e : Dirty(e)' <=> Dirty(e)
  BY <1>1 DEF Dirty, BeginSave
<1>3. TextIsMem'
  BY <1>1 DEF SavesAgree, TextIsMem, BeginSave, Readers
<1>4. WrittenIsMem' /\ TmpIsOpen' /\ TmpIsNotCfg' /\ CfgOnDisk'
  BY <1>1 DEF SavesAgree, WrittenIsMem, TmpIsOpen, TmpIsNotCfg, CfgOnDisk, BeginSave
<1>5. SyncedIsMem' /\ RenamedIsMem' /\ NamedIsSynced' /\ SavedIsNamed'
  BY <1>1, <1>2 DEF SavesAgree, SyncedIsMem, RenamedIsMem, NamedIsSynced, SavedIsNamed, Settled,
     BeginSave, Callers
<1> QED BY <1>3, <1>4, <1>5 DEF SavesAgree

\* Truncating config.tmp makes it dirty; it is none of the files that config.toml may name.
LEMMA OpenTmpAgrees ==
    ASSUME TypeOK, HasFile, SavesAgree, NEW w \in Callers, OpenTmp(w)
    PROVE  SavesAgree'
<1> USE DEF TypeOK, Goto, fileVars
<1>1. PICK i \in Files :
        /\ IF tmp = None THEN i \notin Referenced ELSE i = tmp
        /\ tmp' = i
        /\ fd' = [fd EXCEPT ![w] = i]
        /\ data' = [data EXCEPT ![i] = Empty]
        /\ disk' = [disk EXCEPT ![i] = IF tmp = None THEN {Empty} ELSE @ \cup {Empty}]
  BY DEF OpenTmp
<1>2. \A v \in Callers : /\ pc'[v] = IF v = w THEN "write" ELSE pc[v]
                         /\ fd'[v] = IF v = w THEN i ELSE fd[v]
  BY <1>1 DEF OpenTmp
<1>3. pc[w] = "open" /\ UNCHANGED <<mem, text, cfg, cfgDisk>>
  BY DEF OpenTmp
<1>4. \A j \in Files : j # i => data'[j] = data[j] /\ disk'[j] = disk[j]
  BY <1>1
<1>5. i \notin cfgDisk /\ i # cfg /\ i # None
  BY <1>1, FilesAssumption DEF Referenced, SavesAgree, TmpIsNotCfg
<1>6. \A e : e # i => (Dirty(e)' <=> Dirty(e))
  BY <1>2, <1>3 DEF Dirty
<1>7. Dirty(i)'
  BY <1>2 DEF Dirty
<1>8. TextIsMem'
  BY <1>2, <1>3 DEF SavesAgree, TextIsMem, Readers, Saving
<1>9. WrittenIsMem'
  BY <1>2, <1>3, <1>4 DEF SavesAgree, WrittenIsMem, HasFile
<1>10. SyncedIsMem'
  BY <1>2, <1>3, <1>4, <1>6, <1>7 DEF SavesAgree, SyncedIsMem, Settled, HasFile
<1>11. TmpIsOpen' /\ TmpIsNotCfg' /\ CfgOnDisk'
  BY <1>1, <1>2, <1>3, <1>5 DEF SavesAgree, TmpIsOpen, TmpIsNotCfg, CfgOnDisk
<1>12. RenamedIsMem'
  BY <1>2, <1>3, <1>4, <1>5, <1>6 DEF SavesAgree, RenamedIsMem
<1>13. NamedIsSynced'
  BY <1>3, <1>4, <1>5, <1>6 DEF SavesAgree, NamedIsSynced
<1>14. SavedIsNamed'
  BY <1>2, <1>3, <1>4, <1>5, <1>6 DEF SavesAgree, SavedIsNamed, Callers
<1> QED BY <1>8, <1>9, <1>10, <1>11, <1>12, <1>13, <1>14 DEF SavesAgree

\* Writing leaves the file dirty, and its contents what memory holds.
LEMMA WriteTmpAgrees ==
    ASSUME TypeOK, HasFile, SavesAgree, NEW w \in Callers, WriteTmp(w)
    PROVE  SavesAgree'
<1> USE DEF TypeOK, Goto, fileVars
<1>1. \A v \in Callers : pc'[v] = IF v = w THEN "sync" ELSE pc[v]
  BY DEF WriteTmp
<1>2. pc[w] = "write" /\ UNCHANGED <<mem, text, fd, tmp, cfg, cfgDisk>>
  BY DEF WriteTmp
<1>3. fd[w] \in Files /\ text[w] = mem
  BY <1>2 DEF HasFile, SavesAgree, TextIsMem, Readers, Saving
<1>4. data'[fd[w]] = mem /\ \A j \in Files : j # fd[w] => data'[j] = data[j] /\ disk'[j] = disk[j]
  BY <1>3 DEF WriteTmp
<1>5. \A e : Dirty(e)' <=> Dirty(e)
  BY <1>1, <1>2 DEF Dirty
<1>6. Dirty(fd[w])
  BY <1>2 DEF Dirty
<1>7. TextIsMem'
  BY <1>1, <1>2 DEF SavesAgree, TextIsMem, Readers, Saving
<1>8. WrittenIsMem'
  BY <1>1, <1>2, <1>3, <1>4 DEF SavesAgree, WrittenIsMem, HasFile
<1>9. SyncedIsMem'
  BY <1>1, <1>2, <1>4, <1>5, <1>6 DEF SavesAgree, SyncedIsMem, Settled, HasFile
<1>10. TmpIsOpen' /\ TmpIsNotCfg' /\ CfgOnDisk'
  BY <1>1, <1>2 DEF SavesAgree, TmpIsOpen, TmpIsNotCfg, CfgOnDisk
<1>11. RenamedIsMem'
  BY <1>1, <1>2, <1>4, <1>5, <1>6 DEF SavesAgree, RenamedIsMem
<1>12. NamedIsSynced'
  BY <1>2, <1>4, <1>5, <1>6 DEF SavesAgree, NamedIsSynced
<1>13. SavedIsNamed'
  BY <1>1, <1>2, <1>4, <1>5, <1>6 DEF SavesAgree, SavedIsNamed, Callers
<1> QED BY <1>7, <1>8, <1>9, <1>10, <1>11, <1>12, <1>13 DEF SavesAgree

\* Syncing settles the file on what memory holds, unless somebody has just truncated it.
LEMMA SyncTmpAgrees ==
    ASSUME TypeOK, HasFile, SavesAgree, NEW w \in Callers, SyncTmp(w)
    PROVE  SavesAgree'
<1> USE DEF TypeOK, Goto, fileVars
<1>1. \A v \in Callers : pc'[v] = IF v = w THEN "rename" ELSE pc[v]
  BY DEF SyncTmp
<1>2. pc[w] = "sync" /\ UNCHANGED <<mem, text, fd, tmp, cfg, cfgDisk, data>>
  BY DEF SyncTmp
<1>3. fd[w] \in Files
  BY <1>2 DEF HasFile
<1>4. disk'[fd[w]] = {data[fd[w]]} /\ \A j \in Files : j # fd[w] => disk'[j] = disk[j]
  BY <1>3 DEF SyncTmp
<1>5. \A e : e # fd[w] => (Dirty(e)' <=> Dirty(e))
  BY <1>1, <1>2 DEF Dirty
<1>6. Dirty(fd[w])' \/ data[fd[w]] = mem
  BY <1>1, <1>2 DEF SavesAgree, WrittenIsMem, Dirty
<1>7. TextIsMem'
  BY <1>1, <1>2 DEF SavesAgree, TextIsMem, Readers, Saving
<1>8. WrittenIsMem'
  BY <1>1, <1>2 DEF SavesAgree, WrittenIsMem
<1>9. SyncedIsMem'
  BY <1>1, <1>2, <1>4, <1>5, <1>6 DEF SavesAgree, SyncedIsMem, Settled, HasFile
<1>10. TmpIsOpen' /\ TmpIsNotCfg' /\ CfgOnDisk'
  BY <1>1, <1>2 DEF SavesAgree, TmpIsOpen, TmpIsNotCfg, CfgOnDisk
<1>11. RenamedIsMem'
  BY <1>1, <1>2, <1>4, <1>5, <1>6 DEF SavesAgree, RenamedIsMem
<1>12. NamedIsSynced'
  BY <1>2, <1>4, <1>5 DEF SavesAgree, NamedIsSynced
<1>13. SavedIsNamed'
  BY <1>1, <1>2, <1>4, <1>5, <1>6 DEF SavesAgree, SavedIsNamed, Callers
<1> QED BY <1>7, <1>8, <1>9, <1>10, <1>11, <1>12, <1>13 DEF SavesAgree

\* The file that gets the name config.toml is settled on what memory holds, or will be: it is the
\* file of a save under way, this one or another.
LEMMA RenameAgrees ==
    ASSUME TypeOK, HasFile, SavesAgree, NEW w \in Callers, Rename(w)
    PROVE  SavesAgree'
<1> USE DEF TypeOK, Goto, fileVars
<1>1. PICK l \in {"renameFailed", "syncDir"} :
        \A v \in Callers : pc'[v] = IF v = w THEN l ELSE pc[v]
  BY DEF Rename
<1>2. pc[w] = "rename" /\ UNCHANGED <<mem, text, data, disk>>
  BY DEF Rename
<1>3. \A v \in Callers : fd'[v] = IF v = w THEN None ELSE fd[v]
  BY DEF Rename
<1>4. \A e : Dirty(e)' <=> Dirty(e)
  BY <1>1, <1>2, <1>3 DEF Dirty
<1>5. TextIsMem'
  BY <1>1, <1>2 DEF SavesAgree, TextIsMem, Readers, Saving
<1>6. WrittenIsMem'
  BY <1>1, <1>2, <1>3 DEF SavesAgree, WrittenIsMem
<1>7. SyncedIsMem'
  BY <1>1, <1>2, <1>3, <1>4 DEF SavesAgree, SyncedIsMem, Settled
<1>8. CASE tmp = None
  <2>1. l = "renameFailed" /\ UNCHANGED <<tmp, cfg, cfgDisk>>
    BY <1>1, <1>8 DEF Rename
  <2>2. TmpIsOpen' /\ TmpIsNotCfg' /\ CfgOnDisk'
    BY <1>8, <2>1 DEF SavesAgree, TmpIsOpen, TmpIsNotCfg, CfgOnDisk
  <2>3. RenamedIsMem' /\ NamedIsSynced' /\ SavedIsNamed'
    BY <1>1, <1>2, <1>4, <2>1 DEF SavesAgree, RenamedIsMem, NamedIsSynced, SavedIsNamed, Callers
  <2> QED BY <1>5, <1>6, <1>7, <2>2, <2>3 DEF SavesAgree
<1>9. CASE tmp # None
  <2>1. cfg' = tmp /\ tmp' = None /\ cfgDisk' = cfgDisk \cup {tmp}
    BY <1>9 DEF Rename
  <2>2. Settled(tmp)
    BY <1>9 DEF SavesAgree, TmpIsOpen, SyncedIsMem, Settled, Dirty
  <2>3. TmpIsOpen' /\ TmpIsNotCfg' /\ CfgOnDisk'
    BY <2>1 DEF TmpIsOpen, TmpIsNotCfg, CfgOnDisk
  <2>4. RenamedIsMem'
    BY <1>2, <1>4, <1>9, <2>1, <2>2 DEF RenamedIsMem, Settled
  <2>5. NamedIsSynced'
    BY <1>2, <1>4, <2>1, <2>2 DEF SavesAgree, NamedIsSynced, Settled
  <2>6. SavedIsNamed'
    BY <1>1, <1>2, <1>4, <1>9, <2>1, <2>2 DEF SavesAgree, SavedIsNamed, Settled, Callers
  <2> QED BY <1>5, <1>6, <1>7, <2>3, <2>4, <2>5, <2>6 DEF SavesAgree
<1> QED BY <1>8, <1>9

\* The rename is on the disk: the one file that config.toml names holds what memory holds.
LEMMA SyncDirAgrees ==
    ASSUME TypeOK, HasFile, SavesAgree, NEW w \in Callers, SyncDir(w)
    PROVE  SavesAgree'
<1> USE DEF TypeOK, Goto, fileVars
<1>1. PICK l \in {"done", "saved"} :
        \A v \in Callers : pc'[v] = IF v = w THEN l ELSE pc[v]
  BY DEF SyncDir
<1>2. pc[w] = "syncDir" /\ cfgDisk' = {cfg} /\ UNCHANGED <<mem, text, fd, tmp, cfg, data, disk>>
  BY DEF SyncDir
<1>3. \A e : Dirty(e)' <=> Dirty(e)
  BY <1>1, <1>2 DEF Dirty
<1>4. cfg # None /\ (Dirty(cfg) \/ disk[cfg] = {mem})
  BY <1>2 DEF SavesAgree, RenamedIsMem
<1>5. TextIsMem' /\ WrittenIsMem'
  BY <1>1, <1>2 DEF SavesAgree, TextIsMem, WrittenIsMem, Readers, Saving
<1>6. SyncedIsMem'
  BY <1>1, <1>2, <1>3 DEF SavesAgree, SyncedIsMem, Settled
<1>7. TmpIsOpen' /\ TmpIsNotCfg' /\ CfgOnDisk'
  BY <1>1, <1>2 DEF SavesAgree, TmpIsOpen, TmpIsNotCfg, CfgOnDisk
<1>8. RenamedIsMem' /\ NamedIsSynced'
  BY <1>1, <1>2, <1>3 DEF SavesAgree, RenamedIsMem, NamedIsSynced, CfgOnDisk
<1>9. SavedIsNamed'
  BY <1>1, <1>2, <1>3, <1>4 DEF SavedIsNamed
<1> QED BY <1>5, <1>6, <1>7, <1>8, <1>9 DEF SavesAgree

\* After a crash no save is under way, and memory is what the one file there is says.
LEMMA CrashAgrees ==
    ASSUME TypeOK, SavesAgree, Crash
    PROVE  SavesAgree'
<1> USE DEF TypeOK
<1>1. \A w \in Callers : pc'[w] \notin Saving
  BY CrashType
<1>2. TextIsMem' /\ WrittenIsMem' /\ SyncedIsMem' /\ RenamedIsMem'
  BY <1>1 DEF TextIsMem, WrittenIsMem, SyncedIsMem, RenamedIsMem, Readers, Saving
<1>3. TmpIsOpen' /\ TmpIsNotCfg' /\ CfgOnDisk'
  BY DEF Crash, TmpIsOpen, TmpIsNotCfg, CfgOnDisk
<1>4. cfgDisk' = {cfg'} /\ (cfg' # None => cfg' \in Files /\ disk'[cfg'] = {data'[cfg']})
  BY CrashType DEF Crash
<1>5. NamedIsSynced'
  BY <1>4 DEF NamedIsSynced
<1>6. SavedIsNamed'
  <2> SUFFICES ASSUME NEW u \in Updates, mem'[Field[u]] = u
               PROVE  cfg' # None /\ data'[cfg'] \in Configs /\ data'[cfg'][Field[u]] = u
    BY <1>4 DEF SavedIsNamed
  <2>1. mem' # Defaults
    BY FieldAssumption, DefaultAssumption DEF Defaults
  <2>2. cfg' # None /\ data'[cfg'] \notin {Empty, Torn} /\ mem' = data'[cfg']
    BY <2>1, CrashType DEF Loaded
  <2>3. data'[cfg'] \in Configs
    BY <2>2, CrashType DEF Contents
  <2> QED BY <2>2, <2>3
<1> QED BY <1>2, <1>3, <1>5, <1>6 DEF SavesAgree
-----------------------------------------------------------------------------
(* The theorems *)

LEMMA StoreInit == Init => StoreInv
<1> SUFFICES ASSUME Init PROVE StoreInv
  OBVIOUS
<1>1. mem \in Configs
  BY DEF Init, Defaults, Configs
<1>2. pc \in [Callers -> Steps] /\ \A w \in Callers : pc[w] \notin Saving
  BY DEF Init, Steps, Saving
<1>3. TypeOK
  BY <1>1, <1>2 DEF Init, TypeOK, Contents
<1>4. HasFile
  BY <1>2 DEF HasFile, Saving
<1>5. TextIsMem /\ WrittenIsMem /\ SyncedIsMem /\ RenamedIsMem
  BY <1>2, NoSavesAgree
<1>6. TmpIsOpen /\ TmpIsNotCfg /\ CfgOnDisk /\ NamedIsSynced
  BY DEF Init, TmpIsOpen, TmpIsNotCfg, CfgOnDisk, NamedIsSynced
<1>7. SavedIsNamed
  BY DEF Init, SavedIsNamed, Callers
<1> QED BY <1>3, <1>4, <1>5, <1>6, <1>7 DEF StoreInv, SavesAgree

LEMMA StoreStep == StoreInv /\ [Next]_vars => StoreInv'
<1> SUFFICES ASSUME StoreInv, [Next]_vars PROVE StoreInv'
  OBVIOUS
<1>1. TypeOK' /\ HasFile'
  BY TypeStep DEF StoreInv
<1>2. SUFFICES ASSUME DiskWorks' PROVE SavesAgree'
  BY <1>1 DEF StoreInv
<1>3. TypeOK /\ HasFile /\ SavesAgree
  BY <1>2, WorksBefore DEF StoreInv
<1>4. ASSUME NEW u \in Updates, Update(u) PROVE SavesAgree'
  BY <1>3, <1>4, UpdateAgrees
<1>5. ASSUME NEW w \in Callers, Save(w) PROVE SavesAgree'
  <2>1. ~IoFails(w)
    BY <1>2, <1>3 DEF IoFails, DiskWorks, Goto, Callers, TypeOK
  <2> QED BY <1>3, <1>5, <2>1, BeginSaveAgrees, OpenTmpAgrees, WriteTmpAgrees, SyncTmpAgrees, RenameAgrees,
             SyncDirAgrees DEF Save
<1>6. ASSUME Crash PROVE SavesAgree'
  BY <1>3, <1>6, CrashAgrees
<1>7. CASE UNCHANGED vars
  BY <1>3, <1>7 DEF vars, fileVars, SavesAgree, TextIsMem, WrittenIsMem, SyncedIsMem, TmpIsOpen, TmpIsNotCfg,
     CfgOnDisk, RenamedIsMem, NamedIsSynced, SavedIsNamed, Settled, Dirty, Readers
<1> QED BY <1>4, <1>5, <1>6, <1>7 DEF Next

\* The read lock of the saves and the order of their steps are an inductive invariant.
THEOREM StoreInvHolds == Spec => []StoreInv
<1> QED BY StoreInit, StoreStep, PTL DEF Spec

\* Whoever was told that its update is saved finds it after a power loss, for any number of
\* concurrent updates that share config.tmp: without a save under way no file is dirty.
THEOREM AckedSurvivesHolds == Spec => []AckedSurvives
<1>1. StoreInv => AckedSurvives
  <2> SUFFICES ASSUME StoreInv, Quiet, DiskWorks PROVE AckedSurvives
    BY DEF AckedSurvives
  <2>1. \A e : ~Dirty(e)
    BY DEF Dirty, Quiet, Callers, Saving
  <2>2. SavedIsNamed
    BY DEF StoreInv, SavesAgree
  <2> QED BY <2>1, <2>2 DEF SavedIsNamed, AckedSurvives
<1> QED BY <1>1, StoreInvHolds, PTL

\* A power loss leaves a complete configuration where it found complete ones.
THEOREM CompleteStaysCompleteHolds == Spec => CompleteStaysComplete
<1>1. StoreInv /\ [Next]_vars =>
        [crashes' # crashes /\ DiskWorks
           /\ (\A e \in cfgDisk : e # None => data[e] \in Configs)
           /\ (\A w \in Callers : fd[w] = None \/ fd[w] \notin cfgDisk)
         => cfg' = None \/ data'[cfg'] \in Configs]_vars
  <2> SUFFICES ASSUME StoreInv, Next, crashes' # crashes, DiskWorks,
                      \A e \in cfgDisk : e # None => data[e] \in Configs,
                      \A w \in Callers : fd[w] = None \/ fd[w] \notin cfgDisk,
                      cfg' # None
               PROVE  data'[cfg'] \in Configs
    OBVIOUS
  <2>1. Crash
    BY DEF Next, Save, Update, BeginSave, OpenTmp, WriteTmp, SyncTmp, Rename, SyncDir, IoFails
  <2>2. cfg' \in cfgDisk \ {None}
    BY <2>1 DEF Crash
  <2>3. ~Dirty(cfg')
    BY <2>2 DEF Dirty
  <2>4. disk[cfg'] = {data[cfg']}
    BY <2>2, <2>3 DEF StoreInv, SavesAgree, NamedIsSynced
  <2>5. data'[cfg'] \in disk[cfg']
    BY <2>1, <2>2, CrashType DEF StoreInv
  <2> QED BY <2>2, <2>4, <2>5
<1> QED BY <1>1, StoreInvHolds, PTL DEF Spec, CompleteStaysComplete
=============================================================================
