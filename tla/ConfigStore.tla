---------------------------- MODULE ConfigStore -----------------------------
(***************************************************************************)
(* The configuration store of app/src/config: ConfigManager::update under  *)
(* the RwLock, ConfigPersistence::save through one temporary file, and     *)
(* what init_config finds after a crash.                                   *)
(*                                                                         *)
(* A configuration says of each field which update wrote it last.  A file  *)
(* has contents as programs see them and a set of contents that a power    *)
(* loss may leave of it; the same for the directory entry config.toml.     *)
(***************************************************************************)
EXTENDS Naturals

CONSTANTS
    Updates,       \* calls of ConfigManager::update
    Invalid,       \* the updates whose value does not validate
    Fields, Field, \* Field[u]: the field that update u writes
    Files,         \* inodes
    MaxCrashes,    \* bound: crashes of the process or losses of power
    IoErrors,      \* whether writing the temporary file may fail (disk full)
    Default,       \* the value of a field in Config::default()
    Empty, Torn,   \* contents of a file that was truncated, and of one half written
    None

ASSUME FieldAssumption == Field \in [Updates -> Fields] /\ Invalid \subseteq Updates
ASSUME FilesAssumption == None \notin Files
ASSUME DefaultAssumption == Default \notin Updates
ASSUME BoundAssumption == MaxCrashes \in Nat /\ IoErrors \in BOOLEAN

Boot == "boot"
ASSUME BootAssumption == Boot \notin Updates
Callers == Updates \cup {Boot}

VARIABLES
    mem,        \* ConfigManager.config
    pc,         \* where each caller is
    text,       \* what each caller serialised
    fd,         \* the file each caller has open
    tmp, cfg,   \* what config.tmp and config.toml name, None when absent
    cfgDisk,    \* what config.toml may name after a power loss
    data, disk, \* contents of each file, and what a power loss may leave of them
    crashes

fileVars == <<tmp, cfg, cfgDisk, data, disk>>
vars == <<mem, pc, text, fd, fileVars, crashes>>

Configs == [Fields -> Updates \cup {Default}]
Defaults == [f \in Fields |-> Default]
Valid(c) == \A f \in Fields : c[f] \notin Invalid

\* save() holds the read lock from BeginSave to its return.
Saving == {"open", "write", "sync", "rename", "syncDir"}
Readers == {w \in Callers : pc[w] \in Saving}

\* First start: there is no config.toml, and init_config saves the defaults.
Init ==
    /\ mem = Defaults
    /\ pc = [w \in Callers |-> IF w = Boot THEN "save" ELSE "idle"]
    /\ text = [w \in Callers |-> Empty]
    /\ fd = [w \in Callers |-> None]
    /\ tmp = None /\ cfg = None /\ cfgDisk = {None}
    /\ data = [i \in Files |-> Empty]
    /\ disk = [i \in Files |-> {Empty}]
    /\ crashes = 0

Goto(w, l) == pc' = [pc EXCEPT ![w] = l]

-----------------------------------------------------------------------------
(* ConfigManager *)

\* Mutant: memory may change while a save is under way.
UpdateDuringSave(u) ==
    /\ pc[u] = "idle" /\ pc[Boot] = "done"
    /\ mem' = [mem EXCEPT ![Field[u]] = u]
    /\ Goto(u, IF Valid(mem') THEN "save" ELSE "refused")
    /\ UNCHANGED <<text, fd, fileVars, crashes>>

\* update() up to the end of its write lock: a value that does not validate is reported and
\* stays in memory.
Update(u) ==
    /\ pc[u] = "idle" /\ pc[Boot] = "done"
    /\ Readers = {}
    /\ mem' = [mem EXCEPT ![Field[u]] = u]
    /\ Goto(u, IF Valid(mem') THEN "save" ELSE "refused")
    /\ UNCHANGED <<text, fd, fileVars, crashes>>

\* save(): the read lock, and the configuration as text.
BeginSave(w) ==
    /\ pc[w] = "save"
    /\ text' = [text EXCEPT ![w] = mem]
    /\ Goto(w, "open")
    /\ UNCHANGED <<mem, fd, fileVars, crashes>>

-----------------------------------------------------------------------------
(* write_atomic_secret *)

Referenced == {tmp, cfg} \cup cfgDisk \cup {fd[w] : w \in Readers}

\* create(true).truncate(true): a temporary file that is already there is emptied.
OpenTmp(w) ==
    /\ pc[w] = "open"
    /\ \E i \in Files :
        /\ IF tmp = None THEN i \notin Referenced ELSE i = tmp
        /\ tmp' = i
        /\ fd' = [fd EXCEPT ![w] = i]
        /\ data' = [data EXCEPT ![i] = Empty]
        /\ disk' = [disk EXCEPT ![i] = IF tmp = None THEN {Empty} ELSE @ \cup {Empty}]
    /\ Goto(w, "write")
    /\ UNCHANGED <<mem, text, cfg, cfgDisk, crashes>>

WriteTmp(w) ==
    /\ pc[w] = "write"
    /\ data' = [data EXCEPT ![fd[w]] = text[w]]
    /\ disk' = [disk EXCEPT ![fd[w]] = @ \cup {text[w], Torn}]
    /\ Goto(w, "sync")
    /\ UNCHANGED <<mem, text, fd, tmp, cfg, cfgDisk, crashes>>

\* Mutant: no fsync before the rename.
NoSync(w) ==
    /\ pc[w] = "sync"
    /\ Goto(w, "rename")
    /\ UNCHANGED <<mem, text, fd, fileVars, crashes>>

SyncTmp(w) ==
    /\ pc[w] = "sync"
    /\ disk' = [disk EXCEPT ![fd[w]] = {data[fd[w]]}]
    /\ Goto(w, "rename")
    /\ UNCHANGED <<mem, text, fd, tmp, cfg, cfgDisk, data, crashes>>

\* The name config.tmp may belong to another save's file by now, or to none.
Rename(w) ==
    /\ pc[w] = "rename"
    /\ fd' = [fd EXCEPT ![w] = None]
    /\ IF tmp = None
         THEN Goto(w, "renameFailed") /\ UNCHANGED <<tmp, cfg, cfgDisk>>
         ELSE /\ Goto(w, "syncDir")
              /\ cfg' = tmp /\ tmp' = None
              /\ cfgDisk' = cfgDisk \cup {tmp}
    /\ UNCHANGED <<mem, text, data, disk, crashes>>

SyncDir(w) ==
    /\ pc[w] = "syncDir"
    /\ cfgDisk' = {cfg}
    /\ Goto(w, IF w = Boot THEN "done" ELSE "saved")
    /\ UNCHANGED <<mem, text, fd, tmp, cfg, data, disk, crashes>>

\* An error on the way to the rename: update returns it, and memory keeps the new value.
IoFails(w) ==
    /\ IoErrors /\ w # Boot /\ pc[w] \in {"open", "write", "sync"}
    /\ fd' = [fd EXCEPT ![w] = None]
    /\ Goto(w, "ioError")
    /\ UNCHANGED <<mem, text, fileVars, crashes>>

Save(w) == BeginSave(w) \/ OpenTmp(w) \/ WriteTmp(w) \/ SyncTmp(w) \/ Rename(w) \/ SyncDir(w) \/ IoFails(w)

-----------------------------------------------------------------------------
(* A crash, and init_config after it *)

\* load(): no file or an empty one means defaults, anything else has to parse and to validate.
Loads(c) == c = Empty \/ (c # Torn /\ Valid(c))
Loaded(c) == IF c \in {Empty, Torn} THEN Defaults ELSE c

\* One of the directory entries and one of the contents that may have reached the disk are
\* there afterwards; no update was under way any more, and boot fails if load does.
Crash ==
    /\ crashes < MaxCrashes /\ crashes' = crashes + 1
    /\ tmp' = None
    /\ cfg' \in cfgDisk /\ cfgDisk' = {cfg'}
    /\ IF cfg' = None
         THEN data' = data
         ELSE \E c \in disk[cfg'] : data' = [data EXCEPT ![cfg'] = c]
    /\ disk' = [i \in Files |-> {data'[i]}]
    /\ LET c == IF cfg' = None THEN Empty ELSE data'[cfg']
       IN  /\ mem' = Loaded(c)
           /\ pc' = [w \in Callers |->
                       IF w = Boot THEN IF cfg' = None THEN "save" ELSE IF Loads(c) THEN "done" ELSE "bootFailed"
                       ELSE IF pc[w] \in Saving \cup {"save"} THEN "gone" ELSE pc[w]]
    /\ fd' = [w \in Callers |-> None]
    /\ UNCHANGED text

Next ==
    \/ \E u \in Updates : Update(u)
    \/ \E w \in Callers : Save(w)
    \/ Crash

Spec == Init /\ [][Next]_vars

-----------------------------------------------------------------------------
(* Properties *)

\* No save was given up half way because of an error of the disk.
DiskWorks == \A u \in Updates : pc[u] # "ioError"

Quiet == pc[Boot] = "done" /\ \A u \in Updates : pc[u] \notin Saving \cup {"save"}

\* An update that was reported as saved, and that nobody has overwritten in memory, survives a
\* power loss once no save is under way, although concurrent saves share one temporary file
\* and may fail to rename it: they all write what the read lock keeps still.
AckedSurvives ==
    Quiet /\ DiskWorks =>
        \A u \in Updates : pc[u] = "saved" /\ mem[Field[u]] = u =>
            \A e \in cfgDisk : e # None /\ \A c \in disk[e] : c \in Configs /\ c[Field[u]] = u

\* Replacing the file is atomic: when every file that config.toml may name after a power loss
\* is complete and no unfinished save has one of them open, a power loss leaves a complete one.
CompleteStaysComplete ==
    [][crashes' # crashes /\ DiskWorks
         /\ (\A e \in cfgDisk : e # None => data[e] \in Configs)
         /\ (\A w \in Callers : fd[w] = None \/ fd[w] \notin cfgDisk)
       => cfg' = None \/ data'[cfg'] \in Configs]_vars

\* persistence.rs:100-101: load refuses a file that does not validate ("Configuration validation
\* failed for ..."), and the daemon does not start.  What save writes has to pass.
SavedIsValid == \A i \in Files : data[i] \in Configs => Valid(data[i])
=============================================================================
