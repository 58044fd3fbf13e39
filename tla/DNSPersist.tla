------------------------------ MODULE DNSPersist ------------------------------
(***************************************************************************)
(* How proxy/dns_pool.go keeps the pool in a file: changes arm a timer,    *)
(* its goroutine and the peer synchronisation write a snapshot to a        *)
(* temporary file and rename it, a poll every two seconds loads the file   *)
(* when it looks changed by another program, a restart loads it again.     *)
(*                                                                         *)
(* The pool's content is the set of the changes made to it.  A file is its *)
(* content and its modification time; a unit of time is the 100 ms margin  *)
(* of backgroundHotReload.  All goroutines use one temporary file name, so *)
(* a file being written may be renamed, or truncated, by another: each     *)
(* writer knows where the file it has open is now.                         *)
(*                                                                         *)
(* mishaps is a history variable: what has befallen the file since the     *)
(* program was started that the code does not provide for.                 *)
(***************************************************************************)
EXTENDS Integers, FiniteSets

CONSTANTS
    Updates,           \* the changes a pool or a file can contain
    Learnt,            \* the ones this program makes
    Edits,             \* the contents another program may put in the file
    Writers,           \* the goroutines that may run persistNow at once
    Syncing,           \* peers are configured: PersistNow after each merge
    DiskFails,         \* a write or a rename may fail (disk full)
    Crashes,           \* the process may be killed
    Moments,           \* the times at which something happens
    None, Blank, Torn  \* no file; the content of a truncated, a mixed file

ASSUME LearntAreUpdates == Learnt \subseteq Updates
ASSUME EditsAreContents == Edits \subseteq SUBSET Updates
ASSUME Switches == {Syncing, DiskFails, Crashes} \subseteq BOOLEAN
ASSUME MomentsAreTimes == Moments # {} /\ Moments \subseteq Nat \ {0, 1}

VARIABLES
    mem,               \* DNSPool.records
    timer,             \* persistTimer: "off", "armed", or "due", when it is
                       \* half a second since the last change
    lastPersist,       \* when persistNow last ended
    fileModTime,       \* the modification time last seen
    file, tmp,         \* the files on the disk
    writer,            \* the goroutines in persistNow
    reload,            \* the goroutine of backgroundHotReload
    state,             \* the process: "up", "closing", "down", "nopool"
    closer,            \* the goroutine that executes Close, if any
    now,               \* the clock
    mishaps            \* "shared": writes overlap; "failed": one failed;
                       \* "edited": another program has written the file;
                       \* "reloaded": the poll has loaded it

poolVars == <<mem, timer, lastPersist, fileModTime>>
diskVars == <<file, tmp>>
procVars == <<state, closer>>
vars == <<poolVars, diskVars, writer, reload, procVars, now, mishaps>>

Contents == SUBSET Updates
Times == Moments \cup {0}   \* 0: a time never set, more than the margin ago
Files == [data : Contents \cup {Blank, Torn}, mtime : Times]

ASSUME NoFileIsNone == None \notin Files /\ None \notin Writers
ASSUME NoContents == Blank # Torn /\ \A c \in Contents : c # Blank /\ c # Torn

Resting == [at |-> "idle", data |-> {}, on |-> "none"]
Asleep == [at |-> "idle", persisted |-> 0, seen |-> 0, data |-> {}]

(* At a statement that needs nothing of what the ones before it read.      *)
At(rest, statement) == [rest EXCEPT !.at = statement]

Running == state \in {"up", "closing"}

Init ==
    /\ mem = {} /\ timer = "off" /\ lastPersist = 0 /\ fileModTime = 0
    /\ file = None /\ tmp = None
    /\ writer = [w \in Writers |-> Resting]
    /\ reload = Asleep
    /\ state = "up" /\ closer = None
    /\ now \in Moments
    /\ mishaps = {}

-----------------------------------------------------------------------------
(* Mutant of Learn: a running write is thought to cover the change.        *)
LearnWhileBusy(u) ==
    /\ Running
    /\ mem' = mem \cup {u}
    /\ timer' = IF \A w \in Writers : writer[w] = Resting THEN "armed" ELSE timer
    /\ UNCHANGED <<lastPersist, fileModTime, diskVars, writer, reload, procVars, now, mishaps>>

(* An operation changes the pool.  persist stops the timer and sets        *)
(* another, so that the half second starts again.                          *)
Learn(u) ==
    /\ Running
    /\ mem' = mem \cup {u}
    /\ timer' = "armed"
    /\ UNCHANGED <<lastPersist, fileModTime, diskVars, writer, reload, procVars, now, mishaps>>

HalfASecond ==
    /\ timer = "armed" /\ timer' = "due"
    /\ UNCHANGED <<mem, lastPersist, fileModTime, diskVars, writer, reload, procVars, now, mishaps>>

Enter(w) ==
    /\ writer[w].at = "idle" /\ w # closer
    /\ writer' = [writer EXCEPT ![w].at = "snapshot"]

Fire(w) ==
    /\ Running /\ timer = "due"
    /\ timer' = "off"
    /\ Enter(w)
    /\ UNCHANGED <<mem, lastPersist, fileModTime, diskVars, reload, procVars, now, mishaps>>

PersistNow(w) ==
    /\ Syncing /\ Running
    /\ Enter(w)
    /\ UNCHANGED <<poolVars, diskVars, reload, procVars, now, mishaps>>

(* Close stops the poll and the timer and writes once more, whoever else   *)
(* is writing ...                                                          *)
Close(w) ==
    /\ state = "up" /\ state' = "closing" /\ closer' = w
    /\ timer' = "off"
    /\ Enter(w)
    /\ UNCHANGED <<mem, lastPersist, fileModTime, diskVars, reload, now, mishaps>>

(* On the way from the pool to the file.                                   *)
Carrying(w) == writer[w].at \in {"open", "write", "rename", "remove"}

Also(mishap, here) == mishaps' = IF here THEN mishaps \cup {mishap} ELSE mishaps

(* A pool without records is never written: it would erase the file.       *)
Snapshot(w) ==
    /\ writer[w].at = "snapshot"
    /\ writer' = [writer EXCEPT
          ![w] = IF mem = {} THEN Resting ELSE [@ EXCEPT !.at = "open", !.data = mem]]
    /\ Also("shared", mem # {} /\ \E v \in Writers : Carrying(v))
    /\ UNCHANGED <<poolVars, diskVars, reload, procVars, now>>

(* Mutant of Open: the file itself is written.                             *)
OpenInPlace(w) ==
    /\ writer[w].at = "open"
    /\ file' = [data |-> Blank, mtime |-> now]
    /\ writer' = [writer EXCEPT ![w].at = "write", ![w].on = "file"]
    /\ UNCHANGED <<poolVars, tmp, reload, procVars, now, mishaps>>

(* os.WriteFile opens the temporary file and truncates it ...              *)
Open(w) ==
    /\ writer[w].at = "open"
    /\ tmp' = [data |-> Blank, mtime |-> now]
    /\ writer' = [writer EXCEPT ![w].at = "write", ![w].on = "tmp"]
    /\ UNCHANGED <<poolVars, file, reload, procVars, now, mishaps>>

(* What is in a file with content old once data is written over it: the    *)
(* end of a longer content remains.                                        *)
Overwritten(old, data) ==
    CASE old = Blank -> {data}
      [] old = Torn  -> {data, Torn}
      [] OTHER       -> IF old \subseteq data THEN {data} ELSE {data, Torn}

WriteOver(f, data) == {[data |-> d, mtime |-> now] : d \in Overwritten(f.data, data)}

(* ... and writes the data to it, wherever it has been renamed.            *)
Write(w) ==
    /\ writer[w].at = "write"
    /\ writer' = [writer EXCEPT ![w] = At(Resting, "rename")]
    /\ CASE writer[w].on = "tmp"  -> tmp' \in WriteOver(tmp, writer[w].data) /\ UNCHANGED file
         [] writer[w].on = "file" -> file' \in WriteOver(file, writer[w].data) /\ UNCHANGED tmp
         [] OTHER                 -> UNCHANGED diskVars
    /\ UNCHANGED <<poolVars, reload, procVars, now, mishaps>>

(* A write that fails is only logged: the timer is not armed again.        *)
WriteFails(w) ==
    /\ DiskFails
    /\ writer[w].at \in {"open", "write"}
    /\ writer' = [writer EXCEPT ![w] = Resting]
    /\ Also("failed", TRUE)
    /\ UNCHANGED <<poolVars, diskVars, reload, procVars, now>>

(* Where the files the writers have open are after a rename.               *)
Moved(on) == CASE on = "tmp" -> "file" [] on = "file" -> "none" [] OTHER -> on

Rename(w) ==
    /\ writer[w].at = "rename" /\ tmp # None
    /\ file' = tmp /\ tmp' = None
    /\ writer' = [v \in Writers |->
          IF v = w THEN At(Resting, "record") ELSE [writer[v] EXCEPT !.on = Moved(@)]]
    /\ UNCHANGED <<poolVars, reload, procVars, now, mishaps>>

(* Another writer has renamed the temporary file already, or the disk      *)
(* fails.  What has that name is removed then, be it another writer's.     *)
RenameFails(w) ==
    /\ writer[w].at = "rename" /\ (tmp = None \/ DiskFails)
    /\ writer' = [writer EXCEPT ![w] = At(Resting, "remove")]
    /\ Also("failed", TRUE)
    /\ UNCHANGED <<poolVars, diskVars, reload, procVars, now>>

Remove(w) ==
    /\ writer[w].at = "remove"
    /\ tmp' = None
    /\ writer' = [v \in Writers |->
          IF v = w THEN Resting
          ELSE [writer[v] EXCEPT !.on = IF @ = "tmp" THEN "none" ELSE @]]
    /\ UNCHANGED <<poolVars, file, reload, procVars, now, mishaps>>

Record(w) ==
    /\ writer[w].at = "record"
    /\ lastPersist' = now
    /\ fileModTime' = file.mtime
    /\ writer' = [writer EXCEPT ![w] = Resting]
    /\ UNCHANGED <<mem, timer, diskVars, reload, procVars, now, mishaps>>

-----------------------------------------------------------------------------
(* backgroundHotReload: the two times are read before the file is looked   *)
(* at ...                                                                  *)
Look ==
    /\ state = "up" /\ reload.at = "idle"
    /\ reload' = [reload EXCEPT !.at = "stat", !.persisted = lastPersist, !.seen = fileModTime]
    /\ UNCHANGED <<poolVars, diskVars, writer, procVars, now, mishaps>>

(* Mutant of Stat: a file the pool has not seen before is not loaded.      *)
StatSeenOnly ==
    /\ reload.at = "stat"
    /\ reload' = IF file # None /\ reload.seen # 0
                    /\ file.mtime > reload.seen /\ file.mtime > reload.persisted + 1
                 THEN At(Asleep, "read") ELSE Asleep
    /\ UNCHANGED <<poolVars, diskVars, writer, procVars, now, mishaps>>

Stat ==
    /\ reload.at = "stat"
    /\ reload' = IF file # None /\ file.mtime > reload.seen /\ file.mtime > reload.persisted + 1
                 THEN At(Asleep, "read") ELSE Asleep
    /\ UNCHANGED <<poolVars, diskVars, writer, procVars, now, mishaps>>

(* ... loadFromDisk reads it, replaces the pool and looks at it once more. *)
Read ==
    /\ reload.at = "read"
    /\ reload' = IF file.data \in {Blank, Torn} THEN Asleep
                 ELSE [At(Asleep, "replace") EXCEPT !.data = file.data]
    /\ UNCHANGED <<poolVars, diskVars, writer, procVars, now, mishaps>>

Replace ==
    /\ reload.at = "replace"
    /\ mem' = reload.data
    /\ reload' = At(Asleep, "restat")
    /\ Also("reloaded", TRUE)
    /\ UNCHANGED <<timer, lastPersist, fileModTime, diskVars, writer, procVars, now>>

Restat ==
    /\ reload.at = "restat"
    /\ fileModTime' = file.mtime
    /\ reload' = Asleep
    /\ UNCHANGED <<mem, timer, lastPersist, diskVars, writer, procVars, now, mishaps>>

-----------------------------------------------------------------------------
Halt ==
    /\ state' = "down" /\ closer' = None
    /\ mem' = {} /\ timer' = "off" /\ lastPersist' = 0 /\ fileModTime' = 0
    /\ writer' = [w \in Writers |-> Resting]
    /\ reload' = Asleep
    /\ UNCHANGED <<diskVars, now, mishaps>>

Crash == Crashes /\ state # "down" /\ Halt

(* When Close has written, the process exits with whatever else runs.      *)
Exit == state = "closing" /\ writer[closer] = Resting /\ Halt

(* Mutant of Start: the pool starts empty.                                 *)
StartEmpty ==
    /\ state = "down" /\ state' = "up"
    /\ UNCHANGED <<poolVars, diskVars, writer, reload, closer, now, mishaps>>

(* NewDNSPool; with a file it cannot parse the program runs without pool.  *)
Start ==
    /\ state = "down"
    /\ IF file # None /\ file.data \in {Blank, Torn}
       THEN state' = "nopool" /\ UNCHANGED <<mem, fileModTime, mishaps>>
       ELSE /\ state' = "up" /\ mishaps' = {}
            /\ mem' = IF file = None THEN {} ELSE file.data
            /\ fileModTime' = IF file = None THEN 0 ELSE file.mtime
    /\ UNCHANGED <<timer, lastPersist, diskVars, writer, reload, closer, now>>

(* Another program replaces the file.                                      *)
Edit(d) ==
    /\ file' = [data |-> d, mtime |-> now]
    /\ writer' = [w \in Writers |->
          [writer[w] EXCEPT !.on = IF @ = "file" THEN "none" ELSE @]]
    /\ Also("edited", TRUE)
    /\ UNCHANGED <<poolVars, tmp, reload, procVars, now>>

Tick ==
    /\ now' \in {t \in Moments : t > now}
    /\ UNCHANGED <<poolVars, diskVars, writer, reload, procVars, mishaps>>

Persisting(w) ==
    \/ Snapshot(w) \/ Open(w) \/ Write(w) \/ WriteFails(w)
    \/ Rename(w) \/ RenameFails(w) \/ Remove(w) \/ Record(w)

Reloading == Look \/ Stat \/ Read \/ Replace \/ Restat

Next ==
    \/ \E u \in Learnt : Learn(u)
    \/ HalfASecond
    \/ \E w \in Writers : Fire(w) \/ PersistNow(w) \/ Close(w) \/ Persisting(w)
    \/ Reloading
    \/ Crash \/ Exit \/ Start
    \/ \E d \in Edits : Edit(d)
    \/ Tick

(* Time passes, goroutines run on, and main exits after Close; nothing     *)
(* else has to happen.  A timer that is set again and again does not fire. *)
Spec ==
    /\ Init /\ [][Next]_vars
    /\ WF_vars(HalfASecond) /\ WF_vars(\E w \in Writers : Fire(w))
    /\ \A w \in Writers : WF_vars(Persisting(w))
    /\ WF_vars(Reloading)
    /\ WF_vars(Exit)

-----------------------------------------------------------------------------
WriterStates == [at : {"idle", "snapshot", "open", "write", "rename", "remove", "record"},
                 data : Contents, on : {"none", "tmp", "file"}]

ReloadStates == [at : {"idle", "stat", "read", "replace", "restat"},
                 persisted : Times, seen : Times, data : Contents]

PersistTypeOK ==
    /\ mem \in Contents /\ timer \in {"off", "armed", "due"}
    /\ lastPersist \in Times /\ fileModTime \in Times
    /\ file \in Files \cup {None} /\ tmp \in Files \cup {None}
    /\ writer \in [Writers -> WriterStates]
    /\ reload \in ReloadStates
    /\ state \in {"up", "closing", "down", "nopool"}
    /\ closer \in Writers \cup {None} /\ (state = "closing" <=> closer # None)
    /\ now \in Moments
    /\ mishaps \subseteq {"shared", "failed", "edited", "reloaded"}
    /\ \A w \in Writers : writer[w].on = "tmp" => tmp # None

(* Whenever the process may be killed, the file can be loaded again: "临时 *)
(* 文件 + Rename", "避免数据损坏" (DNS_POOL_ANALYSIS.md:103, 104).  With    *)
(* writes that overlap it need not be.                                     *)
FileIsWhole == file # None => file.data \notin {Blank, Torn}

(* Writes that do not overlap keep the file whole, through kills at every  *)
(* step of a write, failed writes, edits and the poll.                     *)
WholeUnlessShared == "shared" \notin mishaps => FileIsWhole

Stored == IF file = None \/ file.data \in {Blank, Torn} THEN {} ELSE file.data

Abstract == INSTANCE DurableSet
    WITH Things <- Updates, known <- mem, stored <- Stored, up <- Running

(* The file keeps what it was given and the pool what it has, through      *)
(* kills, failed writes and restarts: until writes overlap, another        *)
(* program writes the file, or the poll loads it (from the next start it   *)
(* is so again).                                                           *)
Durable ==
    /\ Abstract!Init
    /\ [][\/ {"shared", "edited", "reloaded"} \cap mishaps' # {}
          \/ Abstract!Next]_<<mem, Stored, Running>>

(* persist is put off by every change ("延迟合并 500ms 内的多次保存请求",   *)
(* dns_pool.go:159): once no more are made, what was learnt is in the file *)
(* at last, unless the program stops before or a mishap befalls it.        *)
LearntIsSaved ==
    <>[][\A u \in Learnt : ~Learn(u)]_vars =>
        \A u \in Updates : u \in mem ~> (u \in Stored \/ ~Running \/ mishaps # {})

(* The pool keeps what it has learnt as long as no other program writes    *)
(* the file: the poll takes "晚于我们上次持久化" for "外部修改"             *)
(* (dns_pool.go:289).  It may be the pool's own write.                     *)
KeepsLearnt ==
    [][(Running /\ Running' /\ "edited" \notin mishaps) => mem \subseteq mem']_vars

(* All the poll needs to see that the file was edited.                     *)
LooksEdited(d) ==
    /\ state = "up" /\ reload = Asleep /\ \A w \in Writers : writer[w] = Resting
    /\ file # None /\ file.data = d
    /\ file.mtime > fileModTime /\ file.mtime > lastPersist + 1

(* What another program writes is loaded at last ("若变更则加载",           *)
(* dns_pool.go:272) or overwritten, if it is newer than all the pool has   *)
(* written and seen, and neither a write nor a load is under way.          *)
EditIsLoaded ==
    \A d \in Contents : LooksEdited(d) ~> (mem = d \/ Stored # d \/ state # "up")
=============================================================================
