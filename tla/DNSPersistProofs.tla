-------------------------- MODULE DNSPersistProofs --------------------------
(***************************************************************************)
(* Proofs about the file of the pool, for any writers, edits, failures,    *)
(* kills and clocks, and with the poll.  The variables keep their types,   *)
(* beside the operator's tool too.  Until writes overlap, the temporary    *)
(* file belongs to the one goroutine on its way to the file, and what it   *)
(* renames is what it has written.  Until besides another program writes   *)
(* the file or the poll loads it, the file never loses anything            *)
(* (DNSPersist implements DurableSet), and until a write fails, what is    *)
(* owed at the exit (NodeExit) is saved.                                   *)
(***************************************************************************)
EXTENDS NodeExit, UpdateTool, TLAPS

(* The process may also end on the error that Serve returns (NodeExit).    *)
EndsToo == Running /\ Halt
NextOrEnd == Next \/ EndsToo

(* The file once there stays: who has looked at it, or has it open, finds  *)
(* one.                                                                    *)
FileThere ==
    /\ reload.at \in {"read", "replace", "restat"} => file # None
    /\ \A w \in Writers : writer[w].at = "record" \/ writer[w].on = "file" => file # None

PersistInv == PersistTypeOK /\ FileThere

LEMMA TimesHave == 0 \in Times /\ Moments \subseteq Times
BY DEF Times

(* What is written over a file is a file again.                            *)
LEMMA WriteOverFiles ==
    ASSUME NEW f \in Files, NEW data \in Contents, now \in Times,
           NEW g \in WriteOver(f, data)
    PROVE  g \in Files
<1>1. Overwritten(f.data, data) \subseteq {data, Torn}
  BY DEF Overwritten
<1>2. PICK d \in Overwritten(f.data, data) : g = [data |-> d, mtime |-> now]
  BY DEF WriteOver
<1> QED BY <1>1, <1>2 DEF Files

LEMMA FileIsSomething == \A f \in Files : f # None
BY NoFileIsNone

LEMMA InitInv == Init => PersistInv
<1> SUFFICES ASSUME Init PROVE PersistInv
  OBVIOUS
<1>1. Resting \in WriterStates /\ Asleep \in ReloadStates
  BY TimesHave DEF Resting, Asleep, WriterStates, ReloadStates, Contents
<1>2. PersistTypeOK
  <2>1. writer \in [Writers -> WriterStates] /\ \A w \in Writers : writer[w].on # "tmp"
    BY <1>1 DEF Init, Resting
  <2> QED BY <1>1, <2>1, TimesHave DEF Init, PersistTypeOK, Contents
<1>3. FileThere
  BY DEF Init, FileThere, Asleep, Resting
<1> QED BY <1>2, <1>3 DEF PersistInv

(* The steps of a writer.                                                  *)
LEMMA WriterKeepsInv ==
    ASSUME PersistInv, NEW w \in Writers, Persisting(w)
    PROVE  PersistInv'
<1> USE DEF PersistInv, FileThere
<1>1. CASE Snapshot(w)
  <2>1. writer' \in [Writers -> WriterStates] /\ \A v \in Writers :
            /\ writer'[v].on = "tmp" => tmp # None
            /\ writer'[v].at = "record" \/ writer'[v].on = "file" => file # None
    BY <1>1 DEF Snapshot, PersistTypeOK, WriterStates, Resting, Contents
  <2> QED BY <1>1, <2>1 DEF Snapshot, Also, PersistTypeOK, poolVars, diskVars, procVars
<1>2. CASE Open(w)
  <2>1. tmp' \in Files /\ tmp' # None
    BY <1>2, FileIsSomething, TimesHave DEF Open, PersistTypeOK, Files
  <2>2. writer' \in [Writers -> WriterStates] /\ \A v \in Writers :
            writer'[v].at = "record" \/ writer'[v].on = "file" => file # None
    BY <1>2 DEF Open, PersistTypeOK, WriterStates
  <2> QED BY <1>2, <2>1, <2>2 DEF Open, PersistTypeOK, poolVars, procVars
<1>3. CASE Write(w)
  <2>1. writer' \in [Writers -> WriterStates] /\ \A v \in Writers :
            /\ writer'[v].on \in {"none", writer[v].on}
            /\ writer'[v].at = "record" => writer[v].at = "record"
    BY <1>3 DEF Write, At, Resting, PersistTypeOK, WriterStates, Contents
  <2>2. writer[w].data \in Contents /\ writer[w].on \in {"none", "tmp", "file"} /\ now \in Times
    BY TimesHave DEF PersistTypeOK, WriterStates
  <2>3. /\ file' \in Files \cup {None} /\ (file # None => file' # None)
        /\ tmp' \in Files \cup {None} /\ (tmp # None => tmp' # None)
    <3>1. CASE writer[w].on = "tmp"
      <4>1. tmp \in Files /\ tmp' \in WriteOver(tmp, writer[w].data) /\ file' = file
        BY <3>1, <1>3 DEF Write, PersistTypeOK
      <4> QED BY <4>1, <2>2, WriteOverFiles, FileIsSomething DEF PersistTypeOK
    <3>2. CASE writer[w].on = "file"
      <4>1. file \in Files /\ file' \in WriteOver(file, writer[w].data) /\ tmp' = tmp
        BY <3>2, <1>3 DEF Write, PersistTypeOK
      <4> QED BY <4>1, <2>2, WriteOverFiles, FileIsSomething DEF PersistTypeOK
    <3>3. CASE writer[w].on = "none"
      BY <3>3, <1>3 DEF Write, PersistTypeOK, diskVars
    <3> QED BY <3>1, <3>2, <3>3, <2>2
  <2> QED BY <1>3, <2>1, <2>3 DEF Write, PersistTypeOK, poolVars, procVars
<1>4. CASE WriteFails(w) \/ RenameFails(w)
  <2>1. writer' \in [Writers -> WriterStates] /\ \A v \in Writers :
            /\ writer'[v].on = "tmp" => tmp # None
            /\ writer'[v].at = "record" \/ writer'[v].on = "file" => file # None
    <3>1. Resting \in WriterStates /\ At(Resting, "remove") \in WriterStates
      BY DEF At, Resting, WriterStates, Contents
    <3>2. /\ Resting.on = "none" /\ Resting.at = "idle"
          /\ At(Resting, "remove").on = "none" /\ At(Resting, "remove").at = "remove"
      BY DEF At, Resting
    <3>3. writer' = [writer EXCEPT ![w] = Resting] \/ writer' = [writer EXCEPT ![w] = At(Resting, "remove")]
      BY <1>4 DEF WriteFails, RenameFails
    <3> QED BY <3>1, <3>2, <3>3 DEF PersistTypeOK
  <2> QED BY <1>4, <2>1 DEF WriteFails, RenameFails, Also, PersistTypeOK, poolVars, diskVars, procVars
<1>5. CASE Rename(w)
  <2>1. file' \in Files /\ file' # None /\ tmp' = None
    BY <1>5, FileIsSomething DEF Rename, PersistTypeOK
  <2>2. writer' \in [Writers -> WriterStates] /\ \A v \in Writers : writer'[v].on # "tmp"
    BY <1>5 DEF Rename, PersistTypeOK, WriterStates, Moved, At, Resting, Contents
  <2> QED BY <1>5, <2>1, <2>2 DEF Rename, PersistTypeOK, poolVars, procVars
<1>6. CASE Record(w)
  <2>1. file.mtime \in Times /\ now \in Times
    BY <1>6, TimesHave DEF Record, PersistTypeOK, Files
  <2>2. writer' \in [Writers -> WriterStates] /\ \A v \in Writers :
            /\ writer'[v].on = "tmp" => tmp # None
            /\ writer'[v].at = "record" \/ writer'[v].on = "file" => file # None
    BY <1>6 DEF Record, PersistTypeOK, WriterStates, Resting, Contents
  <2> QED BY <1>6, <2>1, <2>2 DEF Record, PersistTypeOK, diskVars, procVars
<1>7. CASE Remove(w)
  <2>1. writer' \in [Writers -> WriterStates] /\ \A v \in Writers :
            /\ writer'[v].on # "tmp"
            /\ writer'[v].at = "record" \/ writer'[v].on = "file" => file # None
    BY <1>7 DEF Remove, PersistTypeOK, WriterStates, Resting, Contents
  <2> QED BY <1>7, <2>1 DEF Remove, PersistTypeOK, poolVars, procVars
<1> QED BY <1>1, <1>2, <1>3, <1>4, <1>5, <1>6, <1>7 DEF Persisting

(* A goroutine that enters persistNow disturbs nothing.                    *)
LEMMA EnterKeepsInv ==
    ASSUME PersistInv, NEW w \in Writers, Enter(w)
    PROVE  /\ writer' \in [Writers -> WriterStates]
           /\ \A v \in Writers :
                 /\ writer'[v].on = writer[v].on
                 /\ writer'[v].at = "record" => writer[v].at = "record"
BY DEF Enter, PersistInv, PersistTypeOK, WriterStates

(* What starts, stops and surrounds the writers.                           *)
LEMMA ProcessKeepsInv ==
    ASSUME PersistInv,
           \/ \E u \in Learnt : Learn(u)
           \/ HalfASecond
           \/ \E w \in Writers : Fire(w) \/ PersistNow(w) \/ Close(w)
           \/ Crash \/ Exit \/ EndsToo \/ Start
           \/ \E d \in Edits : Edit(d)
           \/ Tick
    PROVE  PersistInv'
<1> USE DEF PersistInv, FileThere
<1>1. ASSUME NEW u \in Learnt, Learn(u) PROVE PersistInv'
  BY <1>1, LearntAreUpdates DEF Learn, PersistTypeOK, Contents, diskVars, procVars
<1>2. ASSUME NEW w \in Writers, Fire(w) PROVE PersistInv'
  BY <1>2, EnterKeepsInv DEF Fire, PersistTypeOK, diskVars, procVars
<1>3. ASSUME NEW w \in Writers, PersistNow(w) PROVE PersistInv'
  BY <1>3, EnterKeepsInv DEF PersistNow, PersistTypeOK, poolVars, diskVars, procVars
<1>4. ASSUME NEW w \in Writers, Close(w) PROVE PersistInv'
  BY <1>4, EnterKeepsInv, NoFileIsNone DEF Close, PersistTypeOK, diskVars
<1>5. CASE Crash \/ Exit \/ EndsToo
  <2>1. Resting \in WriterStates /\ Asleep \in ReloadStates
    BY TimesHave DEF Resting, Asleep, WriterStates, ReloadStates, Contents
  <2>2. Halt
    BY <1>5 DEF Crash, Exit, EndsToo
  <2>3. writer' \in [Writers -> WriterStates] /\ \A w \in Writers :
            writer'[w].on = "none" /\ writer'[w].at = "idle"
    BY <2>1, <2>2 DEF Halt, Resting
  <2>4. 0 \in Times /\ {} \in Contents /\ reload'.at = "idle"
    BY <2>2, TimesHave DEF Halt, Asleep, Contents
  <2> QED BY <2>1, <2>2, <2>3, <2>4 DEF Halt, PersistTypeOK, diskVars
<1>6. CASE Start
  <2>1. mem' \in Contents
    BY <1>6 DEF Start, PersistTypeOK, Files, Contents
  <2>2. fileModTime' \in Times
    BY <1>6, TimesHave DEF Start, PersistTypeOK, Files
  <2> QED BY <1>6, <2>1, <2>2 DEF Start, PersistTypeOK, diskVars
<1>7. ASSUME NEW d \in Edits, Edit(d) PROVE PersistInv'
  <2>1. file' \in Files /\ file' # None
    BY <1>7, EditsAreContents, FileIsSomething, TimesHave DEF Edit, PersistTypeOK, Files, Contents
  <2>2. writer' \in [Writers -> WriterStates] /\ \A w \in Writers :
            writer'[w].on = "tmp" => writer[w].on = "tmp"
    BY <1>7 DEF Edit, PersistTypeOK, WriterStates
  <2> QED BY <1>7, <2>1, <2>2 DEF Edit, Also, PersistTypeOK, poolVars, procVars
<1>8. CASE Tick
  <2>1. now' \in Moments
    BY <1>8 DEF Tick, PersistTypeOK
  <2> QED BY <1>8, <2>1 DEF Tick, PersistTypeOK, poolVars, diskVars, procVars
<1>9. CASE HalfASecond
  BY <1>9 DEF HalfASecond, PersistTypeOK, diskVars, procVars
<1> QED BY <1>1, <1>2, <1>3, <1>4, <1>5, <1>6, <1>7, <1>8, <1>9

(* The poll.                                                               *)
LEMMA ReloadKeepsInv == PersistInv /\ Reloading => PersistInv'
<1> SUFFICES ASSUME PersistInv, Reloading PROVE PersistInv'
  OBVIOUS
<1> USE DEF PersistInv, FileThere
<1>1. Asleep \in ReloadStates /\ Asleep.at = "idle"
  BY TimesHave DEF Asleep, ReloadStates, Contents
<1>2. CASE Look
  <2>1. reload' \in ReloadStates /\ reload'.at = "stat"
    BY <1>2 DEF Look, PersistTypeOK, ReloadStates
  <2> QED BY <1>2, <2>1 DEF Look, PersistTypeOK, poolVars, diskVars, procVars
<1>3. CASE Stat
  <2>1. reload' \in ReloadStates /\ (reload'.at \in {"read", "replace", "restat"} => file # None)
    BY <1>1, <1>3, TimesHave DEF Stat, PersistTypeOK, ReloadStates, At, Asleep, Contents
  <2> QED BY <1>3, <2>1 DEF Stat, PersistTypeOK, poolVars, diskVars, procVars
<1>4. CASE Read
  <2>1. file # None /\ file \in Files
    BY <1>4 DEF Read, PersistTypeOK
  <2>2. reload' \in ReloadStates
    BY <1>1, <1>4, <2>1, TimesHave DEF Read, PersistTypeOK, ReloadStates, Files, At, Asleep, Contents
  <2> QED BY <1>4, <2>1, <2>2 DEF Read, PersistTypeOK, poolVars, diskVars, procVars
<1>5. CASE Replace
  <2>1. reload' \in ReloadStates /\ mem' \in Contents /\ file # None
    BY <1>5, TimesHave DEF Replace, PersistTypeOK, ReloadStates, At, Asleep, Contents
  <2> QED BY <1>5, <2>1 DEF Replace, Also, PersistTypeOK, diskVars, procVars
<1>6. CASE Restat
  <2>1. file \in Files /\ fileModTime' \in Times /\ reload' = Asleep
    BY <1>6 DEF Restat, PersistTypeOK, Files
  <2> QED BY <1>1, <1>6, <2>1 DEF Restat, PersistTypeOK, diskVars, procVars
<1> QED BY <1>2, <1>3, <1>4, <1>5, <1>6 DEF Reloading

LEMMA StepKeepsInv == PersistInv /\ [NextOrEnd]_vars => PersistInv'
<1> SUFFICES ASSUME PersistInv, [NextOrEnd]_vars PROVE PersistInv'
  OBVIOUS
<1>1. CASE UNCHANGED vars
  BY <1>1 DEF vars, poolVars, diskVars, procVars, PersistInv, PersistTypeOK, FileThere
<1>2. ASSUME NEW w \in Writers, Persisting(w) PROVE PersistInv'
  BY <1>2, WriterKeepsInv
<1>3. CASE Reloading
  BY <1>3, ReloadKeepsInv
<1> QED BY <1>1, <1>2, <1>3, ProcessKeepsInv DEF NextOrEnd, Next

(* The variables keep their types, whatever the writers, edits, failures   *)
(* and kills.                                                              *)
THEOREM PersistTypes == Spec => []PersistTypeOK
<1>1. PersistInv => PersistTypeOK
  BY DEF PersistInv
<1>2. [Next]_vars => [NextOrEnd]_vars
  BY DEF NextOrEnd
<1> QED BY <1>1, <1>2, InitInv, StepKeepsInv, PTL DEF Spec

-----------------------------------------------------------------------------
(* Nobody writes or loads the file while the process is not there.         *)
StoppedIsIdle ==
    ~Running => reload.at = "idle" /\ \A w \in Writers : writer[w].at = "idle"

OneCarries == \A v, w \in Writers : Carrying(v) /\ Carrying(w) => v = w

(* What the one on the way has open is the temporary file, blank until it  *)
(* writes, and what it renames then is a content.                          *)
TmpIsOwn ==
    \A w \in Writers :
        /\ writer[w].at = "write" => writer[w].on = "tmp" /\ tmp.data = Blank
        /\ writer[w].at = "rename" /\ tmp # None => tmp.data \in Contents

Whole == FileIsWhole /\ OneCarries /\ TmpIsOwn

WholeInv == PersistInv /\ StoppedIsIdle /\ ("shared" \notin mishaps => Whole)

LEMMA StoppedStep == PersistInv /\ StoppedIsIdle /\ [NextOrEnd]_vars => StoppedIsIdle'
<1> SUFFICES ASSUME PersistInv, StoppedIsIdle, [NextOrEnd]_vars PROVE StoppedIsIdle'
  OBVIOUS
<1> USE DEF StoppedIsIdle, Running
<1>1. ASSUME UNCHANGED <<state, reload, writer>> PROVE StoppedIsIdle'
  BY <1>1
<1>2. ASSUME Running, Running' PROVE StoppedIsIdle'
  BY <1>2
<1>3. ASSUME NEW w \in Writers, Persisting(w) PROVE StoppedIsIdle'
  <2>1. Running /\ state' = state
    BY <1>3 DEF Persisting, Snapshot, Open, Write, WriteFails, Rename, RenameFails, Remove,
                Record, procVars
  <2> QED BY <1>2, <2>1
<1>4. ASSUME NEW w \in Writers, Fire(w) \/ PersistNow(w) \/ Close(w) PROVE StoppedIsIdle'
  BY <1>4 DEF Fire, PersistNow, Close, procVars
<1>5. CASE (\E u \in Learnt : Learn(u)) \/ HalfASecond \/ Tick
  BY <1>1, <1>5 DEF Learn, HalfASecond, Tick, procVars
<1>10. CASE Reloading
  BY <1>2, <1>10 DEF Reloading, Look, Stat, Read, Replace, Restat, procVars
<1>6. CASE Crash \/ Exit \/ EndsToo
  BY <1>6 DEF Crash, Exit, EndsToo, Halt, Resting, Asleep
<1>7. CASE Start
  BY <1>7 DEF Start
<1>8. ASSUME NEW d \in Edits, Edit(d) PROVE StoppedIsIdle'
  <2>1. UNCHANGED <<state, reload>> /\ \A w \in Writers : writer'[w].at = writer[w].at
    BY <1>8 DEF Edit, procVars, PersistInv, PersistTypeOK, WriterStates
  <2> QED BY <2>1
<1>9. CASE UNCHANGED vars
  BY <1>1, <1>9 DEF vars, procVars
<1> QED BY <1>3, <1>4, <1>5, <1>6, <1>7, <1>8, <1>9, <1>10 DEF NextOrEnd, Next

(* Steps that leave both files alone and bring nobody on the way.          *)
LEMMA OutsideIsWhole ==
    ASSUME Whole, UNCHANGED diskVars,
           \A w \in Writers : ~Carrying(w)' \/ writer'[w] = writer[w]
    PROVE  Whole'
<1>1. \A w \in Writers : Carrying(w)' => writer'[w] = writer[w] /\ Carrying(w)
  BY DEF Carrying
<1>2. OneCarries'
  BY <1>1 DEF Whole, OneCarries
<1>3. FileIsWhole'
  BY DEF Whole, FileIsWhole, diskVars
<1>4. TmpIsOwn'
  <2> SUFFICES ASSUME NEW w \in Writers
               PROVE  /\ writer'[w].at = "write" => writer'[w].on = "tmp" /\ tmp'.data = Blank
                      /\ writer'[w].at = "rename" /\ tmp' # None => tmp'.data \in Contents
    BY DEF TmpIsOwn, Contents
  <2>1. writer'[w].at \notin {"write", "rename"} \/ writer'[w] = writer[w]
    BY DEF Carrying
  <2> QED BY <2>1 DEF Whole, TmpIsOwn, diskVars
<1> QED BY <1>2, <1>3, <1>4 DEF Whole

LEMMA WriterIsWhole ==
    ASSUME PersistInv, Whole, NEW w \in Writers, Persisting(w), "shared" \notin mishaps'
    PROVE  Whole'
<1> USE DEF PersistInv, PersistTypeOK
<1>1. writer[w] \in WriterStates /\ writer \in [Writers -> WriterStates]
  OBVIOUS
<1>2. Resting.at = "idle" /\ \A s \in {"rename", "remove", "record"} : At(Resting, s).at = s
  BY DEF Resting, At
<1>3. ASSUME UNCHANGED diskVars, ~Carrying(w)', \A v \in Writers \ {w} : writer'[v] = writer[v]
      PROVE  Whole'
  BY <1>3, OutsideIsWhole
<1>4. ASSUME Carrying(w), Carrying(w)', \A v \in Writers \ {w} : writer'[v].at = writer[v].at
      PROVE  OneCarries' /\ \A v \in Writers \ {w} : ~Carrying(v)'
  BY <1>4 DEF Whole, OneCarries, Carrying
<1>5. CASE Snapshot(w)
  <2>1. UNCHANGED diskVars /\ \A v \in Writers \ {w} : writer'[v] = writer[v]
    BY <1>5 DEF Snapshot
  <2>2. CASE mem = {}
    <3>1. ~Carrying(w)'
      BY <1>1, <1>2, <1>5, <2>2 DEF Snapshot, Carrying
    <3> QED BY <1>3, <2>1, <3>1
  <2>3. CASE mem # {}
    <3>1. \A v \in Writers : ~Carrying(v)
      BY <1>5, <2>3 DEF Snapshot, Also
    <3>2. writer'[w].at = "open"
      BY <1>1, <1>5, <2>3 DEF Snapshot, WriterStates
    <3>3. \A v \in Writers : writer'[v].at \notin {"write", "rename"}
      BY <2>1, <3>1, <3>2 DEF Carrying
    <3>4. OneCarries'
      BY <2>1, <3>1 DEF OneCarries, Carrying
    <3> QED BY <2>1, <3>3, <3>4 DEF Whole, FileIsWhole, TmpIsOwn, diskVars
  <2> QED BY <2>2, <2>3
<1>6. CASE WriteFails(w) \/ Record(w)
  <2>1. UNCHANGED diskVars /\ writer' = [writer EXCEPT ![w] = Resting]
    BY <1>6 DEF WriteFails, Record
  <2>2. ~Carrying(w)' /\ \A v \in Writers \ {w} : writer'[v] = writer[v]
    BY <1>1, <1>2, <2>1 DEF Carrying
  <2> QED BY <1>3, <2>1, <2>2
<1>7. CASE RenameFails(w)
  <2>1. /\ UNCHANGED diskVars /\ writer'[w].at = "remove" /\ Carrying(w)
        /\ \A v \in Writers \ {w} : writer'[v] = writer[v]
    BY <1>1, <1>2, <1>7 DEF RenameFails, Carrying
  <2>2. Carrying(w)'
    BY <2>1 DEF Carrying
  <2>3. OneCarries' /\ \A v \in Writers : writer'[v].at \notin {"write", "rename"}
    BY <1>4, <2>1, <2>2 DEF Carrying
  <2> QED BY <2>1, <2>3 DEF Whole, FileIsWhole, TmpIsOwn, diskVars
<1>8. CASE Open(w)
  <2>1. /\ writer'[w].at = "write" /\ writer'[w].on = "tmp" /\ tmp'.data = Blank /\ file' = file
        /\ Carrying(w) /\ \A v \in Writers \ {w} : writer'[v] = writer[v]
    BY <1>1, <1>8 DEF Open, WriterStates, Carrying
  <2>2. Carrying(w)'
    BY <2>1 DEF Carrying
  <2>3. OneCarries' /\ \A v \in Writers \ {w} : writer'[v].at \notin {"write", "rename"}
    BY <1>4, <2>1, <2>2 DEF Carrying
  <2> QED BY <2>1, <2>3 DEF Whole, FileIsWhole, TmpIsOwn
<1>9. CASE Write(w)
  <2>1. writer[w].on = "tmp" /\ tmp.data = Blank /\ writer[w].data \in Contents
    BY <1>1, <1>9 DEF Write, Whole, TmpIsOwn, WriterStates
  <2>2. file' = file /\ tmp' \in WriteOver(tmp, writer[w].data)
    BY <1>9, <2>1 DEF Write
  <2>3. Overwritten(tmp.data, writer[w].data) = {writer[w].data}
    BY <2>1, NoContents DEF Overwritten
  <2>4. tmp'.data = writer[w].data
    BY <2>2, <2>3 DEF WriteOver
  <2>5. /\ writer'[w].at = "rename" /\ Carrying(w)
        /\ \A v \in Writers \ {w} : writer'[v] = writer[v]
    BY <1>1, <1>2, <1>9 DEF Write, Carrying
  <2>6. Carrying(w)'
    BY <2>5 DEF Carrying
  <2>7. OneCarries' /\ \A v \in Writers \ {w} : writer'[v].at \notin {"write", "rename"}
    BY <1>4, <2>5, <2>6 DEF Carrying
  <2> QED BY <2>1, <2>2, <2>4, <2>5, <2>7 DEF Whole, FileIsWhole, TmpIsOwn, Contents
<1>10. CASE Rename(w)
  <2>1. tmp.data \in Contents /\ file' = tmp /\ Carrying(w)
    BY <1>10 DEF Rename, Whole, TmpIsOwn, Carrying
  <2>2. file'.data \notin {Blank, Torn}
    BY <2>1, NoContents
  <2>3. writer'[w].at = "record" /\ \A v \in Writers \ {w} : writer'[v].at = writer[v].at
    BY <1>1, <1>2, <1>10 DEF Rename, WriterStates
  <2>4. \A v \in Writers : ~Carrying(v)'
    BY <2>1, <2>3 DEF Carrying, Whole, OneCarries
  <2> QED BY <2>2, <2>4 DEF Whole, FileIsWhole, OneCarries, TmpIsOwn, Carrying
<1>11. CASE Remove(w)
  <2>1. file' = file /\ Carrying(w)
    BY <1>11 DEF Remove, Carrying
  <2>2. writer'[w].at = "idle" /\ \A v \in Writers \ {w} : writer'[v].at = writer[v].at
    BY <1>1, <1>2, <1>11 DEF Remove, WriterStates
  <2>3. \A v \in Writers : ~Carrying(v)'
    BY <2>1, <2>2 DEF Carrying, Whole, OneCarries
  <2> QED BY <2>1, <2>3 DEF Whole, FileIsWhole, OneCarries, TmpIsOwn, Carrying
<1> QED BY <1>5, <1>6, <1>7, <1>8, <1>9, <1>10, <1>11 DEF Persisting

LEMMA NextIsWhole ==
    ASSUME WholeInv, [NextOrEnd]_vars, "shared" \notin mishaps'
    PROVE  Whole'
<1> USE DEF WholeInv, PersistInv, PersistTypeOK
<1>1. ASSUME UNCHANGED diskVars, UNCHANGED writer, mishaps \subseteq mishaps'
      PROVE  Whole'
  BY <1>1, OutsideIsWhole
<1>2. CASE (\E u \in Learnt : Learn(u)) \/ HalfASecond \/ Tick
  BY <1>1, <1>2 DEF Learn, HalfASecond, Tick
<1>3. ASSUME NEW w \in Writers, Fire(w) \/ PersistNow(w) \/ Close(w) PROVE Whole'
  <2>1. Enter(w) /\ UNCHANGED <<diskVars, mishaps>>
    BY <1>3 DEF Fire, PersistNow, Close
  <2>2. \A v \in Writers : ~Carrying(v)' \/ writer'[v] = writer[v]
    BY <2>1 DEF Enter, WriterStates, Carrying
  <2> QED BY <2>1, <2>2, OutsideIsWhole
<1>4. ASSUME NEW w \in Writers, Persisting(w) PROVE Whole'
  <2>1. "shared" \notin mishaps
    BY <1>4 DEF Persisting, Snapshot, Open, Write, WriteFails, Rename, RenameFails, Remove, Record, Also
  <2> QED BY <1>4, <2>1, WriterIsWhole
<1>5. CASE Reloading
  BY <1>1, <1>5 DEF Reloading, Look, Stat, Read, Replace, Restat, Also
<1>6. CASE Crash \/ Exit \/ EndsToo
  <2>1. UNCHANGED <<diskVars, mishaps>> /\ \A w \in Writers : ~Carrying(w)'
    BY <1>6 DEF Crash, Exit, EndsToo, Halt, Resting, Carrying
  <2> QED BY <2>1, OutsideIsWhole
<1>7. CASE Start
  <2>1. CASE file # None /\ file.data \in {Blank, Torn}
    BY <1>1, <1>7, <2>1 DEF Start
  <2>2. CASE ~(file # None /\ file.data \in {Blank, Torn})
    <3>1. FileIsWhole'
      BY <1>7, <2>2 DEF Start, FileIsWhole, diskVars
    <3>2. \A w \in Writers : writer'[w].at = "idle"
      BY <1>7 DEF Start, StoppedIsIdle, Running
    <3>3. OneCarries' /\ TmpIsOwn'
      BY <3>2 DEF OneCarries, TmpIsOwn, Carrying
    <3> QED BY <3>1, <3>3 DEF Whole
  <2> QED BY <2>1, <2>2
<1>8. ASSUME NEW d \in Edits, Edit(d) PROVE Whole'
  <2>1. file'.data = d /\ d \in Contents /\ tmp' = tmp /\ mishaps \subseteq mishaps'
    BY <1>8, EditsAreContents DEF Edit, Contents, Also
  <2>2. \A w \in Writers : /\ writer'[w].at = writer[w].at
                           /\ writer[w].on = "tmp" => writer'[w].on = "tmp"
    BY <1>8 DEF Edit, WriterStates
  <2>3. FileIsWhole'
    BY <2>1, NoContents DEF FileIsWhole
  <2>4. OneCarries'
    BY <2>1, <2>2 DEF Whole, OneCarries, Carrying
  <2>5. TmpIsOwn'
    <3> SUFFICES ASSUME NEW v \in Writers
                 PROVE  /\ writer'[v].at = "write" => writer'[v].on = "tmp" /\ tmp'.data = Blank
                        /\ writer'[v].at = "rename" /\ tmp' # None => tmp'.data \in Contents
      BY DEF TmpIsOwn, Contents
    <3> QED BY <2>1, <2>2 DEF Whole, TmpIsOwn
  <2> QED BY <2>3, <2>4, <2>5 DEF Whole
<1>9. CASE UNCHANGED vars
  BY <1>1, <1>9 DEF vars
<1> QED BY <1>2, <1>3, <1>4, <1>5, <1>6, <1>7, <1>8, <1>9 DEF NextOrEnd, Next

LEMMA WholeInitially == Init => WholeInv
<1> SUFFICES ASSUME Init PROVE WholeInv
  OBVIOUS
<1>1. FileIsWhole /\ StoppedIsIdle
  BY DEF Init, FileIsWhole, StoppedIsIdle, Running
<1>2. \A w \in Writers : writer[w].at = "idle"
  BY DEF Init, Resting
<1>3. OneCarries /\ TmpIsOwn
  BY <1>2 DEF OneCarries, TmpIsOwn, Carrying
<1> QED BY <1>1, <1>3, InitInv DEF WholeInv, Whole

LEMMA WholeStep == WholeInv /\ [NextOrEnd]_vars => WholeInv'
BY StepKeepsInv, StoppedStep, NextIsWhole DEF WholeInv

LEMMA WholeHolds == Spec => []WholeInv
<1>1. WholeInv /\ [Next]_vars => WholeInv'
  BY WholeStep DEF NextOrEnd
<1> QED BY <1>1, WholeInitially, PTL DEF Spec

(* Until writes overlap, the file can be loaded at every moment: no kill   *)
(* or failed write, whenever it comes, and no edit of the file, however    *)
(* the poll takes it over, leaves a truncated or a mixed file behind; nor  *)
(* do the writes of a program started after one where they overlapped.     *)
THEOREM FileStaysWhole == Spec => []WholeUnlessShared
<1>1. WholeInv => WholeUnlessShared
  BY DEF WholeInv, Whole, WholeUnlessShared
<1> QED BY <1>1, WholeHolds, PTL

-----------------------------------------------------------------------------
(***************************************************************************)
(* DNSPersist implements DurableSet until writes overlap, another program  *)
(* writes the file or the poll loads it: what the file holds is part of    *)
(* what the pool holds, and who is on the way to the file carries          *)
(* something in between.                                                   *)
(***************************************************************************)
Excused == {"shared", "edited", "reloaded"} \cap mishaps # {}

StoredIsKnown == Running => Stored \subseteq mem

CarriedIsBetween ==
    \A w \in Writers :
        /\ writer[w].at \in {"open", "write"} =>
              Stored \subseteq writer[w].data /\ writer[w].data \subseteq mem
        /\ writer[w].at = "rename" /\ tmp # None =>
              Stored \subseteq tmp.data /\ tmp.data \subseteq mem

StoppedIsEmpty == ~Running => mem = {}

DurableInv == StoppedIsEmpty /\ (~Excused => StoredIsKnown /\ CarriedIsBetween)

(* A step of the abstract specification, none of it, or an excused one.    *)
Implements == DurableInv' /\ [Excused' \/ Abstract!Next]_<<mem, Stored, Running>>

(* Steps that change neither the files, nor the pool, nor whether it runs, *)
(* and bring nobody on the way.                                            *)
LEMMA Stutters ==
    ASSUME DurableInv, UNCHANGED <<mem, file, tmp>>, mishaps \subseteq mishaps',
           state' = state \/ (state = "up" /\ state' = "closing") \/ (~Running /\ ~Running'),
           \A w \in Writers :
              \/ writer'[w].at = writer[w].at /\ writer'[w].data = writer[w].data
              \/ writer'[w].at \notin {"open", "write", "rename"}
    PROVE  Implements
<1>1. UNCHANGED <<mem, Stored, Running>>
  BY DEF Stored, Running
<1>2. StoppedIsEmpty' /\ (Excused => Excused')
  BY <1>1 DEF DurableInv, StoppedIsEmpty, Excused
<1>3. ~Excused => StoredIsKnown' /\ CarriedIsBetween'
  BY <1>1 DEF DurableInv, StoredIsKnown, CarriedIsBetween
<1> QED BY <1>1, <1>2, <1>3 DEF Implements, DurableInv

LEMMA LearnImplements ==
    ASSUME DurableInv, NEW u \in Learnt, Learn(u)
    PROVE  Implements
<1>1. /\ Running /\ Running' /\ Stored' = Stored /\ tmp' = tmp
      /\ mem' = mem \cup {u} /\ writer' = writer /\ mishaps' = mishaps
  BY DEF Learn, Running, Stored, diskVars, procVars
<1>2. Abstract!Learn
  BY <1>1, LearntAreUpdates DEF Abstract!Learn
<1>3. StoppedIsEmpty' /\ (Excused' <=> Excused)
  BY <1>1 DEF StoppedIsEmpty, Excused
<1>4. ~Excused => StoredIsKnown' /\ CarriedIsBetween'
  BY <1>1 DEF DurableInv, StoredIsKnown, CarriedIsBetween
<1> QED BY <1>2, <1>3, <1>4 DEF Implements, DurableInv, Abstract!Next

LEMMA HaltImplements ==
    ASSUME DurableInv, Halt
    PROVE  Implements
<1>1. /\ Stored' = Stored /\ mem' = {} /\ ~Running' /\ state' = "down" /\ mishaps' = mishaps
      /\ UNCHANGED <<file, tmp>>
  BY DEF Halt, Running, Stored, diskVars
<1>2. \A w \in Writers : writer'[w].at = "idle"
  BY DEF Halt, Resting
<1>3. Running => Abstract!Stop
  BY <1>1 DEF Abstract!Stop
<1>4. ~Running => UNCHANGED <<mem, Stored, Running>>
  BY <1>1 DEF DurableInv, StoppedIsEmpty, Running
<1>5. DurableInv'
  BY <1>1, <1>2 DEF DurableInv, StoredIsKnown, CarriedIsBetween, StoppedIsEmpty
<1> QED BY <1>3, <1>4, <1>5 DEF Implements, Abstract!Next

LEMMA StartImplements ==
    ASSUME StoppedIsIdle, DurableInv, Start
    PROVE  Implements
<1>1. CASE file # None /\ file.data \in {Blank, Torn}
  <2>1. ~Running /\ ~Running' /\ UNCHANGED <<mem, file, tmp, writer, mishaps>>
    BY <1>1 DEF Start, Running, diskVars
  <2> QED BY <2>1, Stutters
<1>2. CASE ~(file # None /\ file.data \in {Blank, Torn})
  <2>1. /\ ~Running /\ state' = "up" /\ Running' /\ Stored' = Stored /\ mem' = Stored
        /\ writer' = writer
    BY <1>2 DEF Start, Running, Stored, diskVars
  <2>2. Abstract!Start
    BY <2>1 DEF Abstract!Start
  <2>3. \A w \in Writers : writer'[w].at = "idle"
    BY <2>1 DEF StoppedIsIdle
  <2>4. DurableInv'
    BY <2>1, <2>3 DEF DurableInv, StoredIsKnown, CarriedIsBetween, StoppedIsEmpty
  <2> QED BY <2>2, <2>4 DEF Implements, Abstract!Next
<1> QED BY <1>1, <1>2

LEMMA RenameImplements ==
    ASSUME WholeInv, DurableInv, NEW w \in Writers, Rename(w)
    PROVE  Implements
<1> USE DEF WholeInv, PersistInv, PersistTypeOK
<1>1. /\ writer[w].at = "rename" /\ tmp # None /\ file' = tmp
      /\ UNCHANGED <<mem, state, mishaps>>
  BY DEF Rename, poolVars, procVars
<1>2. Running /\ (Running' <=> Running)
  BY <1>1 DEF StoppedIsIdle, Running
<1>3. StoppedIsEmpty' /\ (Excused' <=> Excused)
  BY <1>1, <1>2 DEF DurableInv, StoppedIsEmpty, Excused
<1>4. ASSUME ~Excused PROVE Abstract!Save /\ StoredIsKnown' /\ CarriedIsBetween'
  <2>1. Whole
    BY <1>4 DEF Excused
  <2>2. tmp.data \in Contents
    BY <1>1, <2>1 DEF Whole, TmpIsOwn
  <2>3. Stored' = tmp.data
    BY <1>1, <2>2, NoContents DEF Stored
  <2>4. Stored \subseteq Stored' /\ Stored' \subseteq mem
    BY <1>1, <1>4, <2>3 DEF DurableInv, CarriedIsBetween
  <2>5. \A v \in Writers \ {w} : writer[v].at \notin {"open", "write", "rename"}
    BY <1>1, <2>1 DEF Whole, OneCarries, Carrying
  <2>6. writer'[w].at = "record" /\ \A v \in Writers \ {w} : writer'[v].at = writer[v].at
    BY DEF Rename, WriterStates, At, Resting
  <2>7. CarriedIsBetween'
    BY <2>5, <2>6 DEF CarriedIsBetween
  <2> QED BY <1>1, <1>2, <2>4, <2>7 DEF Abstract!Save, StoredIsKnown
<1> QED BY <1>3, <1>4 DEF Implements, DurableInv, Abstract!Next

(* A writer until it renames, and after.                                   *)
LEMMA WriterImplements ==
    ASSUME WholeInv, DurableInv, NEW w \in Writers, Persisting(w)
    PROVE  Implements
<1> USE DEF WholeInv, PersistInv, PersistTypeOK
<1>1. /\ writer[w] \in WriterStates /\ writer \in [Writers -> WriterStates]
      /\ Resting.at = "idle" /\ \A s \in {"rename", "remove", "record"} : At(Resting, s).at = s
  BY DEF Resting, At
<1>2. Running
  BY DEF StoppedIsIdle, Persisting, Snapshot, Open, Write, WriteFails, Rename, RenameFails, Remove,
         Record
(* Steps that leave the file and the pool alone.                           *)
<1>3. ASSUME UNCHANGED <<mem, file, state>>, mishaps \subseteq mishaps',
             ~Excused' => CarriedIsBetween'
      PROVE  Implements
  <2>1. UNCHANGED <<mem, Stored, Running>>
    BY <1>3 DEF Stored, Running
  <2>2. (Excused => Excused') /\ StoppedIsEmpty'
    BY <1>2, <1>3 DEF Excused, StoppedIsEmpty, Running
  <2>3. ~Excused => StoredIsKnown'
    BY <2>1 DEF DurableInv, StoredIsKnown
  <2> QED BY <1>3, <2>1, <2>2, <2>3 DEF Implements, DurableInv
<1>4. CASE Snapshot(w)
  <2>1. UNCHANGED <<mem, file, tmp, state>> /\ mishaps \subseteq mishaps' /\ (Excused => Excused')
    BY <1>4 DEF Snapshot, Also, Excused, poolVars, diskVars, procVars
  <2>2. CASE mem = {}
    <3>1. writer' = [writer EXCEPT ![w] = Resting]
      BY <1>4, <2>2 DEF Snapshot
    <3> QED BY <1>1, <2>1, <3>1, Stutters
  <2>3. CASE mem # {}
    <3>1. writer'[w].at = "open" /\ writer'[w].data = mem /\ \A v \in Writers \ {w} : writer'[v] = writer[v]
      BY <1>1, <1>4, <2>3 DEF Snapshot, WriterStates
    <3>2. ~Excused => Stored \subseteq mem /\ CarriedIsBetween
      BY <1>2 DEF DurableInv, StoredIsKnown
    <3>3. ~Excused => CarriedIsBetween'
      BY <2>1, <3>1, <3>2 DEF CarriedIsBetween, Stored
    <3> QED BY <1>3, <2>1, <3>3
  <2> QED BY <2>2, <2>3
<1>5. CASE WriteFails(w) \/ Record(w)
  <2>1. /\ writer' = [writer EXCEPT ![w] = Resting] /\ UNCHANGED <<mem, file, tmp, state>>
        /\ mishaps \subseteq mishaps'
    BY <1>5 DEF WriteFails, Record, Also, poolVars, diskVars, procVars
  <2> QED BY <1>1, <2>1, Stutters
<1>6. CASE RenameFails(w)
  <2>1. /\ writer' = [writer EXCEPT ![w] = At(Resting, "remove")]
        /\ UNCHANGED <<mem, file, tmp, state>> /\ mishaps \subseteq mishaps'
    BY <1>6 DEF RenameFails, Also, poolVars, diskVars, procVars
  <2>2. \A v \in Writers : writer'[v] = writer[v] \/ writer'[v].at = "remove"
    BY <1>1, <2>1
  <2> QED BY <2>1, <2>2, Stutters
(* Steps on the way: nobody else is there.                                 *)
<1>7. ASSUME Carrying(w), ~Excused
      PROVE  Whole /\ CarriedIsBetween /\
             \A v \in Writers \ {w} : writer[v].at \notin {"open", "write", "rename"}
  <2>1. Whole /\ CarriedIsBetween
    BY <1>7 DEF Excused, DurableInv
  <2> QED BY <1>7, <2>1 DEF Whole, OneCarries, Carrying
<1>8. CASE Open(w)
  <2>1. /\ writer'[w].at = "write" /\ writer'[w].data = writer[w].data
        /\ \A v \in Writers \ {w} : writer'[v] = writer[v]
        /\ writer[w].at = "open" /\ UNCHANGED <<mem, file, state, mishaps>>
    BY <1>1, <1>8 DEF Open, WriterStates, poolVars, procVars
  <2>2. Carrying(w) /\ (Excused' <=> Excused) /\ Stored' = Stored
    BY <2>1 DEF Carrying, Excused, Stored
  <2>3. ~Excused => CarriedIsBetween'
    BY <1>7, <2>1, <2>2 DEF CarriedIsBetween
  <2> QED BY <1>3, <2>1, <2>2, <2>3
<1>9. CASE Write(w)
  <2>1. /\ writer'[w].at = "rename" /\ \A v \in Writers \ {w} : writer'[v] = writer[v]
        /\ writer[w].at = "write" /\ UNCHANGED <<mem, state, mishaps>>
    BY <1>1, <1>9 DEF Write, poolVars, procVars
  <2>2. Carrying(w) /\ (Excused' <=> Excused)
    BY <2>1 DEF Carrying, Excused
  <2>3. CASE ~Excused
    <3>1. writer[w].on = "tmp" /\ tmp.data = Blank /\ writer[w].data \in Contents
      BY <1>1, <1>7, <2>1, <2>2, <2>3 DEF Whole, TmpIsOwn, WriterStates
    <3>2. file' = file /\ tmp' \in WriteOver(tmp, writer[w].data)
      BY <1>9, <3>1 DEF Write
    <3>3. Overwritten(tmp.data, writer[w].data) = {writer[w].data}
      BY <3>1, NoContents DEF Overwritten
    <3>4. tmp'.data = writer[w].data /\ Stored' = Stored
      BY <3>2, <3>3 DEF WriteOver, Stored
    <3>5. CarriedIsBetween'
      BY <1>7, <2>1, <2>2, <2>3, <3>4 DEF CarriedIsBetween
    <3> QED BY <1>3, <2>1, <3>2, <3>5
  <2>4. CASE Excused
    BY <1>2, <2>1, <2>2, <2>4 DEF Implements, DurableInv, StoppedIsEmpty, Running
  <2> QED BY <2>3, <2>4
<1>10. CASE Remove(w)
  <2>1. /\ writer'[w].at = "idle" /\ \A v \in Writers \ {w} : writer'[v].at = writer[v].at
        /\ writer[w].at = "remove" /\ UNCHANGED <<mem, file, state, mishaps>>
    BY <1>1, <1>10 DEF Remove, WriterStates, poolVars, procVars
  <2>2. Carrying(w) /\ (Excused' <=> Excused)
    BY <2>1 DEF Carrying, Excused
  <2>3. ~Excused => CarriedIsBetween'
    BY <1>7, <2>1, <2>2 DEF CarriedIsBetween
  <2> QED BY <1>3, <2>1, <2>2, <2>3
<1>11. CASE Rename(w)
  BY <1>11, RenameImplements
<1> QED BY <1>4, <1>5, <1>6, <1>8, <1>9, <1>10, <1>11 DEF Persisting

(* Every step: the others start a writer, are excused, or change nothing   *)
(* here.                                                                   *)
LEMMA NextImplements ==
    ASSUME WholeInv, DurableInv, [NextOrEnd]_vars
    PROVE  Implements
<1>1. ASSUME UNCHANGED <<mem, file, tmp, state, writer, mishaps>> PROVE Implements
  BY <1>1, Stutters
<1>2. ASSUME NEW u \in Learnt, Learn(u) PROVE Implements
  BY <1>2, LearnImplements
<1>3. ASSUME NEW w \in Writers, Fire(w) \/ PersistNow(w) \/ Close(w) PROVE Implements
  <2>1. /\ writer' = [writer EXCEPT ![w].at = "snapshot"]
        /\ UNCHANGED <<mem, file, tmp, mishaps>>
        /\ state' = state \/ (state = "up" /\ state' = "closing")
    BY <1>3 DEF Fire, PersistNow, Close, Enter, poolVars, diskVars, procVars
  <2>2. writer'[w].at = "snapshot" /\ \A v \in Writers \ {w} : writer'[v] = writer[v]
    BY <2>1 DEF WholeInv, PersistInv, PersistTypeOK, WriterStates
  <2> QED BY <2>1, <2>2, Stutters
<1>4. ASSUME NEW w \in Writers, Persisting(w) PROVE Implements
  BY <1>4, WriterImplements
<1>5. CASE Look \/ Stat \/ Read \/ Restat \/ HalfASecond \/ Tick
  BY <1>1, <1>5 DEF Look, Stat, Read, Restat, HalfASecond, Tick, poolVars, diskVars, procVars
<1>6. CASE Replace
  <2>1. Excused' /\ Running /\ state' = state
    BY <1>6 DEF Replace, Also, Excused, procVars, WholeInv, StoppedIsIdle
  <2> QED BY <2>1 DEF Implements, DurableInv, StoppedIsEmpty, Running
<1>7. CASE Crash \/ Exit \/ EndsToo
  BY <1>7, HaltImplements DEF Crash, Exit, EndsToo
<1>8. CASE Start
  BY <1>8, StartImplements DEF WholeInv
<1>9. ASSUME NEW d \in Edits, Edit(d) PROVE Implements
  <2>1. Excused' /\ UNCHANGED <<mem, state>>
    BY <1>9 DEF Edit, Also, Excused, poolVars, procVars
  <2> QED BY <2>1 DEF Implements, DurableInv, StoppedIsEmpty, Running
<1>10. CASE UNCHANGED vars
  BY <1>1, <1>10 DEF vars, poolVars, diskVars, procVars
<1> QED BY <1>2, <1>3, <1>4, <1>5, <1>6, <1>7, <1>8, <1>9, <1>10 DEF NextOrEnd, Next, Reloading

LEMMA DurableInitially == Init => DurableInv /\ Abstract!Init
<1>1. Init => Stored = {} /\ Running /\ \A w \in Writers : writer[w].at = "idle"
  BY DEF Init, Stored, Running, Resting
<1> QED BY <1>1 DEF Init, DurableInv, StoredIsKnown, CarriedIsBetween, StoppedIsEmpty, Abstract!Init

(* What the file holds stays there through kills, failed writes and        *)
(* restarts, a restart brings it back, and the pool loses nothing while    *)
(* the program runs, until writes overlap, another program writes the file *)
(* or the poll loads it; a restart ends that.                              *)
THEOREM FileIsDurable == Spec => Durable
<1>1. WholeInv /\ DurableInv /\ [Next]_vars =>
          DurableInv' /\ [Excused' \/ Abstract!Next]_<<mem, Stored, Running>>
  BY NextImplements DEF Implements, NextOrEnd
<1>2. ASSUME [Excused' \/ Abstract!Next]_<<mem, Stored, Running>>
      PROVE  [\/ {"shared", "edited", "reloaded"} \cap mishaps' # {}
              \/ Abstract!Next]_<<mem, Stored, Running>>
  BY <1>2 DEF Excused
<1> QED BY <1>1, <1>2, WholeHolds, DurableInitially, PTL DEF Spec, Durable

-----------------------------------------------------------------------------
(***************************************************************************)
(* The exit of the node.  Each step of NodeExit is one of the pool and its *)
(* file, the end of the process on Serve's error, or none of them.         *)
(***************************************************************************)
(* Main waits for something only while the process runs.                   *)
MainRuns == main # "serving" => Running

(* ... as the invariants of the pool and its file need it.                 *)
LEMMA NodeIsPool ==
    ASSUME MainRuns, [NodeNext]_nodeVars
    PROVE  [NextOrEnd]_vars /\ MainRuns'
<1>1. ASSUME UNCHANGED vars, main' = main \/ state = "up" \/ main # "serving"
      PROVE  [NextOrEnd]_vars /\ MainRuns'
  BY <1>1 DEF MainRuns, Running, vars, procVars
<1>2. ASSUME NEW u \in Learnt, Learn(u), main' = main PROVE [NextOrEnd]_vars /\ MainRuns'
  BY <1>2 DEF MainRuns, Running, Learn, procVars, NextOrEnd, Next
<1>3. CASE Elsewhere
  <2>1. main' = main
    BY <1>3 DEF Elsewhere, exitVars
  <2>2. ASSUME NEW w \in Writers, Fire(w) \/ PersistNow(w) PROVE [NextOrEnd]_vars /\ MainRuns'
    <3>1. NextOrEnd
      BY <2>2 DEF NextOrEnd, Next
    <3>2. UNCHANGED state
      BY <2>2 DEF Fire, PersistNow, procVars
    <3> QED BY <2>1, <3>1, <3>2 DEF MainRuns, Running
  <2>3. ASSUME NEW w \in Writers, Persisting(w) PROVE [NextOrEnd]_vars /\ MainRuns'
    <3>1. NextOrEnd
      BY <2>3 DEF NextOrEnd, Next
    <3>2. UNCHANGED state
      BY <2>3 DEF Persisting, Snapshot, Open, Write, WriteFails, Rename, RenameFails, Remove,
                  Record, procVars
    <3> QED BY <2>1, <3>1, <3>2 DEF MainRuns, Running
  <2>4. CASE Reloading \/ HalfASecond \/ Tick \/ \E d \in Edits : Edit(d)
    <3>1. NextOrEnd
      BY <2>4 DEF NextOrEnd, Next
    <3>2. UNCHANGED state
      BY <2>4 DEF Reloading, Look, Stat, Read, Replace, Restat, HalfASecond, Tick, Edit, procVars
    <3> QED BY <2>1, <3>1, <3>2 DEF MainRuns, Running
  <2> QED BY <1>2, <1>3, <2>1, <2>2, <2>3, <2>4 DEF Elsewhere
<1>4. CASE \E u \in Learnt : HeartbeatMerges(u)
  BY <1>2, <1>4 DEF HeartbeatMerges
<1>5. CASE (\E l \in Loops : Ticks(l) \/ Ends(l) \/ Stops(l)) \/ Signal \/ CloseProbes
  BY <1>1, <1>5 DEF Ticks, Ends, Stops, Signal, CloseProbes
<1>6. ASSUME NEW w \in Writers, CloseDNSPool(w) PROVE [NextOrEnd]_vars /\ MainRuns'
  BY <1>6 DEF CloseDNSPool, Close, NextOrEnd, Next, MainRuns, Running
<1>7. CASE Return \/ ServeEnds \/ Killed
  <2>1. main' = "serving"
    BY <1>7 DEF Return, ServeEnds, Killed, Gone
  <2>2. Exit \/ Crash \/ EndsToo
    BY <1>7 DEF Return, ServeEnds, Killed, MainRuns, EndsToo
  <2> QED BY <2>1, <2>2 DEF MainRuns, NextOrEnd, Next
<1>8. CASE Restart
  <2>1. Start /\ main' = main /\ state = "down"
    BY <1>8 DEF Restart, Start, exitVars
  <2> QED BY <2>1 DEF MainRuns, Running, NextOrEnd, Next
<1>9. CASE UNCHANGED nodeVars
  BY <1>1, <1>9 DEF nodeVars, exitVars
<1> QED BY <1>3, <1>4, <1>5, <1>6, <1>7, <1>8, <1>9 DEF NodeNext, Leaving

(* However and whenever the process ends, writes that do not overlap leave *)
(* a file that can be loaded.                                              *)
THEOREM ExitKeepsFileWhole == NodeSpec => []WholeUnlessShared
<1>1. NodeInit => MainRuns /\ WholeInv
  BY WholeInitially DEF NodeInit, MainRuns
<1>2. MainRuns /\ WholeInv /\ [NodeNext]_nodeVars => MainRuns' /\ WholeInv'
  BY NodeIsPool, WholeStep
<1>3. WholeInv => WholeUnlessShared
  BY DEF WholeInv, Whole, WholeUnlessShared
<1> QED BY <1>1, <1>2, <1>3, PTL DEF NodeSpec

(* The signal, the deferred calls and the end on Serve's error take        *)
(* nothing from the file either: what is in it before is in it after.      *)
THEOREM ExitIsDurable == NodeSpec => Durable
<1>1. NodeInit => MainRuns /\ WholeInv /\ DurableInv /\ Abstract!Init
  BY WholeInitially, DurableInitially DEF NodeInit, MainRuns
<1>2. MainRuns /\ WholeInv /\ DurableInv /\ [NodeNext]_nodeVars =>
          /\ MainRuns' /\ WholeInv' /\ DurableInv'
          /\ [Excused' \/ Abstract!Next]_<<mem, Stored, Running>>
  BY NodeIsPool, WholeStep, NextImplements DEF Implements
<1>3. ASSUME [Excused' \/ Abstract!Next]_<<mem, Stored, Running>>
      PROVE  [\/ {"shared", "edited", "reloaded"} \cap mishaps' # {}
              \/ Abstract!Next]_<<mem, Stored, Running>>
  BY <1>3 DEF Excused
<1> QED BY <1>1, <1>2, <1>3, PTL DEF NodeSpec, Durable

-----------------------------------------------------------------------------
(* What is owed is in the pool until it closes, then with the writer of    *)
(* Close, then in the temporary file, then in the file: whoever else may   *)
(* be in persistNow then is not on the way, or the writes overlap.         *)
OwedIsCarried ==
    /\ writer[closer].at = "snapshot" => owed \subseteq mem
    /\ writer[closer].at \in {"open", "write"} => owed \subseteq writer[closer].data
    /\ writer[closer].at = "rename" => tmp # None /\ owed \subseteq tmp.data
    /\ writer[closer].at \in {"idle", "record"} => owed \subseteq Stored
    /\ writer[closer].at # "remove"

OwedOnTheWay ==
    /\ state = "closing" /\ closer \in Writers /\ loop["heartbeat"] = "done"
    /\ mishaps = {} => OwedIsCarried

OwedInv ==
    /\ loop \in [Loops -> {"waiting", "busy", "done"}]
    /\ main \in {"serving", "peerSync.Stop", "dnsPool.Close", "probe.Close"}
    /\ state = "up" /\ mishaps = {} => owed \subseteq mem
    /\ main = "serving" => state # "closing" /\ owed = {} /\ loop["heartbeat"] # "busy"
    /\ main = "peerSync.Stop" => state = "up"
    /\ main \in {"dnsPool.Close", "probe.Close"} => OwedOnTheWay

LEMMA SamePlace ==
    ASSUME OwedOnTheWay, UNCHANGED <<state, closer, loop, owed>>,
           mishaps' = {} => mishaps = {} /\ OwedIsCarried'
    PROVE  OwedOnTheWay'
BY DEF OwedOnTheWay

(* The writer of Close, from its snapshot to the file, ...                 *)
LEMMA CloserCarries ==
    ASSUME WholeInv, OwedOnTheWay, UNCHANGED exitVars, Persisting(closer)
    PROVE  OwedOnTheWay'
<1> USE DEF WholeInv, PersistInv, PersistTypeOK
<1>1. /\ closer \in Writers /\ writer[closer] \in WriterStates
      /\ Resting.at = "idle" /\ \A s \in {"rename", "remove", "record"} : At(Resting, s).at = s
  BY DEF OwedOnTheWay, Resting, At
<1>2. UNCHANGED <<state, closer, loop, owed, mem>> /\ mishaps \subseteq mishaps'
  BY DEF Persisting, Snapshot, Open, Write, WriteFails, Rename, RenameFails, Remove, Record,
         Also, procVars, poolVars, exitVars
<1>3. SUFFICES ASSUME mishaps' = {} PROVE OwedIsCarried'
  BY <1>2, SamePlace
<1>4. OwedIsCarried /\ Whole
  BY <1>2, <1>3 DEF OwedOnTheWay
<1>5. CASE Snapshot(closer)
  <2>1. owed \subseteq mem /\ file' = file
    BY <1>4, <1>5 DEF Snapshot, OwedIsCarried, diskVars
  <2>2. CASE mem = {}
    <3>1. writer'[closer].at = "idle"
      BY <1>1, <1>5, <2>2 DEF Snapshot
    <3> QED BY <1>2, <2>1, <2>2, <3>1 DEF OwedIsCarried
  <2>3. CASE mem # {}
    <3>1. writer'[closer].at = "open" /\ writer'[closer].data = mem
      BY <1>1, <1>5, <2>3 DEF Snapshot, WriterStates
    <3> QED BY <1>2, <2>1, <3>1 DEF OwedIsCarried
  <2> QED BY <2>2, <2>3
<1>6. CASE Open(closer)
  <2>1. /\ writer'[closer].at = "write" /\ writer'[closer].data = writer[closer].data
        /\ owed \subseteq writer[closer].data
    BY <1>1, <1>4, <1>6 DEF Open, OwedIsCarried, WriterStates
  <2> QED BY <1>2, <2>1 DEF OwedIsCarried
<1>7. CASE Write(closer)
  <2>1. /\ writer'[closer].at = "rename" /\ owed \subseteq writer[closer].data
        /\ writer[closer].on = "tmp" /\ tmp.data = Blank /\ tmp \in Files
        /\ writer[closer].data \in Contents
    BY <1>1, <1>4, <1>7 DEF Write, OwedIsCarried, Whole, TmpIsOwn, WriterStates
  <2>2. tmp' \in WriteOver(tmp, writer[closer].data)
    BY <1>7, <2>1 DEF Write
  <2>3. now \in Times
    BY TimesHave
  <2>4. tmp' # None
    BY <2>1, <2>2, <2>3, WriteOverFiles, FileIsSomething
  <2>5. Overwritten(tmp.data, writer[closer].data) = {writer[closer].data}
    BY <2>1, NoContents DEF Overwritten
  <2>6. tmp'.data = writer[closer].data
    BY <2>2, <2>5 DEF WriteOver
  <2> QED BY <1>2, <2>1, <2>4, <2>6 DEF OwedIsCarried
<1>8. CASE Rename(closer)
  <2>1. /\ tmp # None /\ owed \subseteq tmp.data /\ tmp.data \in Contents
        /\ file' = tmp /\ writer'[closer].at = "record"
    BY <1>1, <1>4, <1>8 DEF Rename, OwedIsCarried, Whole, TmpIsOwn
  <2>2. Stored' = tmp.data
    BY <2>1, NoContents DEF Stored
  <2> QED BY <1>2, <2>1, <2>2 DEF OwedIsCarried
<1>9. CASE Record(closer)
  <2>1. writer'[closer].at = "idle" /\ Stored' = Stored /\ owed \subseteq Stored
    BY <1>1, <1>4, <1>9 DEF Record, OwedIsCarried, Stored, diskVars
  <2> QED BY <1>2, <2>1 DEF OwedIsCarried
<1>10. ~RenameFails(closer) /\ ~WriteFails(closer) /\ ~Remove(closer)
  BY <1>3, <1>4 DEF RenameFails, WriteFails, Remove, Also, OwedIsCarried
<1> QED BY <1>5, <1>6, <1>7, <1>8, <1>9, <1>10 DEF Persisting

(* ... while another one is at most before or after its way.               *)
LEMMA OthersCarry ==
    ASSUME WholeInv, DurableInv, OwedOnTheWay, UNCHANGED exitVars,
           NEW w \in Writers, w # closer, Persisting(w)
    PROVE  OwedOnTheWay'
<1> USE DEF WholeInv, PersistInv, PersistTypeOK
<1>1. /\ closer \in Writers /\ writer[w] \in WriterStates /\ writer[closer] \in WriterStates
      /\ Resting.at = "idle" /\ \A s \in {"rename", "remove", "record"} : At(Resting, s).at = s
  BY DEF OwedOnTheWay, Resting, At
<1>2. UNCHANGED <<state, closer, loop, owed, mem>> /\ mishaps \subseteq mishaps'
  BY DEF Persisting, Snapshot, Open, Write, WriteFails, Rename, RenameFails, Remove, Record,
         Also, procVars, poolVars, exitVars
<1>3. SUFFICES ASSUME mishaps' = {} PROVE OwedIsCarried'
  BY <1>2, SamePlace
<1>4. OwedIsCarried /\ Whole /\ mishaps = {} /\ ~Excused
  BY <1>2, <1>3 DEF OwedOnTheWay, Excused
<1>5. writer'[closer].at = writer[closer].at /\ writer'[closer].data = writer[closer].data
  <2>1. CASE Rename(w)
    BY <1>1, <2>1 DEF Rename, WriterStates
  <2>2. CASE Remove(w)
    BY <1>1, <2>2 DEF Remove, WriterStates
  <2>3. CASE Snapshot(w) \/ Open(w) \/ Write(w) \/ WriteFails(w) \/ RenameFails(w) \/ Record(w)
    BY <1>1, <2>3 DEF Snapshot, Open, Write, WriteFails, RenameFails, Record
  <2> QED BY <2>1, <2>2, <2>3 DEF Persisting
<1>6. CASE Snapshot(w) \/ Record(w) \/ WriteFails(w) \/ RenameFails(w)
  <2>1. UNCHANGED diskVars /\ Stored' = Stored
    BY <1>6 DEF Snapshot, Record, WriteFails, RenameFails, diskVars, Stored
  <2> QED BY <1>2, <1>4, <1>5, <2>1 DEF OwedIsCarried, diskVars
<1>7. CASE Open(w) \/ Write(w) \/ Rename(w) \/ Remove(w)
  <2>1. Carrying(w)
    BY <1>7 DEF Open, Write, Rename, Remove, Carrying
  <2>2. writer[closer].at \in {"idle", "snapshot", "record"}
    BY <1>1, <1>4, <2>1 DEF Whole, OneCarries, Carrying, WriterStates
  <2>3. Stored \subseteq Stored'
    <3>1. CASE Rename(w)
      <4>1. Stored \subseteq tmp.data /\ tmp.data \in Contents /\ file' = tmp /\ tmp # None
        BY <1>4, <3>1 DEF Rename, DurableInv, CarriedIsBetween, Whole, TmpIsOwn
      <4> QED BY <4>1, NoContents DEF Stored
    <3>2. CASE Write(w)
      <4>1. writer[w].on = "tmp"
        BY <1>4, <3>2 DEF Write, Whole, TmpIsOwn
      <4> QED BY <3>2, <4>1 DEF Write, Stored
    <3>3. CASE Open(w) \/ Remove(w)
      BY <3>3 DEF Open, Remove, Stored
    <3> QED BY <1>7, <3>1, <3>2, <3>3
  <2> QED BY <1>2, <1>4, <1>5, <2>2, <2>3 DEF OwedIsCarried
<1> QED BY <1>6, <1>7 DEF Persisting

(* What runs beside main.                                                  *)
LEMMA ElsewhereOwes ==
    ASSUME WholeInv, DurableInv, OwedInv, Elsewhere
    PROVE  OwedInv'
<1>1. UNCHANGED <<main, loop, owed>>
  BY DEF Elsewhere, exitVars
<1>2. ASSUME UNCHANGED <<state, mishaps>>, mem \subseteq mem', OwedOnTheWay => OwedOnTheWay'
      PROVE  OwedInv'
  BY <1>1, <1>2 DEF OwedInv
<1>3. ASSUME NEW u \in Learnt, Learn(u) PROVE OwedInv'
  <2>1. /\ mem \subseteq mem' /\ UNCHANGED <<state, closer, writer, file, tmp, mishaps>>
        /\ Stored' = Stored
    BY <1>3 DEF Learn, procVars, diskVars, Stored
  <2>2. OwedOnTheWay => OwedOnTheWay'
    BY <1>1, <2>1 DEF OwedOnTheWay, OwedIsCarried
  <2> QED BY <1>2, <2>1, <2>2
<1>4. ASSUME NEW w \in Writers, Fire(w) \/ PersistNow(w) PROVE OwedInv'
  <2>1. /\ UNCHANGED <<mem, file, tmp, state, closer, mishaps>> /\ w # closer /\ Stored' = Stored
        /\ writer' = [writer EXCEPT ![w].at = "snapshot"]
    BY <1>4 DEF Fire, PersistNow, Enter, poolVars, diskVars, procVars, Stored
  <2>2. OwedOnTheWay => OwedOnTheWay'
    BY <1>1, <2>1 DEF OwedOnTheWay, OwedIsCarried, WholeInv, PersistInv, PersistTypeOK
  <2> QED BY <1>2, <2>1, <2>2
<1>5. ASSUME NEW w \in Writers, Persisting(w) PROVE OwedInv'
  <2>1. UNCHANGED <<mem, state>> /\ (mishaps' = {} => mishaps = {})
    BY <1>5 DEF Persisting, Snapshot, Open, Write, WriteFails, Rename, RenameFails, Remove,
                Record, Also, procVars, poolVars
  <2>2. OwedOnTheWay => OwedOnTheWay'
    BY <1>1, <1>5, CloserCarries, OthersCarry DEF exitVars
  <2> QED BY <1>1, <2>1, <2>2 DEF OwedInv
<1>6. CASE Look \/ Stat \/ Read \/ Restat \/ HalfASecond \/ Tick
  <2>1. UNCHANGED <<mem, state, closer, writer, file, tmp, mishaps>> /\ Stored' = Stored
    BY <1>6 DEF Look, Stat, Read, Restat, HalfASecond, Tick, poolVars, procVars, diskVars, Stored
  <2>2. OwedOnTheWay => OwedOnTheWay'
    BY <1>1, <2>1 DEF OwedOnTheWay, OwedIsCarried
  <2> QED BY <1>2, <2>1, <2>2
<1>7. CASE Replace \/ \E d \in Edits : Edit(d)
  <2>1. UNCHANGED <<state, closer>> /\ mishaps' # {}
    BY <1>7 DEF Replace, Edit, Also, procVars
  <2>2. OwedOnTheWay => OwedOnTheWay'
    BY <1>1, <2>1 DEF OwedOnTheWay
  <2> QED BY <1>1, <2>1, <2>2 DEF OwedInv
<1> QED BY <1>3, <1>4, <1>5, <1>6, <1>7 DEF Elsewhere, Reloading

(* Whatever main and its loops do, what is owed gets where it belongs.     *)
LEMMA OwedStep ==
    ASSUME WholeInv, DurableInv, OwedInv, [NodeNext]_nodeVars
    PROVE  OwedInv'
<1>1. "heartbeat" \in Loops /\ OfPeers = {"heartbeat"}
  BY DEF Loops, OfPeers
<1>2. ASSUME UNCHANGED vars, UNCHANGED owed, loop' \in [Loops -> {"waiting", "busy", "done"}],
             loop["heartbeat"] = "done" => loop'["heartbeat"] = "done",
             \/ main' = main /\ (main # "serving" \/ loop'["heartbeat"] # "busy")
             \/ main = "dnsPool.Close" /\ main' = "probe.Close"
      PROVE  OwedInv'
  <2>1. UNCHANGED <<mem, state, closer, writer, file, tmp, mishaps>> /\ Stored' = Stored
    BY <1>2 DEF vars, poolVars, procVars, diskVars, Stored
  <2>2. OwedOnTheWay => OwedOnTheWay'
    BY <1>2, <2>1 DEF OwedOnTheWay, OwedIsCarried
  <2> QED BY <1>2, <2>1, <2>2 DEF OwedInv
<1>3. ASSUME NEW u \in Learnt, HeartbeatMerges(u) PROVE OwedInv'
  <2>1. /\ mem' = mem \cup {u} /\ owed' = owed \cup {u} /\ UNCHANGED <<state, main, loop, mishaps>>
        /\ loop["heartbeat"] = "busy"
    BY <1>3 DEF HeartbeatMerges, Learn, procVars
  <2>2. main = "peerSync.Stop" /\ state = "up"
    BY <2>1 DEF OwedInv, OwedOnTheWay
  <2> QED BY <2>1, <2>2 DEF OwedInv
<1>4. ASSUME NEW l \in Loops, Ticks(l) \/ Ends(l) \/ Stops(l) PROVE OwedInv'
  <2>1. loop' \in [Loops -> {"waiting", "busy", "done"}]
    BY <1>4 DEF Ticks, Ends, Stops, OwedInv
  <2>2. loop["heartbeat"] = "done" => loop'["heartbeat"] = "done"
    BY <1>1, <1>4 DEF Ticks, Ends, Stops, OwedInv
  <2>3. main # "serving" \/ loop'["heartbeat"] # "busy"
    BY <1>1, <1>4 DEF Ticks, Ends, Stops, OwedInv
  <2> QED BY <1>2, <1>4, <2>1, <2>2, <2>3 DEF Ticks, Ends, Stops
<1>5. CASE Signal
  <2>1. /\ state = "up" /\ state' = "up" /\ mem' = mem /\ owed' = owed \cup mem
        /\ loop' \in [Loops -> {"waiting", "busy", "done"}]
        /\ main' = "peerSync.Stop" /\ mishaps' = mishaps
    BY <1>5 DEF Signal, vars, poolVars, procVars
  <2> QED BY <2>1 DEF OwedInv
<1>6. ASSUME NEW w \in Writers, CloseDNSPool(w) PROVE OwedInv'
  <2>1. /\ state = "up" /\ state' = "closing" /\ closer' = w /\ mem' = mem /\ loop' = loop
        /\ writer' = [writer EXCEPT ![w].at = "snapshot"] /\ mishaps' = mishaps
        /\ owed' = owed \cup mem /\ main' = "dnsPool.Close" /\ loop["heartbeat"] = "done"
    BY <1>1, <1>6 DEF CloseDNSPool, Close, Enter
  <2>2. writer'[w].at = "snapshot"
    BY <2>1 DEF WholeInv, PersistInv, PersistTypeOK, WriterStates
  <2>3. mishaps = {} => owed' \subseteq mem'
    BY <2>1 DEF OwedInv
  <2>4. OwedOnTheWay'
    BY <2>1, <2>2, <2>3 DEF OwedOnTheWay, OwedIsCarried
  <2> QED BY <2>1, <2>4 DEF OwedInv
<1>7. CASE CloseProbes
  BY <1>2, <1>7 DEF CloseProbes, OwedInv
<1>8. CASE Return \/ ServeEnds \/ Killed
  <2>1. state' = "down" /\ Gone
    BY <1>8 DEF Return, ServeEnds, Killed, Exit, Crash, Halt
  <2> QED BY <1>1, <2>1 DEF Gone, OwedInv
<1>9. CASE Restart
  <2>1. state = "down" /\ state' \in {"up", "nopool"} /\ UNCHANGED <<main, loop, owed>>
    BY <1>9 DEF Restart, Start, exitVars
  <2>2. main = "serving" /\ owed = {}
    BY <2>1 DEF OwedInv, OwedOnTheWay
  <2> QED BY <2>1, <2>2 DEF OwedInv
<1>10. CASE UNCHANGED nodeVars
  BY <1>2, <1>10 DEF nodeVars, exitVars, OwedInv
<1> QED BY <1>3, <1>4, <1>5, <1>6, <1>7, <1>8, <1>9, <1>10, ElsewhereOwes DEF NodeNext, Leaving

(* All that the pool had at the signal and at its close, and all that the  *)
(* heartbeat merged before it stopped, is in the file when main returns,   *)
(* with any writers beside Close, edits, kills and the poll, or one of the *)
(* mishaps has befallen this run of the program: the order of the deferred *)
(* calls is the right one.                                                 *)
THEOREM OwedIsSaved == NodeSpec => SavedAtExit
<1> DEFINE Inv == MainRuns /\ WholeInv /\ DurableInv /\ OwedInv
<1>1. NodeInit => Inv
  <2>1. NodeInit => OwedInv
    BY DEF NodeInit, Init, OwedInv, Loops, OfPeers
  <2> QED BY <2>1, WholeInitially, DurableInitially DEF NodeInit, MainRuns
<1>2. Inv /\ [NodeNext]_nodeVars => Inv'
  BY NodeIsPool, WholeStep, NextImplements, OwedStep DEF Implements
<1>3. Inv /\ [NodeNext]_nodeVars => [Return => owed \subseteq Stored \/ mishaps # {}]_nodeVars
  <2> SUFFICES ASSUME OwedInv, Return PROVE owed \subseteq Stored \/ mishaps # {}
    OBVIOUS
  <2>1. writer[closer] = Resting /\ OwedOnTheWay
    BY DEF Return, Exit, OwedInv
  <2> QED BY <2>1 DEF OwedOnTheWay, OwedIsCarried, Resting
<1> QED BY <1>1, <1>2, <1>3, PTL DEF NodeSpec, SavedAtExit
-----------------------------------------------------------------------------
(* The operator's tool, which truncates the file and writes it in place    *)
(* between any two steps of the program: it has a file open only if there  *)
(* is one.                                                                 *)
ToolStates == [at : {"idle", "open", "write"}, data : Contents, on : {"none", "file"}]

ToolInv == PersistInv /\ tool \in ToolStates /\ (tool.on = "file" => file # None)

(* A file once there is never taken away.                                  *)
LEMMA FileStays == PersistInv /\ Next /\ file # None => file' # None
<1> SUFFICES ASSUME PersistInv, Next, file # None PROVE file' # None
  OBVIOUS
<1>1. ASSUME NEW w \in Writers, Write(w) PROVE file' # None
  <2>1. CASE file' \in WriteOver(file, writer[w].data)
    BY <2>1, WriteOverFiles, FileIsSomething, TimesHave DEF PersistInv, PersistTypeOK, WriterStates
  <2>2. CASE UNCHANGED file
    BY <2>2
  <2> QED BY <1>1, <2>1, <2>2 DEF Write, diskVars
<1>2. ASSUME NEW w \in Writers, Persisting(w) PROVE file' # None
  BY <1>1, <1>2 DEF Persisting, Snapshot, Open, WriteFails, Rename, RenameFails, Remove,
                      Record, diskVars
<1>3. ASSUME NEW d \in Edits, Edit(d) PROVE file' # None
  <2>1. [data |-> d, mtime |-> now] \in Files
    BY <1>3, EditsAreContents, TimesHave DEF Files, Contents, PersistInv, PersistTypeOK
  <2> QED BY <1>3, <2>1, FileIsSomething DEF Edit
<1>4. CASE Reloading
  BY <1>4 DEF Reloading, Look, Stat, Read, Replace, Restat, diskVars
<1> QED BY <1>2, <1>3, <1>4 DEF Next, Learn, HalfASecond, Fire, PersistNow, Close,
      Crash, Exit, Halt, Start, Tick, diskVars

LEMMA ToolWritesFiles ==
    ASSUME ToolInv, ToolOpens \/ ToolWrites
    PROVE  file' \in Files \cup {None} /\ (file # None \/ ToolOpens => file' # None)
<1>1. /\ file \in Files \cup {None} /\ now \in Times /\ tool.data \in Contents
      /\ tool.on = "file" => file # None
  BY TimesHave DEF ToolInv, PersistInv, PersistTypeOK, ToolStates
<1>2. CASE ToolOpens
  <2>1. file' \in Files
    BY <1>1, <1>2 DEF ToolOpens, Files
  <2> QED BY <2>1, FileIsSomething
<1>3. CASE ToolWrites
  <2>1. CASE tool.on = "file"
    <3>1. file' \in WriteOver(file, tool.data) /\ file \in Files
      BY <1>1, <1>3, <2>1 DEF ToolWrites
    <3>2. file' \in Files
      BY <1>1, <3>1, WriteOverFiles
    <3> QED BY <3>1, <3>2, FileIsSomething
  <2>2. CASE tool.on # "file"
    BY <1>1, <1>3, <2>2 DEF ToolWrites, ToolOpens
  <2> QED BY <2>1, <2>2
<1> QED BY <1>2, <1>3

LEMMA ToolStep == ToolInv /\ [ToolNext]_toolVars => ToolInv'
<1> SUFFICES ASSUME ToolInv, [ToolNext]_toolVars PROVE ToolInv'
  OBVIOUS
<1>1. ASSUME UNCHANGED vars PROVE PersistInv' /\ file' = file
  BY <1>1, StepKeepsInv DEF ToolInv, vars, diskVars
<1>2. CASE ToolReads
  <2>1. Stored \cup Added \in Contents
    BY AddedAreUpdates DEF Stored, Contents, ToolInv, PersistInv, PersistTypeOK, Files
  <2>2. tool' \in ToolStates /\ tool'.on = tool.on
    BY <1>2, <2>1 DEF ToolReads, ToolInv, ToolStates
  <2> QED BY <1>1, <1>2, <2>2 DEF ToolReads, ToolInv
<1>3. CASE ToolOpens \/ ToolWrites
  <2>1. file' \in Files \cup {None} /\ (file # None \/ ToolOpens => file' # None)
    BY <1>3, ToolWritesFiles
  <2>2. UNCHANGED <<poolVars, tmp, writer, reload, procVars, now>>
    BY <1>3 DEF ToolOpens, ToolWrites
  <2>6. mishaps' = mishaps \cup {"edited"}
    BY <1>3 DEF ToolOpens, ToolWrites, Also
  <2>3. PersistTypeOK'
    BY <2>1, <2>2, <2>6 DEF ToolInv, PersistInv, PersistTypeOK, poolVars, procVars
  <2>4. FileThere'
    BY <2>1, <2>2 DEF ToolInv, PersistInv, FileThere
  <2>5. tool' \in ToolStates /\ (tool'.on = "file" => file' # None)
    <3>1. CASE ToolOpens
      <4>1. tool' \in ToolStates
        BY <3>1 DEF ToolOpens, ToolInv, ToolStates
      <4> QED BY <2>1, <3>1, <4>1
    <3>2. CASE ToolWrites
      BY <3>2 DEF ToolWrites, NotRun, ToolStates, Contents
    <3> QED BY <1>3, <3>1, <3>2
  <2> QED BY <2>3, <2>4, <2>5 DEF ToolInv, PersistInv
<1>4. CASE Program
  <2>1. PersistInv'
    BY <1>4, StepKeepsInv DEF Program, ToolInv, NextOrEnd
  <2>2. tool' \in ToolStates /\ (tool'.on = "file" => tool.on = "file")
    BY <1>4 DEF Program, ToolInv, ToolStates
  <2> QED BY <1>4, <2>1, <2>2, FileStays DEF Program, ToolInv
<1>5. CASE UNCHANGED toolVars
  BY <1>1, <1>5 DEF toolVars, ToolInv
<1> QED BY <1>2, <1>3, <1>4, <1>5 DEF ToolNext

(* Whenever the tool truncates and writes the file in place, between two   *)
(* steps of writers, poll, crashes and restarts: what the pool loads of it *)
(* is a content that was written whole, never a truncated or mixed one.    *)
THEOREM ToolLeavesTypes == ToolSpec => []PersistTypeOK
<1>1. ToolInit => ToolInv
  <2>1. NotRun \in ToolStates /\ NotRun.on = "none"
    BY DEF NotRun, ToolStates, Contents
  <2> QED BY <2>1, InitInv DEF ToolInit, ToolInv
<1>2. ToolInv => PersistTypeOK
  BY DEF ToolInv, PersistInv
<1> QED BY <1>1, <1>2, ToolStep, PTL DEF ToolSpec
=============================================================================
