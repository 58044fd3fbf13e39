------------------------------ MODULE UpdateTool ------------------------------
(***************************************************************************)
(* tools/update_dns_pool.go, which an operator runs beside the program     *)
(* (DNSPersist): it reads the pool's file, adds addresses and writes the   *)
(* file in place, without the temporary file the program uses.             *)
(***************************************************************************)
EXTENDS DNSPersist

CONSTANT Added             \* what the command line says to add

ASSUME AddedAreUpdates == Added \in SUBSET Updates

VARIABLE tool              \* where it is, what it writes, if to the file

toolVars == <<vars, tool>>

NotRun == [at |-> "idle", data |-> {}, on |-> "none"]

ToolInit == Init /\ tool = NotRun

-----------------------------------------------------------------------------
(* A file that cannot be parsed is taken for an empty one.                 *)
ToolReads ==
    /\ tool.at = "idle"
    /\ tool' = [tool EXCEPT !.at = "open", !.data = Stored \cup Added]
    /\ UNCHANGED vars

(* os.WriteFile truncates the file ...                                     *)
ToolOpens ==
    /\ tool.at = "open"
    /\ file' = [data |-> Blank, mtime |-> now]
    /\ tool' = [tool EXCEPT !.at = "write", !.on = "file"]
    /\ Also("edited", TRUE)
    /\ UNCHANGED <<poolVars, tmp, writer, reload, procVars, now>>

(* ... and writes it, unless the program has renamed another over it.      *)
ToolWrites ==
    /\ tool.at = "write"
    /\ IF tool.on = "file" THEN file' \in WriteOver(file, tool.data) ELSE UNCHANGED file
    /\ tool' = NotRun
    /\ Also("edited", TRUE)
    /\ UNCHANGED <<poolVars, tmp, writer, reload, procVars, now>>

Replaced == (\E w \in Writers : Rename(w)) \/ \E d \in Edits : Edit(d)

Program ==
    /\ Next
    /\ tool' = IF Replaced THEN [tool EXCEPT !.on = "none"] ELSE tool

ToolNext == ToolReads \/ ToolOpens \/ ToolWrites \/ Program

(* As in DNSPersist, and the tool comes to its end.                        *)
ToolScheduling ==
    /\ WF_vars(HalfASecond) /\ WF_vars(\E w \in Writers : Fire(w))
    /\ \A w \in Writers : WF_vars(Persisting(w))
    /\ WF_vars(Reloading)
    /\ WF_vars(Exit)
    /\ WF_toolVars(ToolOpens \/ ToolWrites)

ToolSpec == ToolInit /\ [][ToolNext]_toolVars /\ ToolScheduling
=============================================================================
