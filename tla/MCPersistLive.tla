---------------------------- MODULE MCPersistLive ----------------------------
(* What must happen to the pool's file at last: NodeExit from the signal   *)
(* to the end, UpdateTool with the tool beside the program.  Each is       *)
(* explored while the other rests.                                         *)
EXTENDS NodeExit, UpdateTool

CONSTANTS u1, u2, w1

MCUpdates == {u1, u2}
MCAdded == {u2}
OneEdit == {{u2}}

VARIABLE explored

MCVars == <<vars, exitVars, tool, explored>>

MCInit == NodeInit /\ tool = NotRun /\ now = 2 /\ explored \in {"exit", "tool"}

(* The exit has no use for edits, nor for the clock, which only the poll   *)
(* looks at.  Beside the tool, which adds u2, and an editor who writes u2, *)
(* the program learns u1 and does not exit.                                *)
MCNext ==
    /\ UNCHANGED explored
    /\ \/ /\ explored = "exit"
          /\ NodeNext /\ now' = now /\ "edited" \notin mishaps'
          /\ UNCHANGED tool
       \/ /\ explored = "tool"
          /\ ToolNext /\ ~Learn(u2) /\ closer' = None
          /\ UNCHANGED exitVars

(* NodeScheduling contains what ToolScheduling assumes of the program, but *)
(* for its exit; the tool rests while the exit is explored.                *)
MCSpec ==
    /\ MCInit /\ [][MCNext]_MCVars
    /\ NodeScheduling
    /\ WF_toolVars(ToolOpens \/ ToolWrites)
=============================================================================
