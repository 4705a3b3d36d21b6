----------------------------- MODULE TaskHandles -----------------------------
(***************************************************************************)
(* mcp_tasks.py: the handle by which a client polls and cancels one        *)
(* headless child, kept apart from the row of the child.  Its pid has been *)
(* recorded; for a child without one see CloseIdle of SpawnTasks.          *)
(*                                                                         *)
(* Requests run in several servers.  Each reads the handle and the row one *)
(* after the other and writes the handle by id, whatever it is by then.    *)
(* The row is closed by the exit recorder, by a status reader or by        *)
(* task_kill (SpawnTasks), and deleted by retention.py.                    *)
(***************************************************************************)
EXTENDS Naturals

CONSTANTS Client,          \* requests that may run at a time
          MaxHandleFaults  \* bound of requests whose server dies

ASSUME HandleAssumption == MaxHandleFaults \in Nat

VARIABLES
  work,     \* the child's process: runs or over
  record,   \* the row of tasks: open, ended or gone
  handle,   \* the row of mcp_task_handles; status none before it is made
  request,  \* request[c]: where a request is
  view,     \* view[c]: the handle as it has read it
  outcome,  \* outcome[c]: the status that it writes, or whether it killed
  handleFaults

handleVars == <<work, record, handle, request, view, outcome, handleFaults>>

NoHandle == [status |-> "none", requested |-> FALSE, accepted |-> FALSE]
Final    == {"completed", "cancelled", "failed"}

HandleInit ==
  /\ work = "runs"
  /\ record = "open"
  /\ handle = NoHandle
  /\ request = [c \in Client |-> "idle"]
  /\ view = [c \in Client |-> NoHandle]
  /\ outcome = [c \in Client |-> "none"]
  /\ handleFaults = 0

\* _create_task: after the spawn, which may be over by then.
CreateTask ==
  /\ handle.status = "none" /\ record # "gone"
  /\ handle' = [handle EXCEPT !.status = "working"]
  /\ UNCHANGED <<work, record, request, view, outcome, handleFaults>>

Go(c, where, what) ==
  /\ request' = [request EXCEPT ![c] = where]
  /\ outcome' = [outcome EXCEPT ![c] = what]

-----------------------------------------------------------------------------
(* tasks/get. *)

\* Mutation of Reaped: a row is left to the exit recorder.
ReapedNever == record

\* _refresh_tasks closes the row of a process that is gone.
Reaped == IF record = "open" /\ work = "over" THEN "ended" ELSE record

Poll(c) ==
  /\ request[c] = "idle" /\ handle.status # "none"
  /\ record' = Reaped
  /\ Go(c, "read", "none")
  /\ UNCHANGED <<work, handle, view, handleFaults>>

\* _owned_row.
ReadHandle(c) ==
  /\ request[c] = "read"
  /\ view' = [view EXCEPT ![c] = handle]
  /\ Go(c, "judge", "none")
  /\ UNCHANGED <<work, record, handle, handleFaults>>

\* Mutation of Verdict: a final status is not looked at again.
VerdictFinal(v) ==
  IF v.status \in Final THEN v.status
  ELSE IF record = "gone" THEN "failed"
  ELSE IF record = "open" THEN "working"
  ELSE IF v.accepted THEN "cancelled" ELSE "completed"

\* Mutation of Verdict: an accepted cancellation is the end of the task.
VerdictEarly(v) ==
  IF record = "gone" THEN "failed"
  ELSE IF v.status = "cancelled" \/ v.accepted THEN "cancelled"
  ELSE IF record = "open" THEN "working" ELSE "completed"

\* _sync_status: what a handle that was read as v should say.
Verdict(v) ==
  IF record = "gone" THEN "failed"
  ELSE IF v.status = "cancelled" THEN "cancelled"
  ELSE IF record = "open" THEN "working"
  ELSE IF v.accepted THEN "cancelled" ELSE "completed"

\* The row is read and, if it is final and new, a status is on its way.
Judge(c) ==
  /\ request[c] = "judge"
  /\ LET status == Verdict(view[c])
     IN  IF status \in Final \ {view[c].status} THEN Go(c, "write", status)
                                                ELSE Go(c, "idle", "none")
  /\ UNCHANGED <<work, record, handle, view, handleFaults>>

\* _update_terminal.
UpdateTerminal(c) ==
  /\ request[c] = "write"
  /\ handle' = [handle EXCEPT !.status = outcome[c]]
  /\ Go(c, "idle", "none")
  /\ UNCHANGED <<work, record, view, handleFaults>>

-----------------------------------------------------------------------------
(* tasks/cancel: _request_cancel. *)

Cancel(c) ==
  /\ request[c] = "idle" /\ handle.status = "working" /\ ~handle.requested
  /\ view' = [view EXCEPT ![c] = handle]
  /\ Go(c, "kill", "none")
  /\ UNCHANGED <<work, record, handle, handleFaults>>

\* task_kill: a signal, which the child may ignore, or the end of a row whose
\* process is gone; nothing, if the row was closed before or the system refuses.
TaskKill(c) ==
  /\ request[c] = "kill"
  /\ \/ record = "open" /\ record' = Reaped /\ Go(c, "note", "killed")
     \/ /\ record # "open" \/ work = "runs"
        /\ UNCHANGED record /\ Go(c, "note", "none")
  /\ UNCHANGED <<work, handle, view, handleFaults>>

\* The answer of the kill replaces that of another request.
NoteCancel(c) ==
  /\ request[c] = "note"
  /\ handle' = [handle EXCEPT !.requested = TRUE, !.accepted = outcome[c] = "killed"]
  /\ Go(c, "idle", "none")
  /\ UNCHANGED <<work, record, view, handleFaults>>

\* The server ends, and the request with it.
Drop(c) ==
  /\ request[c] # "idle"
  /\ handleFaults < MaxHandleFaults
  /\ handleFaults' = handleFaults + 1
  /\ Go(c, "idle", "none")
  /\ UNCHANGED <<work, record, handle, view>>

-----------------------------------------------------------------------------
\* The child ends by itself, by the signal or by the watchdog.
WorkEnds ==
  /\ work = "runs"
  /\ work' = "over"
  /\ UNCHANGED <<record, handle, request, view, outcome, handleFaults>>

\* The exit recorder, unless its write fails.
RecordExit ==
  /\ work = "over" /\ record = "open"
  /\ record' = "ended"
  /\ UNCHANGED <<work, handle, request, view, outcome, handleFaults>>

\* Retention deletes rows of tasks, and no handles.
Retire ==
  /\ record = "ended"
  /\ record' = "gone"
  /\ UNCHANGED <<work, handle, request, view, outcome, handleFaults>>

Serve(c) ==
  \/ ReadHandle(c) \/ Judge(c) \/ UpdateTerminal(c)
  \/ TaskKill(c) \/ NoteCancel(c)

HandleNext ==
  \/ CreateTask \/ WorkEnds \/ RecordExit \/ Retire
  \/ \E c \in Client : Poll(c) \/ Cancel(c) \/ Serve(c) \/ Drop(c)

\* The client polls every five seconds, a request takes a finite time, and a
\* child ends, in the last resort by the watchdog.
HandleFairness ==
  /\ WF_handleVars(\E c \in Client : Poll(c))
  /\ \A c \in Client : WF_handleVars(Serve(c))
  /\ WF_handleVars(WorkEnds)

HandleSpec == HandleInit /\ [][HandleNext]_handleVars /\ HandleFairness

-----------------------------------------------------------------------------
HandleTypeOK ==
  /\ work \in {"runs", "over"}
  /\ record \in {"open", "ended", "gone"}
  /\ handle \in [status : {"none", "working"} \cup Final, requested : BOOLEAN, accepted : BOOLEAN]
  /\ request \in [Client -> {"idle", "read", "judge", "write", "kill", "note"}]
  /\ view \in [Client -> [status : {"none", "working"} \cup Final,
                          requested : BOOLEAN, accepted : BOOLEAN]]
  /\ outcome \in [Client -> {"none", "killed"} \cup Final]
  /\ handleFaults \in Nat

\* README.md, "cooperative cancellation": a client that sees a final status may
\* use what the child left, whoever wrote the status and when; the child is over.
FinalIsOver == handle.status \in Final => work = "over"

\* A handle does not stay at work when the child is over, also when nobody
\* recorded its exit, its row is gone, or the server that knew it has died.
HandleSettles == handle.status = "working" ~> [](handle.status \in Final)

\* A cancellation that was accepted has the last word: a reader that had not
\* seen it may write that the task completed, but that does not stay.
CancelPrevails == <>[](handle.accepted => handle.status \in {"cancelled", "failed"})
=============================================================================
