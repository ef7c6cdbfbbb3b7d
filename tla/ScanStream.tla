----------------------------- MODULE ScanStream -----------------------------
(***************************************************************************)
(* The WebSocket stream of a scan (scan_ws, app/api/routes/scans.py) over  *)
(* a scan document that behaves as ScanRecord promises.  The stream polls: *)
(* one find_one per round, then a status message, the log lines it has not *)
(* sent, and a closing message when the state it read is terminal; the     *)
(* document moves on between the sends.                                    *)
(***************************************************************************)
EXTENDS ScanRecord, Integers, Sequences

CONSTANTS Streams,          \* WebSocket connections
          MaxLogs           \* bound: log lines of a scan

VARIABLES
    logs,                   \* [Scans -> log lines on the document]
    verdictLogs,            \* lines of the document when the verdict was first written
    conn                    \* [Streams -> connection]

streamVars == <<state, life, logs, verdictLogs, conn>>

_TERMINAL == {"COMPLETED", "FAILED", "CANCELLED"}

\* got: the line numbers the client has received; last: last_log_count; read, lines:
\* the state and the number of lines of this round's document; told: how it closed.
NoConn == [pc |-> "idle", got |-> <<>>, last |-> 0, read |-> "ABSENT", lines |-> 0,
           told |-> "none"]

StreamInit == /\ RecordInit
              /\ logs = [s \in Scans |-> 0]
              /\ verdictLogs = [s \in Scans |-> [v \in Outcomes |-> 0]]
              /\ conn = [c \in Streams \X Scans |-> NoConn]

\* $set and $push are one update_one: the line arrives with the state.
Push(s) == /\ logs[s] < MaxLogs
           /\ logs' = [logs EXCEPT ![s] = IF state[s] = "ABSENT" THEN @ ELSE @ + 1]

\* The number of lines that goes with verdict v, kept from its first write.
Note(s, v, n) == verdictLogs' = [verdictLogs EXCEPT ![s][v] = IF @ = 0 THEN n ELSE @]

\* Mutant: the verdict is set first and its log line left to _append_logs.
WriteVerdict_line_later(s) ==
    /\ \/ Complete(s) /\ Note(s, "COMPLETED", logs[s] + 1)
       \/ Fail(s) /\ Note(s, "FAILED", logs[s] + 1)
    /\ logs[s] < MaxLogs
    /\ UNCHANGED logs

WriteVerdict(s) == /\ \/ Complete(s) /\ Note(s, "COMPLETED", logs[s] + 1)
                      \/ Fail(s) /\ Note(s, "FAILED", logs[s] + 1)
                   /\ Push(s)

WriteState(s) == /\ Begin(s) \/ Cancel(s)
                 /\ Push(s)
                 /\ UNCHANGED verdictLogs

\* _append_logs and progress updates: the worker's, or a heartbeat's that lands late.
_append_logs(s) == /\ life[s] \notin {"new", "queued"}
                   /\ Push(s)
                   /\ UNCHANGED <<state, life, verdictLogs>>

SilentStep(s) == /\ Insert(s) \/ Raise(s) \/ Abandon(s) \/ Delete(s)
                 /\ UNCHANGED <<logs, verdictLogs>>

Writer == /\ \/ \E s \in Scans : WriteVerdict(s) \/ WriteState(s) \/ _append_logs(s)
                                 \/ SilentStep(s)
             \/ Crash /\ UNCHANGED <<logs, verdictLogs>>
          /\ UNCHANGED conn

document == <<state, life, logs, verdictLogs>>

\* The token, the user and the access to the scan are checked; then accept().
Accept(c) == /\ conn[c].pc = "idle"
             /\ state[c[2]] # "ABSENT"
             /\ conn' = [conn EXCEPT ![c].pc = "poll"]
             /\ UNCHANGED document

\* find_one; without a document the client gets an error and the stream ends.
Poll(c) ==
    /\ conn[c].pc = "poll"
    /\ conn' = [conn EXCEPT ![c] =
          IF state[c[2]] = "ABSENT" THEN [@ EXCEPT !.pc = "closed", !.told = "error"]
          ELSE [@ EXCEPT !.pc = "status", !.read = state[c[2]], !.lines = logs[c[2]]]]
    /\ UNCHANGED document

SendStatus(c) == /\ conn[c].pc = "status"
                 /\ conn' = [conn EXCEPT ![c].pc = "lines"]
                 /\ UNCHANGED document

\* Mutant: last_log_count is not moved on.
SendLogs_resends(c) ==
    /\ conn[c].pc = "lines"
    /\ conn' = [conn EXCEPT ![c].pc = "end",
                            ![c].got = @ \o [i \in 1..(conn[c].lines - conn[c].last) |->
                                                conn[c].last + i]]
    /\ UNCHANGED document

\* logs[last_log_count:], if there are any.
SendLogs(c) ==
    /\ conn[c].pc = "lines"
    /\ conn' = [conn EXCEPT ![c].pc = "end",
                            ![c].last = conn[c].lines,
                            ![c].got = @ \o [i \in 1..(conn[c].lines - conn[c].last) |->
                                                conn[c].last + i]]
    /\ UNCHANGED document

\* Mutant: the terminal state of a cancelled scan is missing from _TERMINAL.
EndRound_polls_cancelled(c) ==
    /\ conn[c].pc = "end"
    /\ conn' = [conn EXCEPT ![c] =
          IF @.read \in {"COMPLETED", "FAILED"}
          THEN [@ EXCEPT !.pc = "closed", !.told = conn[c].read] ELSE [@ EXCEPT !.pc = "poll"]]
    /\ UNCHANGED document

\* The closing message, or half a second of sleep and the next round.
EndRound(c) ==
    /\ conn[c].pc = "end"
    /\ conn' = [conn EXCEPT ![c] =
          IF @.read \in _TERMINAL THEN [@ EXCEPT !.pc = "closed", !.told = conn[c].read]
                                  ELSE [@ EXCEPT !.pc = "poll"]]
    /\ UNCHANGED document

\* WebSocketDisconnect, or any exception, at a send or an await.
Disconnect(c) == /\ conn[c].pc \in {"poll", "status", "lines", "end"}
                 /\ conn' = [conn EXCEPT ![c].pc = "closed", ![c].told = "gone"]
                 /\ UNCHANGED document

Round(c) == Poll(c) \/ SendStatus(c) \/ SendLogs(c) \/ EndRound(c)

StreamNext == \/ Writer
              \/ \E c \in Streams \X Scans : Accept(c) \/ Round(c) \/ Disconnect(c)

StreamSpec == StreamInit /\ [][StreamNext]_streamVars

\* asyncio resumes a sleeping handler; the writer owes the stream nothing.
FairStreamSpec == /\ StreamSpec
                  /\ \A c \in Streams \X Scans : WF_streamVars(Round(c))

-----------------------------------------------------------------------------
\* The client receives the log from its first line on, in order, no line twice and
\* none left out, however writes fall between the rounds.
LogsInOrder == \A c \in Streams \X Scans :
                  \A i \in DOMAIN conn[c].got : conn[c].got[i] = i

\* A client told that the scan completed or failed has the log up to the line written
\* with that verdict: the stream never closes on a verdict with its line still unsent.
ClosedWithWholeLog ==
    \A c \in Streams \X Scans :
       conn[c].told \in Outcomes => /\ verdictLogs[c[2]][conn[c].told] > 0
                                    /\ Len(conn[c].got) >= verdictLogs[c[2]][conn[c].told]

\* A scan that is over closes its streams.
StreamsEnd ==
    \A c \in Streams \X Scans :
       (/\ conn[c].pc \notin {"idle", "closed"}
        /\ life[c[2]] = "judged"
        /\ state[c[2]] \in _TERMINAL \cup {"ABSENT"})
       ~> conn[c].pc = "closed"
=============================================================================
