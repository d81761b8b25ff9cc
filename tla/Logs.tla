-------------------------------- MODULE Logs --------------------------------
(***************************************************************************)
(* One server's logs: a session's rotating file under .remindb/logs and the *)
(* ring of recent records behind remindb://logs.  A log call goes down the  *)
(* chain of slog handlers: first to the session's file if it is captured,   *)
(* then, if the shared stream lets its level through, to the ring.  Calls   *)
(* of several goroutines, a client that reads the file line by line, and a  *)
(* console that reads the ring come in between.                            *)
(*                                                                         *)
(* A file is an inode; `active` and `older` are the two names of the        *)
(* session's log.  A line is its record's number and its length.  A write   *)
(* of one line is one step, as the file system does it; one that fails      *)
(* leaves nothing.  MaxRecord, MaxFailures and MaxCrashes bound a behaviour. *)
(***************************************************************************)
EXTENDS Integers, Sequences, SequencesExt, FiniteSetsExt

CONSTANTS
  Goroutine,
  Size,          \* the lengths of lines
  MaxFileSize,   \* the cap on a file; none if it is not positive
  BufferSize,    \* the capacity of the ring
  None,
  MaxRecord,
  MaxFailures,
  MaxCrashes

ASSUME LogAssumption ==
  /\ Size \subseteq Nat \ {0}
  /\ MaxFileSize \in Int
  /\ BufferSize \in Nat \ {0}
  /\ None \notin Nat /\ None \notin Goroutine
  /\ MaxRecord \in Nat /\ MaxFailures \in Nat /\ MaxCrashes \in Nat

VARIABLES
  content,       \* the lines of each inode
  active,        \* the inode of <id>.log, or None
  older,         \* the inode of <id>.log.1, or None
  holder,        \* the goroutine that holds Sink.mu, or None
  call,          \* each goroutine's log call
  ring,          \* the log buffer: its slots, next, count and dropped
  reader,        \* a client that reads sessions/logs/{id}
  console,       \* a client that reads remindb://logs
  appended,      \* history variable: the lines written, in order
  buffered,      \* history variable: the records put in the ring since the start
  made, failures, crashes

files == <<content, active, older>>
clients == <<reader, console>>
bounds == <<made, failures, crashes>>
vars == <<files, holder, call, ring, clients, appended, buffered, bounds>>

Bytes(lines) ==
  LET total[i \in 0..Len(lines)] == IF i = 0 THEN 0 ELSE total[i - 1] + lines[i].size
  IN  total[Len(lines)]

LinesOf(inode) == IF inode = None THEN <<>> ELSE content[inode]

Idle == [at |-> "idle"]

NewBuffer ==
  [slots |-> [i \in 0..(BufferSize - 1) |-> None], next |-> 0, count |-> 0, dropped |-> 0]

-----------------------------------------------------------------------------
(* The session's file.                                                     *)

At(g, step) == call[g].at = step

Goes(g, step) == call' = [call EXCEPT ![g].at = step]

\* A log call: captured by the session file, let through to the shared stream, or both.
Log(g) ==
  /\ At(g, "idle")
  /\ made < MaxRecord
  /\ made' = made + 1
  /\ \E size \in Size, captured, enabled \in BOOLEAN :
       /\ captured \/ enabled
       /\ call' = [call EXCEPT ![g] =
            [at |-> IF captured THEN "lock" ELSE "ring", enabled |-> enabled,
             line |-> [n |-> made + 1, size |-> size], file |-> None]]
  /\ UNCHANGED <<files, holder, ring, clients, appended, buffered, failures, crashes>>

Lock(g) ==
  /\ At(g, "lock")
  /\ holder = None
  /\ holder' = g
  /\ Goes(g, "rotate")
  /\ UNCHANGED <<files, ring, clients, appended, buffered, bounds>>

\* Mutant: a file just created, still empty, is over the cap too.
OverCapEvenEmpty(line) ==
  /\ MaxFileSize > 0
  /\ active # None
  /\ Bytes(content[active]) + line.size > MaxFileSize

OverCap(line) ==
  /\ MaxFileSize > 0
  /\ active # None
  /\ content[active] # <<>>
  /\ Bytes(content[active]) + line.size > MaxFileSize

\* Mutant: rotation copies the lines and truncates the file.
RenameByCopy ==
  LET copy == Len(content) + 1 IN
  /\ older' = copy
  /\ content' = Append([content EXCEPT ![active] = <<>>], content[active])
  /\ UNCHANGED active

\* The older name now means the active file; the inode it meant is discarded.
Rename ==
  /\ older' = active
  /\ active' = None
  /\ UNCHANGED content

Rotate(g) ==
  /\ At(g, "rotate")
  /\ IF OverCap(call[g].line) THEN Rename ELSE UNCHANGED files
  /\ Goes(g, "open")
  /\ UNCHANGED <<holder, ring, clients, appended, buffered, bounds>>

\* The active file is opened for appending, created if the name is free.
Open(g) ==
  /\ At(g, "open")
  /\ active' = IF active = None THEN Len(content) + 1 ELSE active
  /\ content' = IF active = None THEN Append(content, <<>>) ELSE content
  /\ call' = [call EXCEPT ![g].at = "write", ![g].file = active']
  /\ UNCHANGED <<older, holder, ring, clients, appended, buffered, bounds>>

\* The mutex goes, and the call moves on to the shared stream.
Release(g) ==
  /\ holder' = None
  /\ call' = [call EXCEPT ![g] = IF call[g].enabled THEN [@ EXCEPT !.at = "ring"] ELSE Idle]

Write(g) ==
  /\ At(g, "write")
  /\ content' = [content EXCEPT ![call[g].file] = Append(@, call[g].line)]
  /\ appended' = Append(appended, call[g].line)
  /\ Release(g)
  /\ UNCHANGED <<active, older, ring, clients, buffered, bounds>>

\* A rename, an open or a write fails: Handle ignores it.
Fail(g) ==
  /\ \E step \in {"rotate", "open", "write"} : At(g, step)
  /\ failures < MaxFailures
  /\ failures' = failures + 1
  /\ Release(g)
  /\ UNCHANGED <<files, ring, clients, appended, buffered, made, crashes>>

-----------------------------------------------------------------------------
(* The ring.                                                               *)

\* Mutant: the ring counts as full only beyond its size.
PutOffByOne(r) ==
  ring' = [slots   |-> [ring.slots EXCEPT ![ring.next] = r],
           next    |-> (ring.next + 1) % BufferSize,
           count   |-> Min({ring.count + 1, BufferSize}),
           dropped |-> IF ring.count > BufferSize THEN ring.dropped + 1 ELSE ring.dropped]

Put(r) ==
  ring' = [slots   |-> [ring.slots EXCEPT ![ring.next] = r],
           next    |-> (ring.next + 1) % BufferSize,
           count   |-> Min({ring.count + 1, BufferSize}),
           dropped |-> IF ring.count = BufferSize THEN ring.dropped + 1 ELSE ring.dropped]

Buffer(g) ==
  /\ At(g, "ring")
  /\ Put(call[g].line.n)
  /\ buffered' = Append(buffered, call[g].line.n)
  /\ call' = [call EXCEPT ![g] = Idle]
  /\ UNCHANGED <<files, holder, clients, appended, bounds>>

\* Oldest first: from the start until the ring is full, and then from the next slot.
Records ==
  LET oldest == IF ring.count < BufferSize THEN 0 ELSE ring.next
  IN  [i \in 1..ring.count |-> ring.slots[(oldest + i - 1) % BufferSize]]

-----------------------------------------------------------------------------
(* Readers.                                                                *)

\* HandleLogs: the records, and the count of the dropped ones by a second call.
ReadRecords ==
  /\ console.at = "idle"
  /\ console' = [at |-> "records", records |-> Records, dropped |-> 0, of |-> buffered]
  /\ UNCHANGED <<files, holder, call, ring, reader, appended, buffered, bounds>>

ReadDropped ==
  /\ console.at = "records"
  /\ console' = [console EXCEPT !.at = "answered", !.dropped = ring.dropped]
  /\ UNCHANGED <<files, holder, call, ring, reader, appended, buffered, bounds>>

Leave ==
  \/ /\ console.at = "answered"
     /\ console' = Idle
     /\ UNCHANGED <<files, holder, call, ring, reader, appended, buffered, bounds>>
  \/ /\ reader.at = "answered"
     /\ reader' = Idle
     /\ UNCHANGED <<files, holder, call, ring, console, appended, buffered, bounds>>

\* HandleSessionsLogByID: without the active file the session is unknown.
OpenLog ==
  /\ reader.at = "idle"
  /\ active # None
  /\ reader' = [at |-> "reading", file |-> active, entries |-> <<>>, since |-> Len(appended)]
  /\ UNCHANGED <<files, holder, call, ring, console, appended, buffered, bounds>>

\* ParseLog scans the file it opened, whatever its name has become, to its end.
Scan ==
  /\ reader.at = "reading"
  /\ LET next == Len(reader.entries) + 1 IN
     reader' =
       IF next <= Len(content[reader.file])
         THEN [reader EXCEPT !.entries = Append(@, content[reader.file][next])]
         ELSE [reader EXCEPT !.at = "answered"]
  /\ UNCHANGED <<files, holder, call, ring, console, appended, buffered, bounds>>

-----------------------------------------------------------------------------
\* The server dies and starts again: files stay, the ring and every call go.
Crash ==
  /\ crashes < MaxCrashes
  /\ crashes' = crashes + 1
  /\ holder' = None
  /\ call' = [g \in Goroutine |-> Idle]
  /\ ring' = NewBuffer
  /\ buffered' = <<>>
  /\ reader' = Idle
  /\ console' = Idle
  /\ UNCHANGED <<files, appended, made, failures>>

Init ==
  /\ content = <<>>
  /\ active = None
  /\ older = None
  /\ holder = None
  /\ call = [g \in Goroutine |-> Idle]
  /\ ring = NewBuffer
  /\ reader = Idle
  /\ console = Idle
  /\ appended = <<>>
  /\ buffered = <<>>
  /\ made = 0 /\ failures = 0 /\ crashes = 0

Step(g) == Log(g) \/ Lock(g) \/ Rotate(g) \/ Open(g) \/ Write(g) \/ Fail(g) \/ Buffer(g)

Next ==
  \/ \E g \in Goroutine : Step(g)
  \/ ReadRecords \/ ReadDropped \/ OpenLog \/ Scan \/ Leave
  \/ Crash

Spec == Init /\ [][Next]_vars

-----------------------------------------------------------------------------
(* Properties.                                                             *)

\* A client's answer is a run of the session's lines in the order they were written, without a
\* gap and up to date when it asked, although the file it reads grows and is renamed meanwhile.
ReadsInOrder ==
  reader.at = "answered" =>
    \E i \in 1..(reader.since + 1) : \E j \in reader.since..Len(appended) :
       reader.entries = SubSeq(appended, i, j)

\* The two files hold the last lines written, in order, and never none of them: whatever fails
\* or crashes between the steps of a rotation, and however long lines are.  A file over the cap
\* holds nothing but one line that is longer than it.
TailKept ==
  LET kept == LinesOf(older) \o LinesOf(active) IN
  /\ IsSuffix(kept, appended)
  /\ appended # <<>> => kept # <<>>
  /\ MaxFileSize > 0 => \A f \in {active, older} :
       Bytes(LinesOf(f)) <= MaxFileSize \/ Len(LinesOf(f)) = 1

\* A console is shown the newest records, oldest first, and is told of every record that is
\* missing: "a non-zero value tells a console it is not showing the full history".
MissingTold ==
  console.at = "answered" =>
    /\ IsSuffix(console.records, console.of)
    /\ Len(console.of) - Len(console.records) <= console.dropped
=============================================================================
