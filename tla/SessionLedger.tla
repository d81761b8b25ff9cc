--------------------------- MODULE SessionLedger ---------------------------
(***************************************************************************)
(* The session registry of each serving process, and the ledger that the    *)
(* processes of one workspace keep in common: a file per client and          *)
(* transport, to which a flush appends one line per session with its counts  *)
(* so far, and which a process rewrites with one line per session when it    *)
(* starts.  Readers keep the last line of each session.                      *)
(*                                                                         *)
(* A connection is a session of the protocol library.  It has a client only  *)
(* once it is initialized; requests reach the registry before their handler, *)
(* and a session that is gone from the library's list has no handler left    *)
(* (the library waits for them).  Times other than the second a session is   *)
(* first seen at, which ids are made from, are left out: whether a line says *)
(* that the session has ended stands for its disconnect time.  A write of    *)
(* one line, or of the temporary file, is one step.                          *)
(*                                                                         *)
(* MaxConns, MaxCalls (tool calls of a connection), MaxLive (connections of  *)
(* a process at a time), MaxTime and MaxLines (lines of a file) are bounds.  *)
(***************************************************************************)
EXTENDS Naturals, Sequences, SequencesExt, FiniteSetsExt, Functions

CONSTANTS Process, Client, NoClient, MaxConns, MaxCalls, MaxTime, MaxLines, MaxLive

ASSUME SessionLedgerAssumption ==
  /\ NoClient \notin Client
  /\ {MaxConns, MaxCalls, MaxTime, MaxLines, MaxLive} \subseteq Nat

Transport == {"stdio", "http"}
Conn == 1 .. MaxConns
File == (Client \cup {NoClient}) \X Transport

VARIABLES
  now,         \* the clock, in seconds
  conns,       \* every connection made so far
  phase,       \* of each process
  transport,   \* of each process
  todo,        \* the files a starting process has still to compact
  job,         \* the file it compacts and the lines it has read, at most one
  registry,    \* Registry.sessions of each process
  pending,     \* the records of its flush still to append
  files,       \* the lines of each file
  tmp,         \* the temporary file of each file: at most one content
  acked,       \* history variable: the last record appended for each connection
  cut          \* history variable: its process stopped, or an append of it failed,
               \* before it was recorded as ended

vars == <<now, conns, phase, transport, todo, job, registry, pending, files, tmp, acked, cut>>
procVars == <<phase, transport, todo, job>>

-----------------------------------------------------------------------------
\* What the lines of a file say

\* bySession: the last line of a session replaces the ones before it.
Latest(lines, id) == lines[Max({i \in DOMAIN lines : lines[i].id = id})]

\* Mutant: every line is a session.
EveryLine(lines) == ToSet(lines)

LatestPerSession(lines) == {Latest(lines, id) : id \in {lines[i].id : i \in DOMAIN lines}}

Sessions(lines) == Cardinality(LatestPerSession(lines))

ToolCalls(lines) == MapThenSumSet(LAMBDA r : r.calls, LatestPerSession(lines))

FileName(r) == <<r.client, r.transport>>

-----------------------------------------------------------------------------
\* The registry

Live(p) == {c \in DOMAIN conns : conns[c].proc = p /\ conns[c].live}

\* http connections have ids of their own; over stdio it is made from the second.
IdOf(p, c, at) == IF transport[p] = "http" THEN <<c, "http">> ELSE <<at, "stdio">>

Fresh == [id |-> <<>>, client |-> NoClient, at |-> now, calls |-> 0]

MetaOf(p, c) == IF c \in DOMAIN registry[p] THEN registry[p][c] ELSE Fresh

\* The entry of a live session, with the id and the client it has by now.
Refreshed(p, c) ==
  [MetaOf(p, c) EXCEPT !.id = IdOf(p, c, MetaOf(p, c).at), !.client = conns[c].client]

Entered(p, c, m) == [x \in DOMAIN registry[p] \cup {c} |-> IF x = c THEN m ELSE registry[p][x]]

RecordOf(p, m, ended) ==
  [id |-> m.id, client |-> m.client, transport |-> transport[p], calls |-> m.calls, ended |-> ended]

-----------------------------------------------------------------------------
\* Connections

Serving(p) == phase[p] \in {"up", "stopping", "flushed"}

\* Over stdio a process serves the one client that started it.
Connect(p) ==
  /\ phase[p] = "up"
  /\ Len(conns) < MaxConns /\ Cardinality(Live(p)) < MaxLive
  /\ transport[p] = "stdio" => Live(p) = {}
  /\ conns' = Append(conns, [proc |-> p, transport |-> transport[p], client |-> NoClient,
                             calls |-> 0, live |-> TRUE])
  /\ UNCHANGED <<now, procVars, registry, pending, files, tmp, acked, cut>>

Observe(p, c, call) ==
  registry' = [registry EXCEPT ![p] =
    Entered(p, c, [Refreshed(p, c) EXCEPT !.calls = IF call THEN @ + 1 ELSE @])]

\* initialize passes the registry before the library keeps who the client is.
Initialize(p, c) ==
  /\ Serving(p) /\ c \in Live(p)
  /\ conns[c].client = NoClient
  /\ \E k \in Client : conns' = [conns EXCEPT ![c].client = k]
  /\ Observe(p, c, FALSE)
  /\ UNCHANGED <<now, procVars, pending, files, tmp, acked, cut>>

CallTool(p, c) ==
  /\ Serving(p) /\ c \in Live(p)
  /\ conns[c].client # NoClient /\ conns[c].calls < MaxCalls
  /\ conns' = [conns EXCEPT ![c].calls = @ + 1]
  /\ Observe(p, c, TRUE)
  /\ UNCHANGED <<now, procVars, pending, files, tmp, acked, cut>>

\* Any other request.
Request(p, c) ==
  /\ Serving(p) /\ c \in Live(p)
  /\ conns[c].client # NoClient
  /\ Observe(p, c, FALSE)
  /\ UNCHANGED <<now, conns, procVars, pending, files, tmp, acked, cut>>

\* A reader of the live sessions enters the ones that made no request yet.
Snapshot(p) ==
  /\ Serving(p)
  /\ registry' = [registry EXCEPT ![p] =
       [c \in DOMAIN registry[p] \cup Live(p) |-> MetaOf(p, c)]]
  /\ UNCHANGED <<now, conns, procVars, pending, files, tmp, acked, cut>>

\* The client leaves; a process that serves it over stdio stops.
Disconnect(p, c) ==
  /\ Serving(p) /\ c \in Live(p)
  /\ conns' = [conns EXCEPT ![c].live = FALSE]
  /\ phase' = IF transport[p] = "stdio" /\ phase[p] = "up" THEN [phase EXCEPT ![p] = "stopping"]
              ELSE phase
  /\ UNCHANGED <<now, transport, todo, job, registry, pending, files, tmp, acked, cut>>

-----------------------------------------------------------------------------
\* Flush

Entries(p) == [c \in DOMAIN registry[p] \cup Live(p) |->
                 IF c \in Live(p) THEN Refreshed(p, c) ELSE registry[p][c]]

\* Mutant: a session that is gone is dropped without a record.
RecordsOfLive(p) ==
  [c \in Live(p) |-> RecordOf(p, Entries(p)[c], FALSE)]

\* A session that is gone and was never observed has no id and leaves no record.
Records(p) ==
  [c \in {x \in DOMAIN Entries(p) : Entries(p)[x].id # <<>>} |->
     RecordOf(p, Entries(p)[c], c \notin Live(p))]

\* Whether a reader could tell a flush from none.
Says(r) == LET lines == files[FileName(r)] IN
           /\ \E i \in DOMAIN lines : lines[i].id = r.id
           /\ Latest(lines, r.id) = r

News(p) == \/ DOMAIN Entries(p) # Live(p)
           \/ \E c \in DOMAIN Records(p) : ~Says(Records(p)[c])

\* The part of Flush under the mutex.
Collect(p) ==
  /\ pending' = [pending EXCEPT ![p] = Records(p)]
  /\ registry' = [registry EXCEPT ![p] = Restrict(Entries(p), Live(p))]
  /\ UNCHANGED <<now, conns, transport, todo, job, files, tmp, acked, cut>>

\* The ticker; a flush that repeats what the files say is left out.
Flush(p) ==
  /\ phase[p] = "up" /\ pending[p] = <<>>
  /\ News(p)
  /\ Collect(p)
  /\ UNCHANGED phase

\* The flush when the context ends.
FinalFlush(p) ==
  /\ phase[p] = "stopping" /\ pending[p] = <<>>
  /\ phase' = [phase EXCEPT ![p] = "flushed"]
  /\ Collect(p)

Written(p, c) == [pending EXCEPT ![p] = Restrict(@, DOMAIN @ \ {c})]

\* Appends one record, in no particular order.
AppendRecord(p, c) ==
  LET r == pending[p][c]  f == FileName(r) IN
  /\ Len(files[f]) < MaxLines
  /\ files' = [files EXCEPT ![f] = Append(@, r)]
  /\ acked' = [acked EXCEPT ![c] = <<r>>]
  /\ pending' = Written(p, c)
  /\ UNCHANGED <<now, conns, procVars, registry, tmp, cut>>

\* A failure is logged; the record is not kept.
AppendFails(p, c) ==
  /\ pending' = Written(p, c)
  /\ cut' = IF pending[p][c].ended THEN cut \cup {c} ELSE cut
  /\ UNCHANGED <<now, conns, procVars, registry, files, tmp, acked>>

-----------------------------------------------------------------------------
\* Processes

\* ledger.New lists the files to compact.  Time passes between starts only: no other
\* session has an id made from it.
Start(p) ==
  /\ phase[p] = "down"
  /\ phase' = [phase EXCEPT ![p] = "starting"]
  /\ now' \in now .. MaxTime
  /\ todo' = [todo EXCEPT ![p] = {f \in File : files[f] # <<>>}]
  /\ UNCHANGED <<conns, transport, job, registry, pending, files, tmp, acked, cut>>

\* Mutant: only the sessions that have ended are kept.
CompactOfEnded(p) ==
  /\ phase[p] = "starting" /\ job[p] = <<>>
  /\ \E f \in todo[p] :
       /\ job' = [job EXCEPT ![p] =
            <<f, SetToSeq({r \in LatestPerSession(files[f]) : r.ended})>>]
       /\ todo' = [todo EXCEPT ![p] = @ \ {f}]
  /\ UNCHANGED <<now, conns, phase, transport, registry, pending, files, tmp, acked, cut>>

\* Reads a file; with one line per session their order is never looked at again.
CompactRead(p) ==
  /\ phase[p] = "starting" /\ job[p] = <<>>
  /\ \E f \in todo[p] :
       /\ job' = [job EXCEPT ![p] = <<f, SetToSeq(LatestPerSession(files[f]))>>]
       /\ todo' = [todo EXCEPT ![p] = @ \ {f}]
  /\ UNCHANGED <<now, conns, phase, transport, registry, pending, files, tmp, acked, cut>>

\* Writes the temporary file, the same one for every process.
CompactWrite(p) ==
  /\ Len(job[p]) = 2
  /\ tmp' = [tmp EXCEPT ![job[p][1]] = <<job[p][2]>>]
  /\ job' = [job EXCEPT ![p] = <<job[p][1]>>]
  /\ UNCHANGED <<now, conns, phase, transport, todo, registry, pending, files, acked, cut>>

\* Renames it, unless another process has: that is logged only.
CompactRename(p) ==
  /\ Len(job[p]) = 1
  /\ LET f == job[p][1] IN
     /\ files' = IF tmp[f] = <<>> THEN files ELSE [files EXCEPT ![f] = tmp[f][1]]
     /\ tmp' = [tmp EXCEPT ![f] = <<>>]
  /\ job' = [job EXCEPT ![p] = <<>>]
  /\ UNCHANGED <<now, conns, phase, transport, todo, registry, pending, acked, cut>>

Serve(p) ==
  /\ phase[p] = "starting" /\ job[p] = <<>> /\ todo[p] = {}
  /\ phase' = [phase EXCEPT ![p] = "up"]
  /\ UNCHANGED <<now, conns, transport, todo, job, registry, pending, files, tmp, acked, cut>>

\* A signal ends the context.
Stop(p) ==
  /\ phase[p] = "up"
  /\ phase' = [phase EXCEPT ![p] = "stopping"]
  /\ UNCHANGED <<now, conns, transport, todo, job, registry, pending, files, tmp, acked, cut>>

\* What a process had in memory is gone with it.  The content of a temporary file that
\* nobody is about to rename is left out of the state.
Gone(p) ==
  /\ phase' = [phase EXCEPT ![p] = "down"]
  /\ todo' = [todo EXCEPT ![p] = {}]
  /\ job' = [job EXCEPT ![p] = <<>>]
  /\ registry' = [registry EXCEPT ![p] = <<>>]
  /\ pending' = [pending EXCEPT ![p] = <<>>]
  /\ conns' = [c \in DOMAIN conns |->
       IF conns[c].proc = p THEN [conns[c] EXCEPT !.live = FALSE] ELSE conns[c]]
  /\ cut' = cut \cup Live(p) \cup DOMAIN registry[p] \cup DOMAIN pending[p]
  /\ tmp' = [f \in File |-> IF \E q \in Process \ {p} : job[q] = <<f>> THEN tmp[f] ELSE <<>>]
  /\ UNCHANGED <<now, transport, files, acked>>

\* All the goroutines have returned.
Exit(p) ==
  /\ phase[p] = "flushed" /\ pending[p] = <<>>
  /\ Gone(p)

Crash(p) ==
  /\ phase[p] # "down"
  /\ Gone(p)

Init ==
  /\ now = 0
  /\ conns = <<>>
  /\ phase = [p \in Process |-> "down"]
  /\ transport \in [Process -> Transport]
  /\ todo = [p \in Process |-> {}]
  /\ job = [p \in Process |-> <<>>]
  /\ registry = [p \in Process |-> <<>>]
  /\ pending = [p \in Process |-> <<>>]
  /\ files = [f \in File |-> <<>>]
  /\ tmp = [f \in File |-> <<>>]
  /\ acked = [c \in Conn |-> <<>>]
  /\ cut = {}

Next ==
  \/ \E p \in Process :
       \/ Start(p) \/ CompactRead(p) \/ CompactWrite(p) \/ CompactRename(p) \/ Serve(p)
       \/ Connect(p) \/ Snapshot(p) \/ Flush(p) \/ FinalFlush(p)
       \/ Stop(p) \/ Exit(p) \/ Crash(p)
       \/ \E c \in DOMAIN conns :
            Initialize(p, c) \/ CallTool(p, c) \/ Request(p, c) \/ Disconnect(p, c)
       \/ \E c \in DOMAIN pending[p] : AppendRecord(p, c) \/ AppendFails(p, c)

\* The ticker ticks, Run returns only after its last flush, and a flush appends
\* what it has collected.
Fairness ==
  \A p \in Process :
    /\ WF_vars(Flush(p)) /\ WF_vars(FinalFlush(p)) /\ WF_vars(Exit(p))
    /\ WF_vars(\E c \in DOMAIN pending[p] : AppendRecord(p, c) \/ AppendFails(p, c))

Spec == Init /\ [][Next]_vars /\ Fairness

-----------------------------------------------------------------------------
(* Properties *)

ConnsOf(f) == {c \in DOMAIN conns : <<conns[c].client, conns[c].transport>> = f}

\* The history of a client never counts a connection twice, nor a tool call that was
\* not made, whatever reconnects, restarts, compactions and failed appends come between
\* the checkpoints: Clients collapses a file by session id.
NeverDoubleCounts ==
  \A f \in Client \X Transport :
    /\ Sessions(files[f]) <= Cardinality(ConnsOf(f))
    /\ ToolCalls(files[f]) <= MapThenSumSet(LAMBDA c : conns[c].calls, ConnsOf(f))

\* The lines of no other connection read as lines of this one.
Alone(c) == \A d \in DOMAIN conns \ {c} :
  acked[c] # <<>> /\ acked[d] # <<>> => acked[c][1].id # acked[d][1].id

\* A checkpoint that was appended is never lost, and never replaced by one with fewer
\* calls: what a crash loses is what came after the last flush.
CheckpointKept ==
  \A c \in DOMAIN conns : acked[c] # <<>> /\ Alone(c) =>
    LET r == acked[c][1]  lines == files[FileName(r)] IN
    /\ \E i \in DOMAIN lines : lines[i].id = r.id
    /\ Latest(lines, r.id).calls >= r.calls

LeftAfterCalls(c) == c \in DOMAIN conns /\ ~conns[c].live /\ conns[c].calls > 0

Ended(c) ==
  /\ acked[c] # <<>>
  /\ \E r \in ToSet(files[<<conns[c].client, conns[c].transport>>]) :
       r.id = acked[c][1].id /\ r.ended /\ r.calls = conns[c].calls

\* A session that made tool calls and left is recorded as ended, with all of them,
\* unless its process stopped before a flush saw it or the append failed: Flush.
Recorded ==
  \A c \in Conn : LeftAfterCalls(c) ~> (c \in cut \/ ~Alone(c) \/ Ended(c))
=============================================================================
