----------------------------- MODULE Workspace -----------------------------
(***************************************************************************)
(* A source directory that is edited and compiled, and the clients that     *)
(* read and pin what is stored: the compiler of DirCompile and the reader   *)
(* of ContextFetch over one node table.                                    *)
(***************************************************************************)
EXTENDS DirCompile

CONSTANTS
  TokenCount, Budgets, Depths, Anchors, Asks, MaxDepth, TreeDepth, DepthCap, SearchLimit, TopTemp

ASSUME ReaderAssumption ==
  /\ TokenCount \in [Content -> Nat]
  /\ Budgets \subseteq Nat /\ Depths \subseteq Nat
  /\ MaxDepth \in Nat \ {0} /\ TreeDepth \in Nat /\ DepthCap \in Nat \ {0}

VARIABLE read

Reader == INSTANCE ContextFetch

workspaceVars == <<compileVars, read>>

Init == CompileInit /\ Reader!ReadInit

\* A client calls one of the reading tools.
CallReader == Counted /\ Reader!StartRead /\ UNCHANGED <<disk, config, pins, job, chosen>>

ReaderStep == Reader!Reads /\ UNCHANGED <<disk, config, pins, job, chosen, calls>>

Next ==
  \/ Environment /\ UNCHANGED read
  \/ Compiling /\ Reader!Watch
  \/ CallReader
  \/ ReaderStep

\* A goroutine of a compile goes on; nothing is assumed of editors, agents or readers.
Spec == Init /\ [][Next]_workspaceVars /\ WF_workspaceVars(Compiling /\ Reader!Watch)

FetchFits == Reader!FetchFits

FetchSees == Reader!FetchSees
=============================================================================
