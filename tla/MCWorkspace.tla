---------------------------- MODULE MCWorkspace ----------------------------
(***************************************************************************)
(* A small instance of Workspace: a file docs/f with a heading, a section   *)
(* that holds a paragraph and a section without, and a file g with one      *)
(* node.  Identifier 6 is what MemoryWrite would make; nothing here does.   *)
(***************************************************************************)
EXTENDS Workspace

CONSTANTS a, b

MCContent == {a, b}

MCHomeParent == <<0, 1, 2, 1, 0, 0>>
MCHomeFile == <<"f", "f", "f", "f", "g", "mcp:write">>
MCElder == <<0, 0, 0, 2, 0, 0>>
MCPayloadNode == [c \in MCContent |-> 6]

Parsed(S, c) == [n \in S |-> [parent |-> MCHomeParent[n], file |-> MCHomeFile[n], content |-> c[n]]]

Whole == Parsed({1, 2, 3, 4}, <<a, a, b, a>>)
Short == Parsed({1, 2, 3}, <<a, b, b>>)
One == Parsed({5}, [n \in {5} |-> a])
Big == Parsed({5}, [n \in {5} |-> b])

MCVersions == [f \in {"f", "g"} |-> IF f = "f" THEN {Whole, Short} ELSE {One, Big}]
MCOversize == {Big}
MCPath == [f \in {"f", "g"} |-> IF f = "f" THEN <<"docs", "f">> ELSE <<"g">>]

Line(segments, before, after, bang) ==
  [segments |-> segments, slashBefore |-> before, slashAfter |-> after, bang |-> bang]

Docs == ParsePattern(Line(<<{"docs"}>>, FALSE, TRUE, FALSE))
NotF == ParsePattern(Line(<<{"docs"}, {"f"}>>, FALSE, FALSE, TRUE))
AnyF == ParsePattern(Line(<<{"f"}>>, FALSE, FALSE, FALSE))
Deep == ParsePattern(Line(<<DoubleStar, {"f", "g"}>>, FALSE, FALSE, FALSE))

Entry(key, temp) == [key |-> key, value |-> Leaf(temp)]

Config(ignore, pinned, seeds) == [ignore |-> ignore, pinned |-> pinned, seeds |-> seeds]

PinAll == Config(<<>>, <<Deep>>, {})
NoDocs == Config(<<Docs, NotF>>, <<>>, {})
Seeded == Config(<<AnyF, NotF>>, <<NotF>>,
  {Entry(<<Star>>, 2), [key |-> <<"docs">>, value |-> EmptyTree], Entry(<<"docs", Star>>, 0)})
Contradictory == Config(<<>>, <<>>, {Entry(<<"docs">>, 2), Entry(<<"docs", "f">>, 0)})

MCConfigs == {PinAll, NoDocs, Seeded, Contradictory}

Disk(f, g) == [e \in {"f", "g"} |-> IF e = "f" THEN f ELSE g]

MCStarts == {[disk |-> Disk(Whole, One), config |-> PinAll], [disk |-> Disk(Short, Big), config |-> NoDocs]}

MCAsks == {{2, 5}}

MCTokenCount == [c \in MCContent |-> IF c = a THEN 1 ELSE 2]
=============================================================================
