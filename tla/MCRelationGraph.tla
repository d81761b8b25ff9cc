-------------------------- MODULE MCRelationGraph --------------------------
(***************************************************************************)
(* A small instance of the link graph and of the walks over it: a heading 1 *)
(* with a heading 2 below it in a.md, and a heading 3 in b.md that has the  *)
(* label of 1.  The text of 2 can link to that label, the text of 3 to the  *)
(* label of 2 in a.md, and a manual edge can lead from any node to 3, so    *)
(* that edges form chains, cycles and loops.  A rollback deletes 1 before   *)
(* it comes to 2.                                                          *)
(***************************************************************************)
EXTENDS RelatedWalk

ByLabel == Ref("T", AnyFile, NoId)
ToSection == Ref("S", "a.md", NoId)
ById == Ref("", AnyFile, 3)

MCNode == 1..3
MCRank == <<1, 2, 3>>

ChapterParent == <<0, 1, 0>>
ChapterFile == <<"a.md", "a.md", "b.md">>
ChapterTitles == <<{"T"}, {"S"}, {"T"}>>
ChapterTexts == <<{{}}, {{}, {ByLabel}}, {{}, {ToSection}}>>
ChapterManual == {ById}

MCWeight == [parsed |-> 2, manual |-> 1]
MCTokens == <<1, 1, 2>>
=============================================================================
