----------------------------- MODULE PathMatch -----------------------------
(***************************************************************************)
(* The patterns of .remindb/ignore and .remindb/pinned, and which files of  *)
(* a source tree a walk under them reaches.                                *)
(*                                                                         *)
(* A path is the sequence of its names.  A glob is the set of the names it  *)
(* matches, as path.Match is the library's; DoubleStar is the segment "**". *)
(* A line of the file is given by its segments and the marks around them;   *)
(* comments, escapes and lines that do not parse are left out.             *)
(***************************************************************************)
EXTENDS Naturals, Sequences, FiniteSetsExt, SequencesExt

CONSTANT DoubleStar

\* parsePattern: a slash at the front or inside ties the pattern to the root.
ParsePattern(line) ==
  [segments |-> line.segments,
   dirOnly  |-> line.slashAfter,
   anchored |-> line.slashBefore \/ Len(line.segments) > 1,
   negated  |-> line.bang]

\* Lists of patterns that were parsed: no empty ones, and those of several segments tied.
IsSequence(s) == s \in Seq(ToSet(s))

ArePatterns(patterns) ==
  /\ IsSequence(patterns)
  /\ \A i \in DOMAIN patterns :
       /\ IsSequence(patterns[i].segments) /\ patterns[i].segments # <<>>
       /\ patterns[i].anchored \/ Len(patterns[i].segments) = 1

MatchSegment(glob, name) == glob = DoubleStar \/ name \in glob

\* Mutant: ** stands for one name or more.
MatchPathOneOrMore(segments, path) ==
  LET end == Len(path) + 1
      starts[i \in 1..Len(segments) + 1] ==
        IF i > Len(segments) THEN {end}
        ELSE IF segments[i] = DoubleStar THEN {j \in 1..end : \E k \in j + 1..end : k \in starts[i + 1]}
        ELSE {j \in 1..Len(path) : path[j] \in segments[i] /\ j + 1 \in starts[i + 1]}
  IN  1 \in starts[1]

\* The recursion of matchPath: where the rest of a path may start that the segments from i on
\* match.  ** stands for any number of names, none included.
MatchPath(segments, path) ==
  LET end == Len(path) + 1
      starts[i \in 1..Len(segments) + 1] ==
        IF i > Len(segments) THEN {end}
        ELSE IF segments[i] = DoubleStar THEN {j \in 1..end : \E k \in j..end : k \in starts[i + 1]}
        ELSE {j \in 1..Len(path) : path[j] \in segments[i] /\ j + 1 \in starts[i + 1]}
  IN  1 \in starts[1]

MatchPattern(p, path) ==
  IF p.anchored THEN MatchPath(p.segments, path)
  ELSE MatchSegment(p.segments[1], Last(path))

\* Mutant: the first pattern that matches decides.
FirstMatch(patterns, path, isDir) ==
  LET hits == {i \in DOMAIN patterns :
                 (patterns[i].dirOnly => isDir) /\ MatchPattern(patterns[i], path)}
  IN  hits # {} /\ ~patterns[Min(hits)].negated

\* Matcher.Match: the last pattern that matches decides.
Match(patterns, path, isDir) ==
  LET hits == {i \in DOMAIN patterns :
                 (patterns[i].dirOnly => isDir) /\ MatchPattern(patterns[i], path)}
  IN  hits # {} /\ ~patterns[Max(hits)].negated

Directories(path) == {SubSeq(path, 1, k) : k \in 1..Len(path) - 1}

\* Mutant: files are kept although the walk skips their directory.
KeptInSkipped(patterns, path) == ~Match(patterns, path, FALSE)

\* The walk skips a directory that matches, with all that is below.
Kept(patterns, path) ==
  /\ \A d \in Directories(path) : ~Match(patterns, d, TRUE)
  /\ ~Match(patterns, path, FALSE)

\* ResolvePins: a file is matched as such, its directories are not.
Pinned(patterns, path) == Match(patterns, path, FALSE)

-----------------------------------------------------------------------------
(* What a list of patterns says of a path.                                 *)

\* The segments cut the path into consecutive pieces: ** any, another one name.
Covers(segments, path) ==
  \E from \in [1..Len(segments) + 1 -> 1..Len(path) + 1] :
     /\ from[1] = 1
     /\ from[Len(segments) + 1] = Len(path) + 1
     /\ \A i \in DOMAIN segments :
          IF segments[i] = DoubleStar THEN from[i] <= from[i + 1]
          ELSE from[i + 1] = from[i] + 1 /\ path[from[i]] \in segments[i]

\* The last pattern that names the path is not negated; one not tied to the root may start
\* at any name.
Said(patterns, path, isDir) ==
  LET names(p) == /\ p.dirOnly => isDir
                  /\ Covers(IF p.anchored THEN p.segments ELSE <<DoubleStar>> \o p.segments, path)
  IN  \E i \in DOMAIN patterns :
        names(patterns[i]) /\ ~patterns[i].negated
          /\ \A j \in i + 1..Len(patterns) : ~names(patterns[j])
=============================================================================
