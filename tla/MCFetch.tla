------------------------------- MODULE MCFetch -------------------------------
(***************************************************************************)
(* A small instance of Fetch: two workers and two or three pages of one    *)
(* site, all but one forbidden by their query.  The assumptions check the  *)
(* operators of Robots against what a file means, over every pattern and   *)
(* every file of a bounded size.                                           *)
(***************************************************************************)
EXTENDS Fetch

CONSTANTS w1, w2

MCWorkers == {w1, w2}
MCPages == {"open", "search"}
MCMorePages == {"open", "search", "later"}
MCOriginOf == [p \in Pages |-> "https"]
MCHostOf == [o \in Origins |-> "host"]
MCPathOf == [p \in Pages |-> IF p = "open" THEN <<>> ELSE <<"/", "a">>]
MCQueryOf == [p \in Pages |-> IF p = "open" THEN <<>> ELSE <<"b">>]
MCToken == <<"a", "b">>

Plain(path) == [segs |-> <<path>>, anchored |-> FALSE]

\* A group for us and one for everyone.
MCFile ==
  << UserAgent(Everyone), Rule(FALSE, Root),
     UserAgent(<<"a">>), Rule(TRUE, Plain(<<"/", "a">>)),
     Rule(FALSE, [segs |-> << <<"/">>, <<"?">> >>, anchored |-> FALSE]), Delay(2) >>
MCRobotsFile == [o \in Origins |-> MCFile]

----------------------------------------------------------------------------
Chars == {"/", "a"}
Paths == SeqOf(Chars, 4)
Segments == SeqOf(Chars, 2)
Patterns ==
  [segs : SeqOf(Segments, 3) \ {<<>>}, anchored : BOOLEAN]

\* The matching of patterns is what "*" and "$" mean (robots.go:
\* matchRobotsPattern).
ASSUME PatternsAreRead ==
  \A pattern \in Patterns : \A path \in Paths :
    PatternHolds(pattern, path) = Describes(pattern, path)

Lines ==
  {UserAgent(a) : a \in {Everyone, <<"a">>, <<"a", "b">>, <<"b">>}}
    \cup {Rule(allow, pattern) : allow \in BOOLEAN,
            pattern \in {Nothing, Root, Plain(<<"/", "a">>)}}
    \cup {Delay(1)}

\* Parsing, the choice of the group and the verdict give what the lines of a
\* file say of us, for every file whose tokens open one group each
\* (robots.go: ParseRobots, groupFor, check).
ASSUME FilesAreRead ==
  \A file \in SeqOf(Lines, 4) :
    OneGroupEach(file) =>
      \A path \in {<<"/">>, <<"/", "a">>} :
        Allows(ParseRobots(file), MCToken, path) = FileAllows(file, MCToken, path)
=============================================================================
