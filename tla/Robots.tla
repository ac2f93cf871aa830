------------------------------- MODULE Robots -------------------------------
(***************************************************************************)
(* A robots.txt as internal/httpx/robots.go reads it: the parser as a fold *)
(* over the lines, the group of an agent, and the verdict on a path.  A    *)
(* line is a record whose field is "user-agent", "allow", "disallow" or    *)
(* "crawl-delay"; an agent token and a path are sequences of characters;   *)
(* a pattern is what stands between its "*"s, and whether it ended in "$". *)
(* What a line without a colon, a comment or an unknown field does is      *)
(* nothing.  The second half says what a file means without parsing it.    *)
(***************************************************************************)
EXTENDS Integers, SequencesExt

UserAgent(token) == [field |-> "user-agent", agent |-> token]
Rule(allow, pattern) ==
  [field |-> IF allow THEN "allow" ELSE "disallow", pattern |-> pattern]
Delay(seconds) == [field |-> "crawl-delay", delay |-> seconds]

Everyone == <<"*">>                                     \* the token "*"
Nothing == [segs |-> <<<<>>>>, anchored |-> FALSE]      \* an empty value
Root == [segs |-> <<<<"/">>>>, anchored |-> FALSE]      \* the pattern "/"

\* A character, the ones the code itself writes among them.
Character == STRING \cup {"/", "?", "*"}
Text == Seq(Character)
Pattern == [segs : Seq(Text) \ {<<>>}, anchored : BOOLEAN]

\* A line that does anything.
Line ==
  [field : {"user-agent"}, agent : Text \ {<<>>}]
    \cup [field : {"allow", "disallow"}, pattern : Pattern]
    \cup [field : {"crawl-delay"}, delay : Int]

----------------------------------------------------------------------------
(* matchRobotsPattern.                                                     *)

OccursAt(seg, path, i) ==
  i + Len(seg) <= Len(path) /\ SubSeq(path, i + 1, i + Len(seg)) = seg

Occurrences(seg, path, from) == {i \in from .. Len(path) : OccursAt(seg, path, i)}

NoMatch == -1

\* The end of the leftmost occurrence of seg at or after pos.
LeftmostEnd(seg, path, pos) ==
  IF pos = NoMatch \/ Occurrences(seg, path, pos) = {} THEN NoMatch
  ELSE Min(Occurrences(seg, path, pos)) + Len(seg)

\* The first segment is a prefix, each middle one is taken at its leftmost
\* occurrence, and the last is a suffix of the rest, or in it.
PatternHolds(p, path) ==
  IF Len(p.segs) = 1
    THEN IF p.anchored THEN path = p.segs[1] ELSE IsPrefix(p.segs[1], path)
    ELSE LET pos == FoldLeft(LAMBDA at, seg : LeftmostEnd(seg, path, at),
                             IF IsPrefix(p.segs[1], path) THEN Len(p.segs[1]) ELSE NoMatch,
                             SubSeq(p.segs, 2, Len(p.segs) - 1))
         IN  /\ pos # NoMatch
             /\ IF p.anchored THEN IsSuffix(Last(p.segs), SubSeq(path, pos + 1, Len(path)))
                              ELSE Occurrences(Last(p.segs), path, pos) # {}

\* len(pattern), with its "*"s and its "$".
PatternLength(p) ==
  FoldLeft(LAMBDA n, seg : n + Len(seg), 0, p.segs) + Len(p.segs) - 1
    + IF p.anchored THEN 1 ELSE 0

----------------------------------------------------------------------------
(* ParseRobots.                                                            *)

NewGroup == [agents |-> <<>>, rules |-> <<>>, delay |-> 0]

\* Whether the next user-agent line joins the group being read.
NotReading == [groups |-> <<>>, starting |-> TRUE]

\* A user-agent line: a group of its own after a rule, or one more agent.
ReadAgent(r, token) ==
  LET open == IF r.groups # <<>> /\ r.starting THEN r.groups ELSE Append(r.groups, NewGroup)
  IN  [groups |-> Front(open) \o <<[Last(open) EXCEPT !.agents = Append(@, token)]>>,
       starting |-> TRUE]

\* An empty Disallow allows everything; an empty Allow is no rule, but closes
\* the agents of the group as any rule does.
ReadRule(r, line) ==
  LET added == IF line.pattern # Nothing
                 THEN <<[pattern |-> line.pattern, allow |-> line.field = "allow"]>>
               ELSE IF line.field = "disallow" THEN <<[pattern |-> Root, allow |-> TRUE]>>
               ELSE <<>>
  IN  [groups |-> Front(r.groups) \o <<[Last(r.groups) EXCEPT !.rules = @ \o added]>>,
       starting |-> FALSE]

ReadDelay(r, seconds) ==
  [groups |-> Front(r.groups)
                \o <<[Last(r.groups) EXCEPT !.delay = IF seconds > 0 THEN seconds ELSE @]>>,
   starting |-> FALSE]

\* One line of the scanner's loop; what precedes every user-agent is ignored.
ReadLine(r, line) ==
  CASE line.field = "user-agent" -> ReadAgent(r, line.agent)
    [] line.field # "user-agent" /\ r.groups = <<>> -> r
    [] line.field = "crawl-delay" /\ r.groups # <<>> -> ReadDelay(r, line.delay)
    [] line.field \in {"allow", "disallow"} /\ r.groups # <<>> -> ReadRule(r, line)

ParseRobots(file) == FoldLeft(ReadLine, NotReading, file).groups

----------------------------------------------------------------------------
(* groupFor and check.                                                     *)

\* The tokens of the group that match ours by prefix.
Matching(group, token) ==
  {a \in ToSet(group.agents) : a # Everyone /\ IsPrefix(a, token)}

\* The longest token that matches, and the first group that has it; else the
\* first group for everyone.  0 if there is none.
GroupFor(groups, token) ==
  LET named == {g \in DOMAIN groups : Matching(groups[g], token) # {}}
      length == [g \in named |-> Max({Len(a) : a \in Matching(groups[g], token)})]
      longest == {g \in named : \A h \in named : length[g] >= length[h]}
      everyone == {g \in DOMAIN groups : Everyone \in ToSet(groups[g].agents)}
  IN  IF named # {} THEN Min(longest)
      ELSE IF everyone # {} THEN Min(everyone) ELSE 0

\* The longest pattern that matches wins, and Allow wins a tie.
Decide(rules, path) ==
  FoldLeft(LAMBDA best, rule :
             IF /\ PatternHolds(rule.pattern, path)
                /\ \/ PatternLength(rule.pattern) > best.length
                   \/ PatternLength(rule.pattern) = best.length /\ rule.allow
               THEN [length |-> PatternLength(rule.pattern), allow |-> rule.allow]
               ELSE best,
           [length |-> -1, allow |-> TRUE], rules).allow

Allows(groups, token, path) ==
  LET g == GroupFor(groups, token)
  IN  g = 0 \/ Decide(groups[g].rules, path)

CrawlDelay(groups, token) ==
  LET g == GroupFor(groups, token)
  IN  IF g = 0 THEN 0 ELSE groups[g].delay

----------------------------------------------------------------------------
(* What a file means.                                                      *)

\* path is the segments of the pattern in order, with anything in between.
Describes(p, path) ==
  \E at \in [DOMAIN p.segs -> 0 .. Len(path)] :
    /\ at[1] = 0
    /\ \A k \in DOMAIN p.segs :
         /\ OccursAt(p.segs[k], path, at[k])
         /\ k > 1 => at[k] >= at[k - 1] + Len(p.segs[k - 1])
    /\ p.anchored => at[Len(p.segs)] + Len(Last(p.segs)) = Len(path)

AgentLine(file, k) == file[k].field = "user-agent"

\* The agents line k of the file is about: those of the unbroken block of
\* user-agent lines that comes last before it.
AgentsOf(file, k) ==
  {file[j].agent : j \in {i \in 1 .. k - 1 :
     /\ AgentLine(file, i)
     /\ \A a \in i .. k - 1, b \in i .. k - 1 :
          a < b /\ ~AgentLine(file, a) => ~AgentLine(file, b)}}

\* The name the file knows us by: its longest token that begins ours, or "*".
KnownAs(file, token) ==
  LET named == {file[k].agent : k \in {j \in DOMAIN file :
                  AgentLine(file, j) /\ file[j].agent # Everyone /\ IsPrefix(file[j].agent, token)}}
  IN  IF named = {} THEN Everyone ELSE CHOOSE a \in named : \A b \in named : Len(a) >= Len(b)

\* The rule lines of the file for us that match the path.
RulesAbout(file, token, path) ==
  {k \in DOMAIN file :
     /\ file[k].field \in {"allow", "disallow"}
     /\ KnownAs(file, token) \in AgentsOf(file, k)
     /\ IF file[k].pattern = Nothing
          THEN file[k].field = "disallow" /\ Describes(Root, path)
          ELSE Describes(file[k].pattern, path)}

RuleLength(line) == PatternLength(IF line.pattern = Nothing THEN Root ELSE line.pattern)
Permits(line) == line.field = "allow" \/ line.pattern = Nothing

FileAllows(file, token, path) ==
  LET about == RulesAbout(file, token, path)
  IN  about = {} \/ \E k \in about : /\ Permits(file[k])
                                     /\ \A j \in about : RuleLength(file[k]) >= RuleLength(file[j])

\* No token opens two groups of the file.
OneGroupEach(file) ==
  \A j, k \in DOMAIN file :
    j < k /\ AgentLine(file, j) /\ AgentLine(file, k) /\ file[j] = file[k]
    => \A i \in j .. k : AgentLine(file, i)
=============================================================================
