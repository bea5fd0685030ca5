---------------------------- MODULE PathPattern ----------------------------
(***************************************************************************)
(* Which paths a mapping matches: buildMatchPattern, pathPatternToRegex    *)
(* and anchorPattern of internal/mapping/pattern.go, and what Go's regexp  *)
(* makes of their result.                                                  *)
(*                                                                         *)
(* A path is a sequence of characters, a plain path pattern a sequence of  *)
(* characters, parameters and stars.  A regular expression is a sequence   *)
(* of the alternatives it has outside of parentheses, at least one, and an *)
(* alternative a sequence of the few elements the code writes, which may   *)
(* be anchored at either end.  Mappings bring such expressions, as their   *)
(* match_regex or as a path pattern with parentheses in it.  A thing that  *)
(* may be missing is a set.  A route of MappingResolver is a path, and its *)
(* matches are MatchedBy.                                                  *)
(***************************************************************************)
EXTENDS Integers, Sequences

CONSTANTS
    Characters,   \* of paths, "/" among them, but no end of a line
    Parameters,   \* the parameters of patterns, as ":id"
    Patterns,     \* the plain path patterns that are looked at
    OwnRegexes,   \* the regular expressions that mappings bring
    Paths         \* the paths they are matched with

ASSUME PathsAssumption == Paths \subseteq Seq(Characters)

Slash == "/"
Star == "*"
Dollar == "$"

(* The groups of the code: [^/]+ under a name, [^/]* and .*                *)
Group(name) == [group |-> name]
Within == [group |-> "within"]
Across == [group |-> "any"]
Literal(c) == [literal |-> c]

Alternative(start, end, body) == [start |-> start, end |-> end, body |-> body]

ASSUME OwnRegexesAssumption ==
    \A r \in OwnRegexes :
       /\ r # <<>> /\ DOMAIN r = 1 .. Len(r)
       /\ \A a \in DOMAIN r : r[a].start \in BOOLEAN /\ r[a].end \in BOOLEAN

(* A path pattern with both parentheses in it is taken for an expression,  *)
(* raw; any other is plain.                                                *)
Raw(r) == [raw |-> TRUE, text |-> r]
Plain(pattern) == [raw |-> FALSE, text |-> pattern]
NoPattern == Plain(<<>>)

(* QuoteMeta makes a star a literal one, and leaves parameters alone.      *)
Escaped(pattern) ==
    [i \in DOMAIN pattern |->
       IF pattern[i] \in Parameters THEN Group(pattern[i]) ELSE Literal(pattern[i])]

OneStar == <<Literal(Star)>>
TwoStars == OneStar \o OneStar

(* s with every old replaced by new, from the left.                        *)
ReplaceAll(s, old, new) ==
    LET n == Len(old)
        Here(i) == i + n - 1 <= Len(s) /\ SubSeq(s, i, i + n - 1) = old
        rest[i \in 1 .. Len(s) + n] ==
           IF i > Len(s) THEN <<>>
           ELSE IF Here(i) THEN <<new>> \o rest[i + n]
           ELSE <<s[i]>> \o rest[i + 1]
    IN  rest[1]

(* An escaped dollar, which anchors nothing.                               *)
EndsInDollar(body) == body # <<>> /\ body[Len(body)] = Literal(Dollar)

AnchorPatternOnce(r) ==   \* mutant: one anchor is taken for two
    IF r[1].start \/ r[Len(r)].end THEN r
    ELSE [a \in 1 .. Len(r) |->
            Alternative(a = 1 \/ r[a].start,
                        (a = Len(r) /\ ~EndsInDollar(r[a].body)) \/ r[a].end,
                        r[a].body)]

(* The first and the last character of the text are looked at, so that an  *)
(* anchor is bound to one alternative, and an escaped dollar taken for one. *)
AnchorPattern(r) ==
    [a \in 1 .. Len(r) |->
       Alternative(r[a].start \/ a = 1,
                   r[a].end \/ (a = Len(r) /\ ~EndsInDollar(r[a].body)),
                   r[a].body)]

Unanchored(body) == <<Alternative(FALSE, FALSE, body)>>

PathPatternToRegexByOne(p) ==   \* mutant: single stars come first
    IF p.raw THEN AnchorPattern(p.text)
    ELSE LET within == ReplaceAll(Escaped(p.text), OneStar, Within)
         IN  AnchorPattern(Unanchored(ReplaceAll(within, TwoStars, Across)))

(* A raw pattern is anchored only.  In a plain one parameters come first,  *)
(* then double stars, then the stars that are left.                        *)
PathPatternToRegex(p) ==
    IF p.raw THEN AnchorPattern(p.text)
    ELSE LET any == ReplaceAll(Escaped(p.text), TwoStars, Across)
         IN  AnchorPattern(Unanchored(ReplaceAll(any, OneStar, Within)))

OwnRegexLast(m) ==   \* mutant: match_regex is the fallback
    IF m.pathPattern # NoPattern THEN PathPatternToRegex(m.pathPattern)
    ELSE AnchorPattern(CHOOSE r \in m.matchRegex : TRUE)

(* The match_regex a mapping brings, or else what its path pattern gives.  *)
BuildMatchPattern(m) ==
    IF m.matchRegex # {} THEN AnchorPattern(CHOOSE r \in m.matchRegex : TRUE)
    ELSE PathPatternToRegex(m.pathPattern)

(* regexp.Compile rejects a name that is given to two groups.              *)
Compiles(r) ==
    \A a, b \in DOMAIN r : \A i \in DOMAIN r[a].body, j \in DOMAIN r[b].body :
       r[a].body[i] = r[b].body[j] /\ r[a].body[i] \in {Group(x) : x \in Parameters}
          => a = b /\ i = j
-----------------------------------------------------------------------------
(* regexp.MatchString: some alternative accepts a part of the path that    *)
(* reaches to the ends it is anchored at.                                  *)
SlashFree(s) == \A i \in DOMAIN s : s[i] # Slash

Accepts(element, s) ==
    \/ element = Across
    \/ element = Within /\ SlashFree(s)
    \/ element \in {Group(x) : x \in Parameters} /\ s # <<>> /\ SlashFree(s)
    \/ \E c \in Characters : element = Literal(c) /\ s = <<c>>

(* upTo[i, j]: the first i elements accept s up to its j-th character.     *)
AcceptsAll(body, s) ==
    LET upTo[i \in 0 .. Len(body), j \in 0 .. Len(s)] ==
           IF i = 0 THEN j = 0
           ELSE \E k \in 0 .. j : /\ Accepts(body[i], SubSeq(s, k + 1, j))
                                  /\ upTo[i - 1, k]
    IN  upTo[Len(body), Len(s)]

MatchString(r, path) ==
    \E a \in DOMAIN r, first \in 1 .. Len(path) + 1, last \in 0 .. Len(path) :
       /\ r[a].start => first = 1
       /\ r[a].end => last = Len(path)
       /\ first <= last + 1
       /\ AcceptsAll(r[a].body, SubSeq(path, first, last))

(* The paths, of some set, that a mapping matches: none if it does not     *)
(* compile.                                                                *)
MatchedBy(m, paths) ==
    LET r == BuildMatchPattern(m)
    IN  {path \in paths : Compiles(r) /\ MatchString(r, path)}
-----------------------------------------------------------------------------
(* The paths of some set that a pattern stands for, as the code documents  *)
(* it: a parameter is filled in by a part of a segment that is not empty,  *)
(* a star by a part of a segment, and neighbouring stars by anything.      *)
Instances(pattern, paths) ==
    LET parts == UNION {{SubSeq(path, i + 1, j) : i, j \in 0 .. Len(path)} : path \in paths}
        Fill(i) ==
           IF pattern[i] \in Parameters
           THEN {s \in parts : s # <<>> /\ SlashFree(s)}
           ELSE IF pattern[i] # Star THEN {<<pattern[i]>>}
           ELSE IF \E j \in {i - 1, i + 1} \cap DOMAIN pattern : pattern[j] = Star
           THEN parts
           ELSE {s \in parts : SlashFree(s)}
        filled[i \in 0 .. Len(pattern)] ==
           IF i = 0 THEN {<<>>}
           ELSE {s \o f : s \in filled[i - 1], f \in Fill(i)} \cap parts
    IN  filled[Len(pattern)] \cap paths

Repeats(pattern) ==
    \E i, j \in DOMAIN pattern :
       i # j /\ pattern[i] = pattern[j] /\ pattern[i] \in Parameters

Prefixes(path) == {SubSeq(path, 1, n) : n \in 0 .. Len(path)}

(* A mapping with a plain pattern matches exactly the paths the pattern    *)
(* stands for, from end to end, and none if the pattern uses a name twice. *)
(* One that ends in a dollar is not bound at its end: it also matches what *)
(* goes on after a path it stands for.                                     *)
TranslationIsFaithful ==
    \A pattern \in Patterns :
       LET begun == Instances(pattern, UNION {Prefixes(path) : path \in Paths})
       IN  MatchedBy([matchRegex |-> {}, pathPattern |-> Plain(pattern)], Paths) =
              IF Repeats(pattern) THEN {}
              ELSE IF pattern # <<>> /\ pattern[Len(pattern)] = Dollar
              THEN {path \in Paths : Prefixes(path) \cap begun # {}}
              ELSE Paths \cap begun

(* The author has anchored whatever AnchorPattern will not.                *)
Bound(r) ==
    /\ \A a \in 1 .. Len(r) : (a # 1 => r[a].start) /\ (a # Len(r) => r[a].end)
    /\ r[Len(r)].end \/ ~EndsInDollar(r[Len(r)].body)

(* The whole paths that an expression accepts.                             *)
AcceptedBy(r) ==
    {path \in Paths : Compiles(r) /\ \E a \in DOMAIN r : AcceptsAll(r[a].body, path)}

(* An expression that a mapping brings is decisive, whatever its pattern   *)
(* would match, and means the same as a path pattern.  It matches all the  *)
(* whole paths it accepts, and no other if its author has anchored what    *)
(* AnchorPattern does not look at: a single alternative needs no anchor of *)
(* its author's, unless it ends in an escaped dollar.                      *)
OwnRegexesDecide ==
    \A r \in OwnRegexes :
       LET matched == MatchedBy([matchRegex |-> {}, pathPattern |-> Raw(r)], Paths)
       IN  /\ \A pattern \in Patterns :
                 matched = MatchedBy([matchRegex |-> {r}, pathPattern |-> Plain(pattern)],
                                     Paths)
           /\ AcceptedBy(r) \subseteq matched
           /\ Bound(r) => matched = AcceptedBy(r)
=============================================================================
