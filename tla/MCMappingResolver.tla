------------------------- MODULE MCMappingResolver -------------------------
(* Instances of MappingResolver for TLC, whose mappings are patterns of    *)
(* PathPattern.                                                            *)
EXTENDS MappingResolver, TLC

A == <<"/", "a">>
OneRoute == {A}

Mapping(action, pattern) ==
    [action |-> action,
     matches |-> MatchedBy([matchRegex |-> {}, pathPattern |-> Plain(pattern)],
                          OneRoute)]

AnyPath == <<"/", "*", "*">>
OneSegment == <<"/", ":p">>
TwoSegments == <<"/", ":p", "/", ":q">>

(* A specific mapping 1 in front of a general mapping 2; 1 without its     *)
(* route; 1 without an action; 2 alone, with another route.                *)
Before == [mappings |-> <<Mapping("write", OneSegment), Mapping("read", AnyPath)>>,
           patterns |-> <<1, 2>>]
Narrowed == [mappings |-> <<Mapping("write", TwoSegments), Mapping("read", AnyPath)>>,
             patterns |-> <<1, 2>>]
Unnamed == [mappings |-> <<Mapping("", OneSegment), Mapping("read", AnyPath)>>,
            patterns |-> <<1, 2>>]
After == [mappings |-> (2 :> Mapping("read", TwoSegments)), patterns |-> <<2>>]

Changing == {Before, Narrowed, Unnamed, After}
Settled == {Before}

(* Every path, and every pattern, that is a slash and up to three more,    *)
(* and longer patterns with two wildcards.  A letter after a parameter     *)
(* would be a part of its name.                                            *)
UpTo(n, S) == UNION {[1 .. m -> S] : m \in 0 .. n}
Behind(s, S) == {s \o t : t \in S}

SmallPaths == {<<>>} \cup Behind(<<"/">>, UpTo(3, {"/", "a", "$"}))
NamesEnd(pattern) ==
    \A i \in 2 .. Len(pattern) : pattern[i] = "a" => pattern[i - 1] \notin Parameters
SmallPatterns ==
    {pattern \in Behind(<<"/">>, UpTo(3, {"/", "a", "$", ":p", ":q", "*"})) :
        NamesEnd(pattern)} \cup
    {AnyPath \o OneSegment, OneSegment \o AnyPath, AnyPath \o AnyPath}

(* One alternative, anchored in every way; and two, with anchors between   *)
(* them or without.                                                        *)
Bodies ==
    {<<Literal("/"), Literal("a")>>, <<Literal("a")>>, <<Across, Literal("a")>>,
     <<Literal("/"), Within>>, <<Literal("/"), Group(":p"), Across>>,
     <<Group(":p"), Literal("/"), Group(":p")>>,
     <<Literal("/"), Literal("a"), Literal("$")>>}
Firsts == {<<Literal("a")>>, <<Literal("/"), Group(":p"), Across>>}
Seconds == {<<>>, <<Literal("/"), Literal("$")>>, <<Group(":p")>>}
Ones == {<<Alternative(start, end, body)>> : start, end \in BOOLEAN, body \in Bodies}
Twos ==
    {<<Alternative(FALSE, between, body), Alternative(between, end, second)>> :
        between, end \in BOOLEAN, body \in Firsts, second \in Seconds}
OwnExpressions == Ones \cup Twos

Symmetry == Permutations(Procs)
=============================================================================
