---------------------------- MODULE NamePatterns ----------------------------
(* Names matched in JavaScript the way the CLI matches them with path.Match: *)
(* the port of it that runs over rows the CLI did not filter                 *)
(* (matchRunnerPattern), and the regular expression a typed query becomes    *)
(* (runnerPattern, runnerPatternMatcher; lib/runnerkit.mjs).                 *)
(*                                                                           *)
(* A pattern is a sequence of tokens: a wildcard, a class, a character that  *)
(* is escaped, or the character it stands for. Classes that accept a slash   *)
(* are left out: a chunk with one can be put where a star may not reach, and *)
(* there path.Match itself accepts fewer names than its pattern reads.       *)
EXTENDS Nothing, Integers, SequencesExt, FiniteSetsExt

CONSTANTS
    Characters,  \* of names, "/" among them
    Symbols,     \* of patterns, "*" among them
    MaxName, MaxPattern  \* bounds: lengths

VARIABLES pattern, typed, name

patternVars == <<pattern, typed, name>>

(* A class without an end or an escape without a character matches nothing.  *)
Fits(token, char) ==
    CASE token = "?" -> char # "/"
      [] token = "\\?" -> char = "?"
      [] token = "[ab]" -> char \in {"a", "b"}
      [] token = "[" -> FALSE
      [] OTHER -> char = token

Tail1(s, n) == SubSeq(s, n + 1, Len(s))
Prefix(s, P(_)) == Max({n \in 0 .. Len(s) : \A i \in 1 .. n : P(s[i])})

(* The leading stars, the tokens up to the next star, and what follows.      *)
ScanChunk(p) ==
    LET stars == Prefix(p, LAMBDA t : t = "*")
        rest == Tail1(p, stars)
        length == Prefix(rest, LAMBDA t : t # "*")
    IN  [star |-> stars > 0, chunk |-> SubSeq(rest, 1, length), rest |-> Tail1(rest, length)]

(* What is left of a name that begins with the chunk.                        *)
MatchChunk(chunk, n) ==
    IF Len(chunk) <= Len(n) /\ \A i \in DOMAIN chunk : Fits(chunk[i], n[i]) THEN Tail1(n, Len(chunk)) ELSE None

(* Mutant: a star does not stop at a slash *)
AnyLength(n) == Len(n)

(* How many characters a star may skip.                                      *)
Skippable(n) == Prefix(n, LAMBDA c : c # "/")

(* One pass, chunk by chunk, that never takes back where a chunk was put.    *)
RECURSIVE PathMatch(_, _)
PathMatch(p, n) ==
    LET s == ScanChunk(p)
        here == MatchChunk(s.chunk, n)
        Ends(left) == left # None /\ (s.rest # <<>> \/ left = <<>>)
        skips == {i \in 1 .. Skippable(n) : Ends(MatchChunk(s.chunk, Tail1(n, i)))}
    IN  CASE p = <<>> -> n = <<>>
          [] p # <<>> /\ s.star /\ s.chunk = <<>> -> Skippable(n) = Len(n)
          [] p # <<>> /\ s.chunk # <<>> /\ Ends(here) -> PathMatch(s.rest, here)
          [] p # <<>> /\ s.chunk # <<>> /\ ~Ends(here) ->
                 s.star /\ skips # {} /\ PathMatch(s.rest, MatchChunk(s.chunk, Tail1(n, Min(skips))))

(* What was typed: a substring, unless it has a star of its own.             *)
RunnerPattern(q) ==
    LET escaped == [i \in DOMAIN q |-> IF q[i] = "?" THEN "\\?" ELSE q[i]]
    IN  CASE q = <<>> -> <<>>
          [] q # <<>> /\ "*" \in Range(q) -> escaped
          [] OTHER -> <<"*">> \o escaped \o <<"*">>

(* The set of ways to stand for a name, tried all: the regular expression.   *)
RECURSIVE Stands(_, _)
Stands(p, n) ==
    IF p = <<>> THEN n = <<>>
    ELSE IF Head(p) = "*" THEN Stands(Tail(p), n) \/ (n # <<>> /\ Head(n) # "/" /\ Stands(p, Tail(n)))
    ELSE n # <<>> /\ Fits(Head(p), Head(n)) /\ Stands(Tail(p), Tail(n))
RunnerPatternMatcher(p, n) == Stands(p, n)

---------------------------------------------------------------------------
SeqsUpTo(set, length) == UNION {[1 .. k -> set] : k \in 0 .. length}
PatternsInit == pattern = <<>> /\ typed = <<>> /\ name = <<>>
PatternsNext ==
    /\ name = <<>> /\ pattern = <<>> /\ typed = <<>>
    /\ \/ pattern' \in SeqsUpTo(Symbols, MaxPattern) /\ typed' = <<>>
       \/ typed' \in SeqsUpTo(Characters \union {"*"}, MaxPattern) /\ pattern' = RunnerPattern(typed')
    /\ name' \in SeqsUpTo(Characters, MaxName)
PatternsSpec == PatternsInit /\ [][PatternsNext]_patternVars

(* Invariant: the single pass accepts a name if and only if some way to read *)
(* the pattern does, so that rows of earlier attempts are filtered as the    *)
(* CLI filtered the latest (stepattempts.mjs:106); and the expression made   *)
(* of a typed query, which is filtered here or by the CLI, accepts the same. *)
MatchedAsTheCLIMatches ==
    /\ PathMatch(pattern, name) = Stands(pattern, name)
    /\ typed # <<>> => RunnerPatternMatcher(pattern, name) = PathMatch(pattern, name)
=============================================================================
