------------------------------ MODULE Matchers ------------------------------
(***************************************************************************)
(* How a run chooses its benchmarks: wildcard_match on the path of a       *)
(* benchmark and TagMatcher on its tags.  A string is a sequence of        *)
(* symbols.  A match has three outcomes, because a build without           *)
(* std::regex (NO_CXX11_REGEX) throws on a star that is not the last       *)
(* symbol, when a target is first compared with such a pattern.            *)
(***************************************************************************)
EXTENDS Naturals, Sequences, SequencesExt

Outcome == {"yes", "no", "throws"}

Of(matched) == IF matched THEN "yes" ELSE "no"

(* split_on_string with a separator of one symbol: n separators make n + 1 *)
(* tokens, empty ones among them.                                          *)
split_on_string(text, sep) ==
  LET Put(tokens, symbol) ==
        IF symbol = sep THEN Append(tokens, <<>>)
        ELSE Front(tokens) \o <<Append(Last(tokens), symbol)>>
  IN FoldLeft(Put, <<<<>>>>, text)

(* The regular expression in which every star has become .* : whether the  *)
(* first t symbols of the target match the first p of the pattern.         *)
RegexMatch(target, pattern) ==
  LET m[t \in 0..Len(target), p \in 0..Len(pattern)] ==
        IF p = 0 THEN t = 0
        ELSE IF pattern[p] = "*" THEN m[t, p - 1] \/ (t > 0 /\ m[t - 1, p])
        ELSE t > 0 /\ target[t] = pattern[p] /\ m[t - 1, p - 1]
  IN m[Len(target), Len(pattern)]

(* Without std::regex: a literal, or a prefix and a star. *)
BasicMatch(target, pattern) ==
  LET stars == {p \in DOMAIN pattern : pattern[p] = "*"}
  IN IF stars = {} THEN Of(target = pattern)
     ELSE IF stars = {Len(pattern)} THEN Of(IsPrefix(Front(pattern), target))
     ELSE "throws"

wildcard_match(regex, target, pattern) ==
  IF regex THEN Of(RegexMatch(target, pattern)) ELSE BasicMatch(target, pattern)

(* TagMatcher's constructor: ~ makes a pattern negative. *)
Negative(token) == token # <<>> /\ token[1] = "~"

yes_patterns(list) == SelectSeq(split_on_string(list, ","), LAMBDA t : ~Negative(t))

no_patterns(list) ==
  LET negative == SelectSeq(split_on_string(list, ","), Negative)
  IN [n \in DOMAIN negative |-> Tail(negative[n])]

(* TagMatcher::matches: the first pair that does not fail to match ends    *)
(* the search, tag by tag.                                                 *)
matches(regex, tags, patterns) ==
  LET Try(found, n) ==
        IF found # "no" THEN found
        ELSE wildcard_match(regex, tags[1 + ((n - 1) \div Len(patterns))],
                            patterns[1 + ((n - 1) % Len(patterns))])
  IN FoldLeft(Try, "no", [n \in 1..Len(tags) * Len(patterns) |-> n])

(* TagMatcher::operator(): without a positive pattern any tag will do, and *)
(* none.                                                                   *)
TagMatch(regex, list, tags) ==
  LET pos_match == matches(regex, tags, yes_patterns(list))
      neg_match == matches(regex, tags, no_patterns(list))
  IN IF "throws" \in {pos_match, neg_match} THEN "throws"
     ELSE Of((pos_match = "yes" \/ yes_patterns(list) = <<>>) /\ neg_match = "no")

-----------------------------------------------------------------------------
(* What the patterns mean, by which the selection of a run is judged.      *)

(* Something can be put in the place of every star that makes the pattern  *)
(* the target.                                                             *)
Glob(target, pattern) ==
  LET pieces == {SubSeq(target, from, to) : from \in 1..Len(target), to \in 0..Len(target)}
      stars == {p \in DOMAIN pattern : pattern[p] = "*"}
  IN \E filling \in [stars -> pieces \union {<<>>}] :
       target = FlattenSeq([p \in DOMAIN pattern |->
                              IF p \in stars THEN filling[p] ELSE <<pattern[p]>>])

(* A list like "foo,~bar" (matchers.hpp:18, 35-37). *)
TagsWanted(list, tags) ==
  LET tokens == ToSet(split_on_string(list, ","))
      wanted == {t \in tokens : ~Negative(t)}
      unwanted == {Tail(t) : t \in tokens \ wanted}
  IN /\ wanted # {} => \E t \in wanted, tag \in ToSet(tags) : Glob(tag, t)
     /\ ~\E t \in unwanted, tag \in ToSet(tags) : Glob(tag, t)

(* A build without std::regex refuses it. *)
NeedsRegex(pattern) == \E p \in 1..Len(pattern) - 1 : pattern[p] = "*"
=============================================================================
