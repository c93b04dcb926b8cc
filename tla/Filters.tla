------------------------------ MODULE Filters ------------------------------
(***************************************************************************)
(* The filters of an upstream (crates/router/src/lib.rs): allow and deny   *)
(* rules with * patterns over the fields of a narinfo.                     *)
(*                                                                         *)
(* A text is a sequence of characters, of which only "*", "-" and "/" have *)
(* a meaning.                                                              *)
(***************************************************************************)
EXTENDS Integers, Sequences, SequencesExt

\* The pieces between the stars, the empty ones included.
Split(pattern) ==
    FoldLeft(LAMBDA parts, c :
                 IF c = "*" THEN Append(parts, <<>>)
                 ELSE [parts EXCEPT ![Len(parts)] = Append(@, c)],
             << <<>> >>, pattern)

\* str::find: the first occurrence of part in text, 0 if there is none.
Find(text, part) ==
    LET at == {i \in 1..(Len(text) - Len(part) + 1) :
                   SubSeq(text, i, i + Len(part) - 1) = part}
    IN IF at = {} THEN 0 ELSE CHOOSE i \in at : \A j \in at : i <= j

\* wildcard_match: every piece is taken where it first occurs in what is left
\* of the value; the first must be at its start, unless a star precedes it,
\* and nothing may be left, unless a star ends the pattern.
WildcardMatch(pattern, value) ==
    LET Consume(m, part) ==
            IF ~m.ok \/ part = <<>> THEN m
            ELSE LET at == IF m.first /\ Head(pattern) # "*"
                           THEN IF IsPrefix(part, m.rest) THEN 1 ELSE 0
                           ELSE Find(m.rest, part)
                 IN [ok |-> at # 0, first |-> FALSE,
                     rest |-> SubSeq(m.rest, at + Len(part), Len(m.rest))]
        end == FoldLeft(Consume, [ok |-> TRUE, first |-> TRUE,
                                  rest |-> value], Split(pattern))
    IN end.ok /\ (Last(pattern) = "*" \/ end.rest = <<>>)

\* store_path_name: what follows the hash of the last component.
StorePathName(path) ==
    LET base == SubSeq(path, SelectLastInSeq(path, LAMBDA c : c = "/") + 1,
                       Len(path))
    IN SubSeq(base, SelectInSeq(base, LAMBDA c : c = "-") + 1, Len(base))

\* The texts that a rule's field selects.
Texts(rule, narinfo) ==
    CASE rule.field = "StorePath" -> {narinfo.store_path}
      [] rule.field = "Name" -> {StorePathName(narinfo.store_path)}
      [] rule.field = "Reference" -> narinfo.references
      [] rule.field = "Deriver" -> {narinfo.deriver}

FilterRuleMatches(rule, narinfo) ==
    \E text \in Texts(rule, narinfo) : WildcardMatch(rule.pattern, text)

\* Mutant: an allow rule that matches overrules the deny rules.
AllowsFirst(rules, narinfo) ==
    LET matching == {i \in DOMAIN rules : FilterRuleMatches(rules[i], narinfo)}
        Acting(S, action) == \E i \in S : rules[i].action = action
    IN \/ Acting(matching, "Allow")
       \/ ~Acting(matching, "Deny") /\ ~Acting(DOMAIN rules, "Allow")

\* upstream_allows_narinfo: no deny rule matches, and an allow rule does if
\* there are any.
AllowsNarinfo(rules, narinfo) ==
    LET matching == {i \in DOMAIN rules : FilterRuleMatches(rules[i], narinfo)}
        Acting(S, action) == \E i \in S : rules[i].action = action
    IN /\ ~Acting(matching, "Deny")
       /\ Acting(DOMAIN rules, "Allow") => Acting(matching, "Allow")

---------------------------------------------------------------------------

\* What a pattern with stars means: the value is the pattern with every star
\* replaced by some text.
Glob(pattern, value) ==
    LET matches[i \in 0..Len(pattern), j \in 0..Len(value)] ==
            \* the first i characters of the pattern match the first j
            IF i = 0 THEN j = 0
            ELSE IF pattern[i] = "*" THEN \E k \in 0..j : matches[i - 1, k]
            ELSE j > 0 /\ pattern[i] = value[j] /\ matches[i - 1, j - 1]
    IN matches[Len(pattern), Len(value)]

\* What the rules mean: "a matching deny always rejects a candidate; if one or
\* more allow rules are configured, at least one must match".
Wanted(rules, narinfo) ==
    LET Matched(action) ==
            \E i \in DOMAIN rules : /\ rules[i].action = action
                                    /\ \E text \in Texts(rules[i], narinfo) :
                                           Glob(rules[i].pattern, text)
    IN /\ ~Matched("Deny")
       /\ (\A i \in DOMAIN rules : rules[i].action = "Deny") \/ Matched("Allow")
===========================================================================
