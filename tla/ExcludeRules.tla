---------------------------- MODULE ExcludeRules ----------------------------
(***************************************************************************)
(* Exclusion rules (pkg/discovery/filter.go and excludeRules of main.go):  *)
(* how a rule is read from a flag and which disks it matches.              *)
(*                                                                         *)
(* The name of a field is one character of the text.  "v" stands for the   *)
(* characters of a value, "V" is its capital.                              *)
(***************************************************************************)
EXTENDS Naturals, Sequences, Text
LOCAL INSTANCE SequencesExt

\* fields: the criteria of a rule.
Keys == {"node", "name", "vendor", "model", "serial", "wwn", "bus"}

\* A rule gives each field a text, <<>> if it does not matter.
EmptyRule == [k \in Keys |-> <<>>]
Empty(rule) == rule = EmptyRule

EqualFold(s, t) ==
    LET lower(u) == [i \in DOMAIN u |-> IF u[i] = "V" THEN "v" ELSE u[i]] IN
    lower(s) = lower(t)

\* disk holds the node's name too.  Every field that is set has to match exactly,
\* the WWN whatever its case.
Matches(rule, disk) ==
    /\ ~Empty(rule)
    /\ \A k \in Keys :
        \/ rule[k] = <<>>
        \/ IF k = "wwn" THEN EqualFold(rule[k], disk[k]) ELSE rule[k] = disk[k]

\* FindMatchingRule and IsExcluded: rules are alternatives.
IsExcludedBy(rules, disk) == \E i \in DOMAIN rules : Matches(rules[i], disk)

Rejected == [ok |-> FALSE, rule |-> EmptyRule]

\* Faulty variant: a field may be given twice.
ReadPartAgain(parsed, part) ==
    LET cut == Cut(part, "=")
        key == Trim(cut.before, {" "})
        val == Trim(cut.after, {" "})
    IN IF \/ ~parsed.ok \/ ~cut.found \/ key = <<>> \/ val = <<>>
          \/ \A k \in Keys : key # <<k>>
       THEN Rejected
       ELSE [parsed EXCEPT !.rule[key[1]] = val]

\* One key=value pair: both have to be there, the field has to exist and must not
\* have been given before.
ReadPart(parsed, part) ==
    LET cut == Cut(part, "=")
        key == Trim(cut.before, {" "})
        val == Trim(cut.after, {" "})
    IN IF \/ ~parsed.ok \/ ~cut.found \/ key = <<>> \/ val = <<>>
          \/ \A k \in Keys : key # <<k>> \/ parsed.rule[k] # <<>>
       THEN Rejected
       ELSE [parsed EXCEPT !.rule[key[1]] = val]

\* The first error ends it, and with it the daemon's start.
ParseExcludeRule(text) ==
    FoldLeft(ReadPart, [ok |-> TRUE, rule |-> EmptyRule], Split(text, ","))
=============================================================================
