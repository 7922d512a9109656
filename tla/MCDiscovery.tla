---------------------------- MODULE MCDiscovery ----------------------------
(***************************************************************************)
(* Two separate questions of pkg/discovery in one model: the walk of       *)
(* DiscoverDisks (text = NoText), and its functions on texts, for which a  *)
(* text is typed character by character while the host stands still.       *)
(***************************************************************************)
EXTENDS Discovery, Naming, ExcludeRules, TLC

\* One rule, on the name of an entry and on the identity of a disk.
CONSTANTS RuleNames, RuleDisks
ByRule == RuleNames \X RuleDisks

VARIABLE text  \* the kind of text and what has been typed so far

NoText == [kind |-> "none", chars |-> <<>>]

\* An identifier or a node name, a flag --exclude-disk, the families of the links
\* in the order of a udev record.
Alphabet ==
    [id |-> {"a", "A", ".", "-", ":"},
     rule |-> {"node", "wwn", "v", "=", ",", " "},
     links |-> {0} \cup Families]
MaxText == [id |-> 5, rule |-> 7, links |-> 4]

MCInit ==
    /\ Init
    /\ \/ text = NoText
       \/ /\ Attached = {} /\ mounted
          /\ text \in {[kind |-> k, chars |-> <<>>] : k \in DOMAIN Alphabet}

Type ==
    /\ Len(text.chars) < MaxText[text.kind]
    /\ \E c \in Alphabet[text.kind] : text' = [text EXCEPT !.chars = Append(@, c)]
Clear == Len(text.chars) = MaxText[text.kind] /\ text' = [text EXCEPT !.chars = <<>>]

MCNext ==
    \/ text = NoText /\ Next /\ UNCHANGED text
    \/ text # NoText /\ (Type \/ Clear) /\ UNCHANGED vars

MCSpec == MCInit /\ [][MCNext]_<<vars, text>>

NumberSymmetry == Permutations(Numbers)

-----------------------------------------------------------------------------
(* Paths.                                                                  *)

Links(families) == [i \in DOMAIN families |-> [family |-> families[i], nr |-> i]]
Swapped(s, i, j) == [s EXCEPT ![i] = s[j], ![j] = s[i]]

\* A disk keeps its path as long as its links stay: the path is a link of the most
\* stable family there is ("from most to least stable", naming.go:23-24), whatever
\* the order in which udev lists the links, and the same link if the family has only
\* one; the kernel name, which changes across reboots, is used only if there is none.
PathIgnoresLinkOrder ==
    text.kind = "links" =>
        LET links == Links(text.chars)
            path == ResolvePredictablePath(links)
            family == {i \in DOMAIN links : links[i].family = path.family}
        IN /\ \A i \in DOMAIN links :
                links[i].family # 0 => path.family \in 1 .. links[i].family
           /\ \A i, j \in DOMAIN links :
                LET other == ResolvePredictablePath(Swapped(links, i, j)) IN
                /\ other.family = path.family
                /\ path.family = 0 \/ family = {path.nr} => other = path

-----------------------------------------------------------------------------
(* Names.                                                                  *)

InfoOf(field, s) ==
    [[WWN |-> <<>>, SerialShort |-> <<>>, Serial |-> <<>>, PathBase |-> <<"a">>,
      Name |-> <<"b">>] EXCEPT ![field] = s]

\* The typed text as the identifier of a disk and as the name of a node.
Generated(s) ==
    {GenerateCRName(node, InfoOf(f, s)) :
        node \in {<<"b">>, <<":", "A">>}, f \in {"WWN", "PathBase"}}
    \cup {GenerateCRName(s, InfoOf("Serial", <<"b", "b">>))}

\* Next to a period is a letter or a digit, or nothing: no label of the text begins or
\* ends with a separator.
PeriodsApart(s) ==
    \A i \in 1 .. Len(s) - 1 :
        "." \in {s[i], s[i + 1]} =>
            ToLower(s[i]) \in Alphanumeric \/ ToLower(s[i + 1]) \in Alphanumeric

\* Whatever a vendor puts into a serial number, the name fits Kubernetes' limit,
\* has only allowed characters and begins and ends with an alphanumeric one, also
\* where it was cut ("a longer name is truncated and ends in a hyphen and the first
\* 8 hex digits of its SHA-256", naming.go:69-70).  It need not be a valid subdomain:
\* "a period next to another separator ("a._b" becomes "a.-b") leaves an invalid
\* label" (naming.go:60-61).  That is the only way: neither the replaced runs nor the
\* trimming nor the hyphen between the two parts nor the cut makes another one.
NamesWellFormed ==
    text.kind = "id" =>
        \A name \in Generated(text.chars) :
            /\ Length(name) <= MaxLen
            /\ \A i \in DOMAIN name.text : name.text[i] \in Allowed \cup {"-"}
            /\ name.text[1] \in Alphanumeric /\ name.text[Len(name.text)] \in Alphanumeric
            /\ PeriodsApart(text.chars) => PeriodsApart(name.text)

\* Identifiers with one character replaced, or one more.
Similar(s) ==
    {[s EXCEPT ![i] = c] : i \in DOMAIN s, c \in Alphabet.id}
    \cup {Append(s, c) : c \in Alphabet.id}

\* Truncation makes no two disks of a node share a resource: different identifiers
\* have different names unless they are already equal as subdomains ("A:B" and
\* "a-b"; naming.go:105-110).
NamesTellApart ==
    text.kind = "id" /\ text.chars # <<>> =>
        \A s \in Similar(text.chars) :
            GenerateCRName(<<"b">>, InfoOf("WWN", s))
                = GenerateCRName(<<"b">>, InfoOf("WWN", text.chars))
            => SanitizeRFC1123Subdomain(s) = SanitizeRFC1123Subdomain(text.chars)

-----------------------------------------------------------------------------
(* Rules.                                                                  *)

Values == {<<>>, <<"v">>, <<"V">>, <<"v", "v">>}
HostDisks == {[EmptyRule EXCEPT !.node = n, !.wwn = w] : n \in Values, w \in Values}

Parsed == ParseExcludeRule(text.chars)

\* "All specified fields in a rule must match (AND)" (FAQ.md:27): the comma is a
\* conjunction of what its parts mean by themselves, so that adding a criterion never
\* excludes, and deletes, another disk; no part is dropped, overridden or ignored for
\* having no value.
CommaMeansAnd ==
    text.kind = "rule" /\ Parsed.ok =>
        LET parts == Split(text.chars, ",") IN
        \A disk \in HostDisks :
            Matches(Parsed.rule, disk) <=>
                \A i \in DOMAIN parts :
                    IsExcludedBy(<<ParseExcludeRule(parts[i]).rule>>, disk)
=============================================================================
