------------------------------- MODULE Naming -------------------------------
(***************************************************************************)
(* Device paths and resource names (pkg/discovery/naming.go), as functions *)
(* of what the udev record of a disk says.                                 *)
(***************************************************************************)
EXTENDS Naturals, Sequences, Text
LOCAL INSTANCE SequencesExt

CONSTANTS
    MaxLen,   \* the longest name Kubernetes admits, 253 in the code
    HashLen   \* the digits of a name's hash that are kept, 8 in the code

ASSUME LengthsAssumption == HashLen \in Nat /\ MaxLen \in Nat /\ MaxLen > HashLen + 1

-----------------------------------------------------------------------------
(* ResolvePredictablePath.                                                 *)

\* predictablePathPrefixes, from most to least stable: wwn, nvme-eui, ata, nvme,
\* scsi, by-path.  A link belongs to the first family whose prefix it has; 0 is the
\* family of links without such a prefix.
Families == 1 .. 6
KernelName == [family |-> 0, nr |-> 0]

\* Faulty variant: the loops are swapped, the first persistent link is taken.
FirstPersistent(links) ==
    LET i == SelectInSeq(links, LAMBDA l : l.family \in Families) IN
    IF i = 0 THEN KernelName ELSE links[i]

\* For each family in turn, the first link of it; the kernel name as last resort.
ResolvePredictablePath(links) ==
    LET present == {f \in Families : \E i \in DOMAIN links : links[i].family = f}
        best == CHOOSE f \in present : \A g \in present : f <= g
    IN IF present = {} THEN KernelName
       ELSE links[SelectInSeq(links, LAMBDA l : l.family = best)]

-----------------------------------------------------------------------------
(* GenerateCRName.                                                         *)

\* "a" and "b" stand for lower-case letters and digits, "A" for the capital of "a",
\* "-" and ":" for all the characters that are not allowed in a name.
Alphanumeric == {"a", "b"}
Allowed == Alphanumeric \cup {"."}
ToLower(c) == IF c = "A" THEN "a" ELSE c

\* Lower case; a run of characters that are not allowed becomes one hyphen.
ReplaceRuns(s) ==
    FoldLeft(LAMBDA out, c :
                 IF ToLower(c) \in Allowed THEN Append(out, ToLower(c))
                 ELSE IF out # <<>> /\ out[Len(out)] = "-" THEN out
                 ELSE Append(out, "-"),
             <<>>, s)

\* No hyphen or period at either end.
SanitizeRFC1123Subdomain(s) == Trim(ReplaceRuns(s), {"-", "."})

Clean(s, default) ==
    LET clean == SanitizeRFC1123Subdomain(s) IN IF clean = <<>> THEN default ELSE clean

\* WWN, short serial number, serial number, last element of the path, kernel name:
\* the first that is not empty.
RawID(info) ==
    LET ids == <<info.WWN, info.SerialShort, info.Serial, info.PathBase, info.Name>>
        i == SelectInSeq(ids, LAMBDA id : id # <<>>)
    IN IF i = 0 THEN <<>> ELSE ids[i]

\* A name is its text and, if it was truncated, the hash of the full name: two
\* names have the same hash if and only if they are equal (collisions of the first
\* 32 bits of SHA-256 are left out).
Named(text, hash) == [text |-> text, hash |-> hash]
Length(name) == Len(name.text) + (IF name.hash = <<>> THEN 0 ELSE 1 + HashLen)

FullName(node, info) ==
    Clean(node, <<"a">>) \o <<"-">> \o Clean(RawID(info), <<"b">>)

\* Faulty variants: without the hash, and without room for its hyphen.
TruncateOnly(node, info) ==
    LET name == FullName(node, info) IN
    IF Len(name) <= MaxLen THEN Named(name, <<>>)
    ELSE Named(TrimRight(SubSeq(name, 1, MaxLen), {"-", "."}), <<>>)
TruncateShort(node, info) ==
    LET name == FullName(node, info) IN
    IF Len(name) <= MaxLen THEN Named(name, <<>>)
    ELSE Named(TrimRight(SubSeq(name, 1, MaxLen - HashLen), {"-", "."}), name)

\* <node>-<identifier>, with its end replaced by a hash if it is too long.
GenerateCRName(node, info) ==
    LET name == FullName(node, info) IN
    IF Len(name) <= MaxLen THEN Named(name, <<>>)
    ELSE Named(TrimRight(SubSeq(name, 1, MaxLen - (1 + HashLen)), {"-", "."}), name)
=============================================================================
