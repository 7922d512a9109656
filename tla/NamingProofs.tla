---------------------------- MODULE NamingProofs ----------------------------
(***************************************************************************)
(* The path of a disk for links in any number and order, the name of its   *)
(* resource for any identifiers and any node, and what a rule with commas  *)
(* excludes for any text: properties of loops over texts, by induction     *)
(* over their positions (FoldFacts).                                       *)
(***************************************************************************)
EXTENDS MCDiscovery, TLAPS
LOCAL INSTANCE SequencesExt

-----------------------------------------------------------------------------
(* The loops over texts.                                                   *)

\* The loop of SanitizeRFC1123Subdomain.
Replace(out, c) ==
    IF ToLower(c) \in Allowed THEN Append(out, ToLower(c))
    ELSE IF out # <<>> /\ out[Len(out)] = "-" THEN out
    ELSE Append(out, "-")
Sanitizer == INSTANCE FoldFacts WITH Op <- Replace, Base <- <<>>

-----------------------------------------------------------------------------
(* Selecting from a sequence.                                              *)

\* A bounded set of numbers has a largest one.
LEMMA Largest ==
    ASSUME NEW n \in Nat, NEW S, S \subseteq 1 .. n, S # {}
    PROVE  \E x \in S : \A y \in S : x >= y
<1> DEFINE T == {n - x : x \in S}
<1>1. T \subseteq Nat /\ T # {}
  <2>1. \A x \in S : n - x \in Nat
    <3>1. \A x \in 1 .. n : n - x \in Nat
        OBVIOUS
    <3>2. QED BY <3>1
  <2>2. QED BY <2>1
<1>2. PICK t \in T : \A u \in T : t <= u
    BY <1>1, Sanitizer!Least
<1>3. PICK x \in S : t = n - x
    BY <1>2
<1>4. ASSUME NEW y \in S PROVE x >= y
  <2>1. n - y \in T
      OBVIOUS
  <2>2. n - x <= n - y
      BY <1>2, <1>3, <2>1
  <2>3. x \in Nat /\ y \in Nat
      OBVIOUS
  <2>4. QED BY <2>2, <2>3
<1>5. QED BY <1>4

Link == [family : 0 .. 6, nr : Nat]
LinkSet(links) == {links[i] : i \in DOMAIN links}

\* Of the links of a family that occurs, one is selected.
LEMMA Selected ==
    ASSUME NEW links \in Seq(Link), NEW f, \E i \in DOMAIN links : links[i].family = f
    PROVE  LET k == SelectInSeq(links, LAMBDA l : l.family = f) IN
           k \in DOMAIN links /\ links[k].family = f
<1> DEFINE I == {i \in 1 .. Len(links) : links[i].family = f}
<1>1. I \subseteq Nat /\ I # {} /\ DOMAIN links = 1 .. Len(links)
    OBVIOUS
<1>2. \E x \in I : \A y \in I : x <= y
    BY <1>1, Sanitizer!Least
<1>3. Min(I) \in I
    BY <1>2 DEF Min
<1>4. SelectInSeq(links, LAMBDA l : l.family = f) = Min(I)
    BY <1>1 DEF SelectInSeq
<1>5. QED BY <1>1, <1>3, <1>4

\* ResolvePredictablePath returns a link of the most stable family there is.
LEMMA PathOf ==
    ASSUME NEW links \in Seq(Link)
    PROVE  LET path == ResolvePredictablePath(links) IN
           \/ /\ path = KernelName
              /\ \A l \in LinkSet(links) : l.family = 0
           \/ /\ path \in LinkSet(links) /\ path.family \in 1 .. 6
              /\ \A l \in LinkSet(links) : l.family = 0 \/ path.family <= l.family
<1> DEFINE present == {f \in Families : \E i \in DOMAIN links : links[i].family = f}
           best == CHOOSE f \in present : \A g \in present : f <= g
<1>1. \A l \in LinkSet(links) : l.family = 0 \/ l.family \in present
  <2> SUFFICES ASSUME NEW i \in DOMAIN links, links[i].family # 0
               PROVE  links[i].family \in present
      BY DEF LinkSet
  <2>1. links[i] \in Link
      OBVIOUS
  <2>2. links[i].family \in 0 .. 6
      BY <2>1 DEF Link
  <2>3. links[i].family \in Families
      BY <2>2 DEF Families
  <2>4. QED BY <2>3
<1>2. CASE present = {}
  <2>1. ResolvePredictablePath(links) = KernelName
      BY <1>2 DEF ResolvePredictablePath
  <2>2. QED BY <1>1, <1>2, <2>1
<1>3. CASE present # {}
  <2>1. present \subseteq Nat
      BY DEF Families
  <2>2. best \in present /\ \A g \in present : best <= g
      BY <1>3, <2>1, Sanitizer!Least
  <2> HIDE DEF best
  <2>3. best \in 1 .. 6 /\ \E i \in DOMAIN links : links[i].family = best
      BY <2>2 DEF Families
  <2> DEFINE k == SelectInSeq(links, LAMBDA l : l.family = best)
  <2>4. k \in DOMAIN links /\ links[k].family = best
      BY <2>3, Selected
  <2>5. ResolvePredictablePath(links) = links[k]
      BY <1>3 DEF ResolvePredictablePath, best
  <2> HIDE DEF k, present
  <2>6. QED BY <1>1, <2>2, <2>3, <2>4, <2>5 DEF LinkSet
<1>4. QED BY <1>2, <1>3

\* The path depends on the set of the links: listed in another order, as often as
\* you like, they give a path of the same family, and the same path where that
\* family has one link or none (naming.go:38-56).
THEOREM PathOfSet ==
    ASSUME NEW links \in Seq(Link), NEW other \in Seq(Link),
           LinkSet(links) = LinkSet(other)
    PROVE  LET path == ResolvePredictablePath(links)
               again == ResolvePredictablePath(other)
           IN /\ again.family = path.family
              /\ (\A l, m \in LinkSet(links) :
                    l.family = path.family /\ m.family = path.family => l = m)
                 => again = path
              /\ path.family = 0 => again = path
<1> DEFINE path == ResolvePredictablePath(links)
           again == ResolvePredictablePath(other)
<1>1. \/ path = KernelName /\ \A l \in LinkSet(links) : l.family = 0
      \/ /\ path \in LinkSet(links) /\ path.family \in 1 .. 6
         /\ \A l \in LinkSet(links) : l.family = 0 \/ path.family <= l.family
    BY PathOf
<1>2. \/ again = KernelName /\ \A l \in LinkSet(links) : l.family = 0
      \/ /\ again \in LinkSet(links) /\ again.family \in 1 .. 6
         /\ \A l \in LinkSet(links) : l.family = 0 \/ again.family <= l.family
    BY PathOf
<1>3. KernelName.family = 0
    BY DEF KernelName
<1> HIDE DEF path, again
<1>4. CASE path = KernelName
  <2>1. again = KernelName
      BY <1>1, <1>2, <1>3, <1>4
  <2>2. QED BY <1>4, <2>1 DEF path, again
<1>5. CASE path # KernelName
  <2>1. path \in LinkSet(links) /\ path.family \in 1 .. 6
      BY <1>1, <1>5
  <2>2. again \in LinkSet(links) /\ again.family \in 1 .. 6
      BY <1>2, <2>1
  <2>3. path.family <= again.family /\ again.family <= path.family
      BY <1>1, <1>2, <1>3, <1>5, <2>1, <2>2
  <2>4. path.family = again.family
      BY <2>1, <2>2, <2>3
  <2>5. path.family # 0
      BY <2>1
  <2>6. QED BY <2>1, <2>2, <2>4, <2>5 DEF path, again
<1>6. QED BY <1>4, <1>5

-----------------------------------------------------------------------------
(* The links a text stands for.                                            *)

\* What is typed is a text of its alphabet.
Typed ==
    \/ text = NoText
    \/ text.kind \in DOMAIN Alphabet /\ text.chars \in Seq(Alphabet[text.kind])
       /\ text = [kind |-> text.kind, chars |-> text.chars]

\* The typed text stays one of its alphabet.
LEMMA TypedInvariant == MCSpec => []Typed
<1>1. MCInit => Typed
  <2>1. \A S : <<>> \in Seq(S)
      OBVIOUS
  <2> SUFFICES ASSUME MCInit, text # NoText PROVE Typed
      BY DEF Typed
  <2>2. PICK k \in DOMAIN Alphabet : text = [kind |-> k, chars |-> <<>>]
      BY DEF MCInit
  <2>3. text.kind = k /\ text.chars = <<>>
      BY <2>2
  <2>4. QED BY <2>1, <2>2, <2>3, Zenon DEF Typed
<1>2. Typed /\ [MCNext]_<<vars, text>> => Typed'
  <2> SUFFICES ASSUME Typed, [MCNext]_<<vars, text>> PROVE Typed'
      OBVIOUS
  <2>1. CASE text' = text
      BY <2>1 DEF Typed
  <2>2. CASE text # NoText /\ Type
    <3>1. PICK c \in Alphabet[text.kind] : text' = [text EXCEPT !.chars = Append(@, c)]
        BY <2>2 DEF Type
    <3>2. text'.kind = text.kind /\ text'.chars = Append(text.chars, c)
          /\ text' = [kind |-> text'.kind, chars |-> text'.chars]
        BY <2>2, <3>1 DEF Typed
    <3>3. Append(text.chars, c) \in Seq(Alphabet[text.kind])
      <4>1. text.chars \in Seq(Alphabet[text.kind])
          BY <2>2 DEF Typed
      <4>2. \A S : \A s \in Seq(S) : \A x \in S : Append(s, x) \in Seq(S)
          OBVIOUS
      <4>3. QED BY <3>1, <4>1, <4>2, Zenon
    <3>4. QED BY <2>2, <3>2, <3>3 DEF Typed
  <2>3. CASE text # NoText /\ Clear
    <3>1. text'.kind = text.kind /\ text'.chars = <<>>
          /\ text' = [kind |-> text'.kind, chars |-> text'.chars]
        BY <2>3 DEF Typed, Clear
    <3>2. QED BY <2>3, <3>1 DEF Typed
  <2>4. QED BY <2>1, <2>2, <2>3 DEF MCNext
<1>3. QED BY <1>1, <1>2, PTL DEF MCSpec

\* The links of a text, and the same with two of them swapped.
LEMMA LinksOf ==
    ASSUME NEW families \in Seq(0 .. 6)
    PROVE  LET links == Links(families) IN
           /\ links \in Seq(Link) /\ DOMAIN links = 1 .. Len(families)
           /\ \A i \in DOMAIN links : links[i].nr = i
           /\ \A i, j \in DOMAIN links :
                /\ Swapped(links, i, j) \in Seq(Link)
                /\ LinkSet(Swapped(links, i, j)) = LinkSet(links)
<1> DEFINE links == Links(families)
<1>1. DOMAIN families = 1 .. Len(families) /\ Len(families) \in Nat
      /\ \A i \in DOMAIN families : families[i] \in 0 .. 6
    OBVIOUS
<1>2. /\ DOMAIN links = 1 .. Len(families)
      /\ \A i \in 1 .. Len(families) : links[i] = [family |-> families[i], nr |-> i]
    BY <1>1 DEF Links
<1>3. \A i \in 1 .. Len(families) : links[i] \in Link /\ links[i].nr = i
    BY <1>1, <1>2 DEF Link
<1>4. links = [i \in 1 .. Len(families) |-> links[i]]
    BY <1>1 DEF Links
<1> HIDE DEF links
<1>5. links \in [1 .. Len(families) -> Link]
    BY <1>3, <1>4
<1>6. links \in Seq(Link)
    BY <1>1, <1>5
<1>7. ASSUME NEW i \in DOMAIN links, NEW j \in DOMAIN links
      PROVE  /\ Swapped(links, i, j) \in Seq(Link)
             /\ LinkSet(Swapped(links, i, j)) = LinkSet(links)
  <2> DEFINE other == Swapped(links, i, j)
  <2>1. \A k \in DOMAIN links : k # i /\ k # j => other[k] = links[k]
      BY DEF Swapped
  <2>2. other[i] = links[j] /\ other[j] = links[i] /\ DOMAIN other = DOMAIN links
      BY DEF Swapped
  <2>3. other \in [1 .. Len(families) -> Link]
      BY <1>2, <1>5 DEF Swapped
  <2> HIDE DEF other
  <2>4. other \in Seq(Link)
      BY <1>1, <2>3
  <2>5. LinkSet(other) = LinkSet(links)
    <3>1. \A k \in DOMAIN links : other[k] \in LinkSet(links)
        BY <2>1, <2>2 DEF LinkSet
    <3>2. \A k \in DOMAIN links : links[k] \in LinkSet(other)
        BY <2>1, <2>2 DEF LinkSet
    <3>3. QED BY <2>2, <3>1, <3>2 DEF LinkSet
  <2>6. QED BY <2>4, <2>5 DEF other
<1>8. QED BY <1>2, <1>3, <1>6, <1>7 DEF links

\* The property of the run holds of every text that can be typed.
LEMMA TypedPaths == Typed => PathIgnoresLinkOrder
<1> SUFFICES ASSUME Typed, text.kind = "links" PROVE PathIgnoresLinkOrder
    BY DEF PathIgnoresLinkOrder
<1> DEFINE links == Links(text.chars)
           path == ResolvePredictablePath(links)
           family == {i \in DOMAIN links : links[i].family = path.family}
<1>1. text.chars \in Seq(0 .. 6)
  <2>1. text # NoText
      BY DEF NoText
  <2>2. text.chars \in Seq(Alphabet["links"])
      BY <2>1 DEF Typed
  <2>3. Alphabet["links"] = 0 .. 6
      BY DEF Alphabet, Families
  <2>4. QED BY <2>2, <2>3
<1>2. /\ links \in Seq(Link)
      /\ \A i \in DOMAIN links : links[i].nr = i
      /\ \A i, j \in DOMAIN links :
           /\ Swapped(links, i, j) \in Seq(Link)
           /\ LinkSet(Swapped(links, i, j)) = LinkSet(links)
    BY <1>1, LinksOf
<1> HIDE DEF links
<1>3. \/ path = KernelName /\ \A l \in LinkSet(links) : l.family = 0
      \/ /\ path \in LinkSet(links) /\ path.family \in 1 .. 6
         /\ \A l \in LinkSet(links) : l.family = 0 \/ path.family <= l.family
    BY <1>2, PathOf
<1> HIDE DEF path
<1>4. ASSUME NEW i \in DOMAIN links, links[i].family # 0
      PROVE  path.family \in 1 .. links[i].family
  <2>1. links[i] \in LinkSet(links) /\ links[i] \in Link
      BY <1>2 DEF LinkSet
  <2>2. links[i].family \in 0 .. 6
      BY <2>1 DEF Link
  <2>3. path.family \in 1 .. 6 /\ path.family <= links[i].family
      BY <1>3, <1>4, <2>1
  <2>4. QED BY <2>2, <2>3
<1>5. ASSUME NEW i \in DOMAIN links, NEW j \in DOMAIN links
      PROVE  LET other == ResolvePredictablePath(Swapped(links, i, j)) IN
             /\ other.family = path.family
             /\ path.family = 0 \/ family = {path.nr} => other = path
  <2> DEFINE other == ResolvePredictablePath(Swapped(links, i, j))
  <2>1. /\ other.family = path.family
        /\ (\A l, m \in LinkSet(links) :
              l.family = path.family /\ m.family = path.family => l = m) => other = path
        /\ path.family = 0 => other = path
      BY <1>2, PathOfSet DEF path
  <2> HIDE DEF other
  <2>2. family = {path.nr} =>
          \A l, m \in LinkSet(links) :
              l.family = path.family /\ m.family = path.family => l = m
      BY DEF LinkSet
  <2>3. QED BY <2>1, <2>2 DEF other
<1>6. QED BY <1>4, <1>5 DEF PathIgnoresLinkOrder, links, path

\* The path of a disk does not depend on the order of its links, and it is one of
\* the most stable family (ResolvePredictablePath, naming.go:38-56).
THEOREM PathStable == MCSpec => []PathIgnoresLinkOrder
BY TypedInvariant, TypedPaths, PTL

-----------------------------------------------------------------------------
(* Truncated names.                                                        *)

\* TrimRight leaves a prefix that does not end in a character to drop.
LEMMA TrimRightPrefix ==
    ASSUME NEW S, NEW s \in Seq(S), NEW cut
    PROVE  LET t == TrimRight(s, cut) IN
           /\ t \in Seq(S) /\ Len(t) <= Len(s)
           /\ t # <<>> => t[Len(t)] \notin cut
           /\ \A i \in 1 .. Len(t) : t[i] = s[i]
           /\ s # <<>> /\ s[1] \notin cut => t # <<>>
<1> DEFINE I == {i \in 1 .. Len(s) : s[i] \notin cut}
           n == SelectLastInSeq(s, LAMBDA c : c \notin cut)
<1>1. Len(s) \in Nat
    OBVIOUS
<1>2. n = IF I # {} THEN Max(I) ELSE 0
    BY DEF SelectLastInSeq
<1>3. I # {} => Max(I) \in I
  <2>1. I # {} => \E x \in I : \A y \in I : x >= y
      BY <1>1, Largest
  <2>2. QED BY <2>1 DEF Max
<1>4. n \in 0 .. Len(s) /\ (n # 0 => s[n] \notin cut)
    BY <1>1, <1>2, <1>3
<1>9. s # <<>> /\ s[1] \notin cut => n # 0
  <2>1. s # <<>> => 1 \in 1 .. Len(s)
      BY <1>1
  <2>2. s # <<>> /\ s[1] \notin cut => I # {}
      BY <2>1
  <2>3. QED BY <1>2, <1>3, <2>2
<1>5. TrimRight(s, cut) = SubSeq(s, 1, n)
    BY DEF TrimRight
<1> HIDE DEF n, I
<1>6. /\ SubSeq(s, 1, n) \in Seq(S) /\ Len(SubSeq(s, 1, n)) = n
      /\ n # 0 => SubSeq(s, 1, n)[n] = s[n]
  <2>1. n \in Nat /\ n <= Len(s)
      BY <1>1, <1>4
  <2>2. SubSeq(s, 1, n) \in Seq(S) /\ Len(SubSeq(s, 1, n)) = n
      BY <1>1, <2>1
  <2>3. n # 0 => SubSeq(s, 1, n)[n] = s[n]
      BY <1>1, <2>1
  <2>4. QED BY <2>2, <2>3
<1>7. SubSeq(s, 1, n) # <<>> <=> n # 0
  <2>1. SubSeq(s, 1, n) # <<>> => n # 0
      BY <1>6
  <2>2. n # 0 => SubSeq(s, 1, n) # <<>>
      BY <1>6
  <2>3. QED BY <2>1, <2>2
<1>10. \A i \in 1 .. n : SubSeq(s, 1, n)[i] = s[i]
  <2>1. n \in Nat /\ n <= Len(s)
      BY <1>1, <1>4
  <2>2. QED BY <1>1, <2>1
<1>8. QED BY <1>1, <1>4, <1>5, <1>6, <1>7, <1>9, <1>10

\* Whatever the names of the node and of the disk are once they are sanitized, the
\* name of the resource fits Kubernetes' limit, does not end in a hyphen or a period
\* where it was cut, and is that of no other full name (naming.go:97-111): for every
\* limit and hash that fits.
THEOREM TruncatedName ==
    ASSUME NEW S, NEW node, NEW info, FullName(node, info) \in Seq(S)
    PROVE  LET name == GenerateCRName(node, info) IN
           /\ Length(name) <= MaxLen
           /\ name.text # FullName(node, info) /\ name.text # <<>> =>
                name.text[Len(name.text)] \notin {"-", "."}
           /\ \A node2, info2 : GenerateCRName(node2, info2) = name =>
                FullName(node2, info2) = FullName(node, info)
<1> DEFINE full == FullName(node, info)
           name == GenerateCRName(node, info)
           room == MaxLen - (1 + HashLen)
           kept == SubSeq(full, 1, room)
           text1 == TrimRight(kept, {"-", "."})
<1>1. MaxLen \in Nat /\ HashLen \in Nat /\ room \in Nat /\ room <= MaxLen
    BY LengthsAssumption
<1>2. full \in Seq(S) /\ Len(full) \in Nat
    OBVIOUS
<1>3. \A node2, info2 :
        GenerateCRName(node2, info2) =
          IF Len(FullName(node2, info2)) <= MaxLen
          THEN [text |-> FullName(node2, info2), hash |-> <<>>]
          ELSE [text |-> TrimRight(SubSeq(FullName(node2, info2), 1, room), {"-", "."}),
                hash |-> FullName(node2, info2)]
    BY DEF GenerateCRName, Named
<1>4. \A node2, info2 :
        ~(Len(FullName(node2, info2)) <= MaxLen) => FullName(node2, info2) # <<>>
  <2>1. Len(<<>>) = 0 /\ 0 <= MaxLen
      BY <1>1
  <2>2. QED BY <2>1
<1> HIDE DEF room
<1>5. CASE Len(full) <= MaxLen
  <2>1. name = [text |-> full, hash |-> <<>>]
      BY <1>3, <1>5
  <2> HIDE DEF name, full
  <2>2. name.text = full /\ name.hash = <<>>
      BY <2>1
  <2>3. Length(name) = Len(full)
      BY <1>2, <2>2 DEF Length
  <2>4. ASSUME NEW node2, NEW info2, GenerateCRName(node2, info2) = name
        PROVE  FullName(node2, info2) = full
      BY <1>3, <1>4, <2>2, <2>4
  <2>5. QED BY <1>5, <2>2, <2>3, <2>4 DEF name, full
<1>6. CASE ~(Len(full) <= MaxLen)
  <2>1. name = [text |-> text1, hash |-> full] /\ full # <<>>
      BY <1>3, <1>4, <1>6
  <2>2. kept \in Seq(S) /\ Len(kept) = room
    <3>1. room <= Len(full)
        BY <1>1, <1>2, <1>6
    <3>2. QED BY <1>1, <1>2, <3>1
  <2> HIDE DEF kept
  <2>3. /\ text1 \in Seq(S) /\ Len(text1) <= room
        /\ text1 # <<>> => text1[Len(text1)] \notin {"-", "."}
      BY <2>2, TrimRightPrefix
  <2> HIDE DEF name, full, text1
  <2>4. name.text = text1 /\ name.hash = full
      BY <2>1
  <2>5. Length(name) = Len(text1) + (1 + HashLen)
      BY <2>1, <2>4 DEF Length
  <2>6. Length(name) <= MaxLen
    <3>1. Len(text1) \in Nat
        BY <2>3
    <3>2. QED BY <1>1, <2>3, <2>5, <3>1 DEF room
  <2>7. ASSUME NEW node2, NEW info2, GenerateCRName(node2, info2) = name
        PROVE  FullName(node2, info2) = full
      BY <1>3, <2>1, <2>4, <2>7
  <2>8. QED BY <2>3, <2>4, <2>6, <2>7 DEF name, full
<1>7. QED BY <1>5, <1>6

-----------------------------------------------------------------------------
(* The form of names.                                                      *)

\* A part of a text has its neighbours.
LEMMA PartPeriods ==
    ASSUME NEW s, PeriodsApart(s), NEW m \in Nat, NEW t, Len(s) \in Nat, Len(t) \in Nat,
           m + Len(t) <= Len(s), \A i \in 1 .. Len(t) : t[i] = s[m + i]
    PROVE  PeriodsApart(t)
<1> SUFFICES ASSUME NEW i \in 1 .. Len(t) - 1, "." \in {t[i], t[i + 1]}
             PROVE  ToLower(t[i]) \in Alphanumeric \/ ToLower(t[i + 1]) \in Alphanumeric
  BY Zenon DEF PeriodsApart
<1>1. /\ t[i] = s[m + i] /\ t[i + 1] = s[m + i + 1] /\ m + i \in 1 .. Len(s) - 1
  BY m + (i + 1) = m + i + 1
<1> QED BY <1>1, Zenon DEF PeriodsApart

\* Trimming at both ends leaves a part of the text, with neither end to drop.
LEMMA TrimmedEnds ==
    ASSUME NEW S, NEW s \in Seq(S), NEW cut
    PROVE  LET t == Trim(s, cut) IN
           /\ t \in Seq(S) /\ (t # <<>> => t[1] \notin cut /\ t[Len(t)] \notin cut)
           /\ PeriodsApart(s) => PeriodsApart(t)
<1> DEFINE r == TrimRight(s, cut)
           I == {i \in 1 .. Len(r) : r[i] \notin cut}
           first == SelectInSeq(r, LAMBDA c : c \notin cut)
           t == IF first = 0 THEN <<>> ELSE SubSeq(r, first, Len(r))
<1>1. r \in Seq(S) /\ (r # <<>> => r[Len(r)] \notin cut)  BY TrimRightPrefix
<1>8. PeriodsApart(s) => PeriodsApart(r)
  <2>1. Len(r) \in Nat /\ Len(s) \in Nat /\ Len(r) <= Len(s)
        /\ \A i \in 1 .. Len(r) : r[i] = s[i]
    BY TrimRightPrefix
  <2> HIDE DEF r
  <2>2. 0 + Len(r) <= Len(s) /\ \A i \in 1 .. Len(r) : r[i] = s[0 + i]  BY <2>1
  <2> QED BY <2>1, <2>2, PartPeriods
<1>2. Trim(s, cut) = t  BY DEF Trim, TrimLeft
<1> HIDE DEF r
<1>3. first = IF I # {} THEN Min(I) ELSE 0  BY DEF SelectInSeq
<1>4. I # {} => Min(I) \in I
  <2>1. I \subseteq Nat  BY <1>1
  <2>2. I # {} => \E x \in I : \A y \in I : x <= y  BY <2>1, Sanitizer!Least
  <2> QED BY <2>2 DEF Min
<1>5. first = 0 \/ first \in I  BY <1>3, <1>4
<1> HIDE DEF first
<1>6. CASE first = 0
  <2>1. t = <<>> /\ PeriodsApart(<<>>) /\ <<>> \in Seq(S)  BY <1>6 DEF PeriodsApart
  <2> HIDE DEF t
  <2> QED BY <1>2, <2>1
<1>7. CASE first # 0
  <2>1. first \in 1 .. Len(r) /\ r[first] \notin cut  BY <1>5, <1>7
  <2>2. t = SubSeq(r, first, Len(r))  BY <1>7
  <2>3. /\ t \in Seq(S) /\ Len(t) = Len(r) - first + 1 /\ t[1] = r[first]
        /\ t[Len(r) - first + 1] = r[Len(r)]
    BY <1>1, <2>1, <2>2
  <2>4. r # <<>>  BY <1>1, <2>1
  <2>5. PeriodsApart(r) => PeriodsApart(t)
    <3>1. /\ first - 1 \in Nat /\ Len(r) \in Nat /\ Len(t) \in Nat
          /\ (first - 1) + Len(t) <= Len(r)
      BY <1>1, <2>1, <2>3
    <3>2. \A i \in 1 .. Len(t) : t[i] = r[(first - 1) + i]
      BY <1>1, <2>1, <2>2
    <3> HIDE DEF t
    <3> QED BY <3>1, <3>2, PartPeriods
  <2> HIDE DEF t
  <2> QED BY <1>1, <1>2, <1>8, <2>1, <2>3, <2>4, <2>5
<1> QED BY <1>6, <1>7

\* The loop writes lower-case characters of the text, and hyphens.
LEMMA SanitizedChars ==
    ASSUME NEW C, NEW L, NEW s \in Seq(C),
           \A c \in C : ToLower(c) \in Allowed => ToLower(c) \in L
    PROVE  Sanitizer!Fold(s) \in Seq(L \cup {"-"})
<1> DEFINE n == Len(s)
           F(k) == Sanitizer!Fold(SubSeq(s, 1, k))
           S == {k \in 0 .. n : F(k) \in Seq(L \cup {"-"})}
<1>1. n \in Nat /\ SubSeq(s, 1, 0) = <<>> /\ SubSeq(s, 1, n) = s
      /\ \A k \in 1 .. n : s[k] \in C
  OBVIOUS
<1>2. 0 \in S
  <2>1. F(0) = <<>>  BY <1>1, Sanitizer!FoldEmpty, Zenon
  <2>2. <<>> \in Seq(L \cup {"-"}) /\ 0 \in 0 .. n  BY <1>1
  <2> QED BY <2>1, <2>2, Zenon
<1>3. ASSUME NEW k \in 0 .. n, k < n, k \in S PROVE k + 1 \in S
  <2>1. k + 1 \in 1 .. n /\ k + 1 \in 0 .. n /\ k + 1 - 1 = k  BY <1>1, <1>3
  <2>2. F(k + 1) = Replace(F(k), s[k + 1])
    <3>1. F(k + 1) = Replace(F(k + 1 - 1), s[k + 1])  BY <2>1, Sanitizer!FoldPrefix
    <3> QED BY <2>1, <3>1
  <2> DEFINE c == s[k + 1]
             f == F(k)
  <2>3. c \in C /\ f \in Seq(L \cup {"-"})  BY <1>1, <1>3, <2>1
  <2> HIDE DEF c, f
  <2>4. Replace(f, c) \in Seq(L \cup {"-"})
    <3>1. CASE ToLower(c) \in Allowed
      <4>1. ToLower(c) \in L \cup {"-"}  BY <2>3, <3>1
      <4>2. Append(f, ToLower(c)) \in Seq(L \cup {"-"})  BY <2>3, <4>1
      <4> QED BY <3>1, <4>2, Zenon DEF Replace
    <3>2. CASE ToLower(c) \notin Allowed
      <4>1. Append(f, "-") \in Seq(L \cup {"-"})  BY <2>3
      <4> QED BY <2>3, <3>2, <4>1, Zenon DEF Replace
    <3> QED BY <3>1, <3>2
  <2> QED BY <2>1, <2>2, <2>4, Zenon DEF c, f
<1>4. \A k \in 0 .. n : k \in S
  <2> HIDE DEF S, n
  <2> QED BY <1>1, <1>2, <1>3, Sanitizer!Induct
<1>5. n \in S
  <2> HIDE DEF S, n
  <2> QED BY <1>1, <1>4
<1> QED BY <1>1, <1>5

\* The loop puts nothing but a letter or a digit next to a period, if the text has
\* nothing else there: what it has written ends in the last character, or in a hyphen
\* in its place.
LEMMA SanitizedPeriods ==
    ASSUME NEW C, NEW s \in Seq(C), PeriodsApart(s)
    PROVE  PeriodsApart(Sanitizer!Fold(s))
<1> DEFINE n == Len(s)
           X == Allowed \cup {"-"}
           F(k) == Sanitizer!Fold(SubSeq(s, 1, k))
           LastOf(c) == IF ToLower(c) \in Allowed THEN ToLower(c) ELSE "-"
           Good(f, k) == /\ f \in Seq(X) /\ PeriodsApart(f)
                         /\ k # 0 => f # <<>> /\ f[Len(f)] = LastOf(s[k])
           S == {k \in 0 .. n : Good(F(k), k)}
<1>1. n \in Nat /\ SubSeq(s, 1, 0) = <<>> /\ SubSeq(s, 1, n) = s
  OBVIOUS
<1>2. 0 \in S
  <2>1. F(0) = <<>>  BY <1>1, Sanitizer!FoldEmpty, Zenon
  <2>2. <<>> \in Seq(X) /\ PeriodsApart(<<>>) /\ 0 \in 0 .. n
    BY <1>1 DEF PeriodsApart
  <2> QED BY <2>1, <2>2, Zenon
<1>3. ASSUME NEW k \in 0 .. n, k < n, k \in S PROVE k + 1 \in S
  <2>1. k + 1 \in 1 .. n /\ k + 1 \in 0 .. n /\ k + 1 - 1 = k  BY <1>1, <1>3
  <2>2. F(k + 1) = Replace(F(k), s[k + 1])
    <3>1. F(k + 1) = Replace(F(k + 1 - 1), s[k + 1])  BY <2>1, Sanitizer!FoldPrefix
    <3> QED BY <2>1, <3>1
  <2> DEFINE c == s[k + 1]
             f == F(k)
             g == Replace(f, c)
  <2>3. /\ f \in Seq(X) /\ PeriodsApart(f)
        /\ k # 0 => f # <<>> /\ f[Len(f)] = LastOf(s[k])
    BY <1>3
  <2>4. k = 0 => f = <<>>
    BY <1>1, Sanitizer!FoldEmpty, Zenon
  <2>5. k # 0 => ("." \in {s[k], c} =>
                     ToLower(s[k]) \in Alphanumeric \/ ToLower(c) \in Alphanumeric)
    <3>1. k # 0 => k \in 1 .. Len(s) - 1  BY <1>1, <1>3
    <3> HIDE DEF n
    <3> QED BY <3>1, Zenon DEF PeriodsApart
  <2> HIDE DEF c, f
  <2>6. ASSUME NEW d \in X, NEW h, h = Append(f, d),
               f # <<>> /\ "." \in {f[Len(f)], d} =>
                   ToLower(f[Len(f)]) \in Alphanumeric \/ ToLower(d) \in Alphanumeric
        PROVE  h \in Seq(X) /\ PeriodsApart(h) /\ h # <<>> /\ h[Len(h)] = d
    <3> HIDE DEF X
    <3>1. /\ h \in Seq(X) /\ Len(h) = Len(f) + 1 /\ h # <<>> /\ h[Len(h)] = d
          /\ \A i \in 1 .. Len(f) : h[i] = f[i]
          /\ Len(f) \in Nat /\ (Len(f) # 0 => f # <<>>) /\ h[Len(f) + 1] = d
      BY <2>3, <2>6
    <3>2. ASSUME NEW i \in 1 .. Len(h) - 1, "." \in {h[i], h[i + 1]}
          PROVE  ToLower(h[i]) \in Alphanumeric \/ ToLower(h[i + 1]) \in Alphanumeric
      <4>1. CASE i = Len(f)
        <5>1. f # <<>> /\ h[i] = f[Len(f)] /\ h[i + 1] = d
          BY <3>1, <3>2, <4>1
        <5> QED BY <2>6, <3>2, <5>1, Zenon
      <4>2. CASE i # Len(f)
        <5>1. i \in 1 .. Len(f) - 1 /\ h[i] = f[i] /\ h[i + 1] = f[i + 1]
          BY <3>1, <3>2, <4>2
        <5> QED BY <2>3, <3>2, <5>1, Zenon DEF PeriodsApart
      <4> QED BY <4>1, <4>2
    <3>3. PeriodsApart(h)
      BY <3>2, Zenon DEF PeriodsApart
    <3> QED BY <3>1, <3>3
  <2>7. g \in Seq(X) /\ PeriodsApart(g) /\ g # <<>> /\ g[Len(g)] = LastOf(c)
    <3>1. CASE ToLower(c) \in Allowed
      <4> DEFINE d == ToLower(c)
      <4>1. g = Append(f, d) /\ LastOf(c) = d  BY <3>1 DEF Replace
      <4>2. f # <<>> /\ "." \in {f[Len(f)], d} =>
                ToLower(f[Len(f)]) \in Alphanumeric \/ ToLower(d) \in Alphanumeric
        <5>1. ToLower(d) = d /\ (d = "." => c = ".") /\ d \in X
          BY <3>1 DEF ToLower, Allowed, Alphanumeric
        <5> QED BY <2>3, <2>4, <2>5, <3>1, <5>1 DEF ToLower, Allowed, Alphanumeric
      <4>3. d \in X  BY <3>1
      <4> HIDE DEF d, g, X
      <4> QED BY <2>6, <4>1, <4>2, <4>3
    <3>2. CASE ToLower(c) \notin Allowed /\ f # <<>> /\ f[Len(f)] = "-"
      BY <2>3, <3>2 DEF Replace
    <3>3. CASE ToLower(c) \notin Allowed /\ ~(f # <<>> /\ f[Len(f)] = "-")
      <4>1. g = Append(f, "-") /\ LastOf(c) = "-"  BY <3>3 DEF Replace
      <4>2. f # <<>> /\ "." \in {f[Len(f)], "-"} =>
                ToLower(f[Len(f)]) \in Alphanumeric \/ ToLower("-") \in Alphanumeric
        BY <2>3, <2>4, <2>5, <3>3 DEF ToLower, Allowed, Alphanumeric
      <4>3. "-" \in X  OBVIOUS
      <4> HIDE DEF g, X
      <4> QED BY <2>6, <4>1, <4>2, <4>3
    <3> QED BY <3>1, <3>2, <3>3
  <2> HIDE DEF g, LastOf, X
  <2>8. F(k + 1) = g
    BY <2>2 DEF g, f, c
  <2>9. Good(F(k + 1), k + 1)
    BY <2>7, <2>8 DEF c
  <2> QED BY <2>1, <2>9
<1>4. \A k \in 0 .. n : k \in S
  <2> HIDE DEF S, n
  <2> QED BY <1>1, <1>2, <1>3, Sanitizer!Induct
<1>5. n \in S
  <2> HIDE DEF S, n
  <2> QED BY <1>1, <1>4
<1> QED BY <1>1, <1>5

\* Allowed characters and hyphens, alphanumeric at both ends.
Trimmed(t) ==
    /\ t \in Seq(Allowed \cup {"-"}) /\ t # <<>>
    /\ t[1] \in Alphanumeric /\ t[Len(t)] \in Alphanumeric

\* What is left of a text.
LEMMA SanitizedIs ==
    ASSUME NEW C, NEW L, L \subseteq Allowed, NEW s \in Seq(C),
           \A c \in C : ToLower(c) \in Allowed => ToLower(c) \in L
    PROVE  LET t == SanitizeRFC1123Subdomain(s) IN
           /\ t \in Seq(L \cup {"-"}) /\ (t # <<>> => Trimmed(t))
           /\ PeriodsApart(s) => PeriodsApart(t)
<1> DEFINE f == Sanitizer!Fold(s)
           t == Trim(f, {"-", "."})
<1>1. SanitizeRFC1123Subdomain(s) = t
  <2>1. ReplaceRuns(s) = f
    BY DEF ReplaceRuns, FoldLeft, MapThenFoldSet, Max, Sanitizer!Fold, Sanitizer!Greatest,
           Replace
  <2> HIDE DEF f
  <2> QED BY <2>1, Zenon DEF SanitizeRFC1123Subdomain
<1>2. f \in Seq(L \cup {"-"}) /\ (PeriodsApart(s) => PeriodsApart(f))
  BY SanitizedChars, SanitizedPeriods
<1> HIDE DEF f
<1>3. /\ t \in Seq(L \cup {"-"})
      /\ t # <<>> => t[1] \notin {"-", "."} /\ t[Len(t)] \notin {"-", "."}
      /\ PeriodsApart(s) => PeriodsApart(t)
  BY <1>2, TrimmedEnds
<1> HIDE DEF t
<1>4. ASSUME t # <<>> PROVE Trimmed(t)
  <2>1. t[1] \in L \cup {"-"} /\ t[Len(t)] \in L \cup {"-"}  BY <1>3, <1>4
  <2>2. t[1] \in Alphanumeric /\ t[Len(t)] \in Alphanumeric
    BY <1>3, <1>4, <2>1 DEF Allowed
  <2>3. t \in Seq(Allowed \cup {"-"})
    <3>1. L \cup {"-"} \subseteq Allowed \cup {"-"}  OBVIOUS
    <3>2. \A A, B : A \subseteq B => Seq(A) \subseteq Seq(B)  OBVIOUS
    <3> QED BY <1>3, <3>1, <3>2, Zenon
  <2> QED BY <1>4, <2>2, <2>3 DEF Trimmed
<1> QED BY <1>1, <1>3, <1>4

\* The identifier of a disk is one of its texts, the WWN if there is one.
LEMMA RawIDIs ==
    ASSUME NEW C, NEW info,
           info.WWN \in Seq(C), info.SerialShort \in Seq(C), info.Serial \in Seq(C),
           info.PathBase \in Seq(C), info.Name \in Seq(C)
    PROVE  /\ RawID(info) \in Seq(C) /\ (info.WWN # <<>> => RawID(info) = info.WWN)
           /\ RawID(info) \in {<<>>, info.WWN, info.SerialShort, info.Serial,
                               info.PathBase, info.Name}
<1> DEFINE ids == <<info.WWN, info.SerialShort, info.Serial, info.PathBase, info.Name>>
           I == {j \in 1 .. Len(ids) : ids[j] # <<>>}
           i == SelectInSeq(ids, LAMBDA id : id # <<>>)
<1>1. /\ Len(ids) = 5 /\ ids[1] = info.WWN
      /\ \A j \in 1 .. 5 : ids[j] \in Seq(C)
  OBVIOUS
<1>9. \A j \in 1 .. 5 : ids[j] \in {info.WWN, info.SerialShort, info.Serial,
                                    info.PathBase, info.Name}
  OBVIOUS
<1>2. RawID(info) = IF i = 0 THEN <<>> ELSE ids[i]  BY DEF RawID
<1>3. i = IF I # {} THEN Min(I) ELSE 0  BY DEF SelectInSeq
<1> HIDE DEF ids, i
<1>4. I \subseteq 1 .. 5 /\ I \subseteq Nat  BY <1>1
<1>5. I # {} => Min(I) \in I /\ \A j \in I : Min(I) <= j
  <2>1. I # {} => \E x \in I : \A y \in I : x <= y  BY <1>4, Sanitizer!Least
  <2> QED BY <2>1 DEF Min
<1>6. i = 0 \/ i \in 1 .. 5  BY <1>3, <1>4, <1>5
<1>7. ASSUME info.WWN # <<>> PROVE i = 1
  <2>1. 1 \in I  BY <1>1, <1>7
  <2>2. i \in I /\ i <= 1  BY <1>3, <1>5, <2>1
  <2> QED BY <1>4, <2>2
<1> HIDE DEF I
<1>8. <<>> \in Seq(C)  OBVIOUS
<1>10. /\ RawID(info) \in Seq(C)
       /\ RawID(info) \in {<<>>, info.WWN, info.SerialShort, info.Serial,
                           info.PathBase, info.Name}
  BY <1>1, <1>2, <1>6, <1>8, <1>9
<1> QED BY <1>1, <1>2, <1>7, <1>10

\* A part of a name.
LEMMA CleanIs ==
    ASSUME NEW C, NEW s \in Seq(C), NEW default, Trimmed(default)
    PROVE  /\ Trimmed(Clean(s, default))
           /\ PeriodsApart(s) /\ PeriodsApart(default) => PeriodsApart(Clean(s, default))
<1> DEFINE t == SanitizeRFC1123Subdomain(s)
<1>1. (t # <<>> => Trimmed(t)) /\ (PeriodsApart(s) => PeriodsApart(t))  BY SanitizedIs
<1> HIDE DEF t
<1> QED BY <1>1 DEF Clean, t

\* Two parts with a hyphen between them: no period touches the hyphen.
LEMMA FullNameIs ==
    ASSUME NEW C, NEW node \in Seq(C), NEW info, RawID(info) \in Seq(C)
    PROVE  /\ Trimmed(FullName(node, info))
           /\ PeriodsApart(node) /\ PeriodsApart(RawID(info)) =>
                PeriodsApart(FullName(node, info))
<1> DEFINE s == Clean(node, <<"a">>)
           t == Clean(RawID(info), <<"b">>)
           X == Allowed \cup {"-"}
<1>1. Trimmed(<<"a">>) /\ Trimmed(<<"b">>)
  BY DEF Trimmed, Allowed, Alphanumeric
<1>8. PeriodsApart(<<"a">>) /\ PeriodsApart(<<"b">>)  BY DEF PeriodsApart
<1>2. /\ Trimmed(s) /\ Trimmed(t)
      /\ PeriodsApart(node) => PeriodsApart(s)
      /\ PeriodsApart(RawID(info)) => PeriodsApart(t)
  BY <1>1, <1>8, CleanIs
<1>3. FullName(node, info) = s \o <<"-">> \o t  BY DEF FullName
<1> HIDE DEF s, t
<1>4. s \in Seq(X) /\ t \in Seq(X) /\ s # <<>> /\ t # <<>>  BY <1>2 DEF Trimmed
<1>5. "-" \in X  OBVIOUS
<1> HIDE DEF X
<1> DEFINE u == s \o <<"-">> \o t
<1>6. /\ u \in Seq(X) /\ u # <<>> /\ u[1] = s[1]
      /\ Len(u) = Len(s) + 1 + Len(t) /\ u[Len(s) + 1 + Len(t)] = t[Len(t)]
      /\ Len(s) \in Nat /\ Len(t) \in Nat
  BY <1>4, <1>5
<1>9. /\ \A i \in 1 .. Len(s) : u[i] = s[i]
      /\ u[Len(s) + 1] = "-"
      /\ \A i \in 1 .. Len(t) : u[Len(s) + 1 + i] = t[i]
  BY <1>4, <1>5
<1> HIDE DEF u
<1>7. Trimmed(u)  BY <1>2, <1>6 DEF Trimmed, X
<1>10. ASSUME PeriodsApart(s), PeriodsApart(t), NEW i \in 1 .. Len(u) - 1,
              "." \in {u[i], u[i + 1]}
       PROVE  ToLower(u[i]) \in Alphanumeric \/ ToLower(u[i + 1]) \in Alphanumeric
  <2>0. /\ s[Len(s)] \in Alphanumeric /\ t[1] \in Alphanumeric
        /\ \A c \in Alphanumeric : ToLower(c) \in Alphanumeric
    BY <1>2 DEF Trimmed, ToLower, Alphanumeric
  <2>1. CASE i < Len(s)
    <3>1. i \in 1 .. Len(s) - 1 /\ u[i] = s[i] /\ u[i + 1] = s[i + 1]
      BY <1>6, <1>9, <1>10, <2>1
    <3> QED BY <1>10, <3>1, Zenon DEF PeriodsApart
  <2>2. CASE i = Len(s)
    <3>1. u[i] = s[Len(s)]  BY <1>6, <1>9, <1>10, <2>2
    <3> QED BY <2>0, <3>1, Zenon
  <2>3. CASE i = Len(s) + 1
    <3>1. u[i + 1] = t[1]  BY <1>6, <1>9, <1>10, <2>3
    <3> QED BY <2>0, <3>1, Zenon
  <2>4. CASE i > Len(s) + 1
    <3> DEFINE j == i - (Len(s) + 1)
    <3>1. /\ j \in 1 .. Len(t) - 1 /\ j \in 1 .. Len(t) /\ j + 1 \in 1 .. Len(t)
          /\ i = Len(s) + 1 + j /\ i + 1 = Len(s) + 1 + (j + 1)
      BY <1>6, <1>10, <2>4
    <3> HIDE DEF j
    <3>2. u[i] = t[j] /\ u[i + 1] = t[j + 1]  BY <1>9, <3>1, Zenon
    <3> QED BY <1>10, <3>1, <3>2, Zenon DEF PeriodsApart
  <2> QED BY <1>6, <1>10, <2>1, <2>2, <2>3, <2>4
<1>11. PeriodsApart(s) /\ PeriodsApart(t) => PeriodsApart(u)
  BY <1>10, Zenon DEF PeriodsApart
<1> QED BY <1>2, <1>3, <1>7, <1>11 DEF u

\* Whatever a vendor puts into the identifiers of a disk and whatever the node is
\* called, the name of the resource fits the limit, has only allowed characters and
\* begins and ends with an alphanumeric one, also where it was cut (naming.go:69-111).
\* Its labels do, too, unless a period of the identifier or of the node's name is next
\* to another separator, as in "a._b" (naming.go:60-61).
THEOREM WellFormedName ==
    ASSUME NEW C, NEW node \in Seq(C), NEW info, RawID(info) \in Seq(C)
    PROVE  LET name == GenerateCRName(node, info) IN
           /\ Length(name) <= MaxLen /\ Trimmed(name.text)
           /\ PeriodsApart(node) /\ PeriodsApart(RawID(info)) => PeriodsApart(name.text)
<1> DEFINE full == FullName(node, info)
           name == GenerateCRName(node, info)
           X == Allowed \cup {"-"}
           room == MaxLen - (1 + HashLen)
           kept == SubSeq(full, 1, room)
           cut == TrimRight(kept, {"-", "."})
<1>1. /\ Trimmed(full)
      /\ PeriodsApart(node) /\ PeriodsApart(RawID(info)) => PeriodsApart(full)
  BY FullNameIs
<1>2. full \in Seq(X)  BY <1>1 DEF Trimmed
<1>3. Length(name) <= MaxLen
  <2>1. FullName(node, info) \in Seq(X)  BY <1>2
  <2> HIDE DEF X
  <2> QED BY <2>1, TruncatedName
<1>4. name.text = IF Len(full) <= MaxLen THEN full ELSE cut
  BY DEF GenerateCRName, Named
<1>5. room \in Nat /\ room >= 1 /\ room <= MaxLen /\ MaxLen \in Nat  BY LengthsAssumption
<1> HIDE DEF full, name, X, room
<1>6. ASSUME ~(Len(full) <= MaxLen)
      PROVE  Trimmed(cut) /\ (PeriodsApart(full) => PeriodsApart(cut))
  <2>1. /\ kept \in Seq(X) /\ Len(kept) = room /\ kept[1] = full[1] /\ kept # <<>>
        /\ \A i \in 1 .. room : kept[i] = full[i]
        /\ Len(full) \in Nat /\ room <= Len(full)
    BY <1>2, <1>5, <1>6
  <2>2. full[1] \in Alphanumeric  BY <1>1 DEF Trimmed
  <2>3. full[1] \notin {"-", "."}  BY <2>2 DEF Alphanumeric
  <2> HIDE DEF kept
  <2>4. /\ cut \in Seq(X) /\ cut # <<>> /\ cut[Len(cut)] \notin {"-", "."}
        /\ Len(cut) \in Nat /\ Len(cut) <= Len(kept)
        /\ \A i \in 1 .. Len(cut) : cut[i] = kept[i]
    BY <2>1, <2>3, TrimRightPrefix
  <2> HIDE DEF cut
  <2>5. cut[1] = full[1] /\ cut[Len(cut)] \in X  BY <2>1, <2>4
  <2>6. cut[Len(cut)] \in Alphanumeric  BY <2>4, <2>5 DEF X, Allowed
  <2>7. Trimmed(cut)  BY <2>2, <2>4, <2>5, <2>6 DEF Trimmed, X
  <2>8. 0 + Len(cut) <= Len(full) /\ \A i \in 1 .. Len(cut) : cut[i] = full[0 + i]
    BY <1>5, <2>1, <2>4
  <2>9. PeriodsApart(full) => PeriodsApart(cut)  BY <2>1, <2>4, <2>8, PartPeriods
  <2> QED BY <2>7, <2>9
<1> QED BY <1>1, <1>3, <1>4, <1>6 DEF name

\* What can be typed as an identifier, and the texts of the other fields.
Characters == {"a", "A", ".", "-", ":", "b"}

\* A typed identifier.
LEMMA TypedID ==
    ASSUME Typed, text.kind = "id"
    PROVE  text.chars \in Seq(Alphabet["id"]) /\ text.chars \in Seq(Characters)
<1>1. text # NoText  BY DEF NoText
<1>2. text.chars \in Seq(Alphabet["id"])  BY <1>1 DEF Typed
<1>3. Alphabet["id"] \subseteq Characters  BY DEF Alphabet, Characters
<1>4. \A A, B : A \subseteq B => Seq(A) \subseteq Seq(B)  OBVIOUS
<1> QED BY <1>2, <1>3, <1>4, Zenon

\* The identifier of a disk with one field given.
LEMMA InfoIs ==
    ASSUME NEW s \in Seq(Characters), NEW f \in {"WWN", "PathBase", "Serial"}
    PROVE  /\ RawID(InfoOf(f, s)) \in Seq(Characters)
           /\ f = "WWN" /\ s # <<>> => RawID(InfoOf(f, s)) = s
           /\ PeriodsApart(s) => PeriodsApart(RawID(InfoOf(f, s)))
<1> DEFINE info == InfoOf(f, s)
<1>1. <<>> \in Seq(Characters) /\ <<"a">> \in Seq(Characters) /\ <<"b">> \in Seq(Characters)
  <2>1. "a" \in Characters /\ "b" \in Characters  BY DEF Characters
  <2> QED BY <2>1
<1>2. /\ info.WWN = IF f = "WWN" THEN s ELSE <<>>
      /\ info.SerialShort = <<>>
      /\ info.Serial = IF f = "Serial" THEN s ELSE <<>>
      /\ info.PathBase = IF f = "PathBase" THEN s ELSE <<"a">>
      /\ info.Name = <<"b">>
  BY DEF InfoOf
<1> HIDE DEF info
<1>3. /\ info.WWN \in Seq(Characters) /\ info.SerialShort \in Seq(Characters)
      /\ info.Serial \in Seq(Characters) /\ info.PathBase \in Seq(Characters)
      /\ info.Name \in Seq(Characters)
  BY <1>1, <1>2
<1>4. /\ RawID(info) \in Seq(Characters) /\ (info.WWN # <<>> => RawID(info) = info.WWN)
      /\ RawID(info) \in {<<>>, s, <<"a">>, <<"b">>}
  BY <1>2, <1>3, RawIDIs
<1>5. PeriodsApart(<<>>) /\ PeriodsApart(<<"a">>) /\ PeriodsApart(<<"b">>)
  BY DEF PeriodsApart
<1>6. PeriodsApart(s) => PeriodsApart(RawID(info))  BY <1>4, <1>5, Zenon
<1> QED BY <1>2, <1>4, <1>6 DEF info

\* The names made of a text.
LEMMA TypedNames == Typed => NamesWellFormed
<1> SUFFICES ASSUME Typed, text.kind = "id", NEW name \in Generated(text.chars)
             PROVE  /\ Length(name) <= MaxLen
                    /\ \A i \in DOMAIN name.text : name.text[i] \in Allowed \cup {"-"}
                    /\ name.text[1] \in Alphanumeric
                    /\ name.text[Len(name.text)] \in Alphanumeric
                    /\ PeriodsApart(text.chars) => PeriodsApart(name.text)
  BY DEF NamesWellFormed
<1>1. text.chars \in Seq(Characters)  BY TypedID
<1>2. /\ <<"b">> \in Seq(Characters) /\ <<":", "A">> \in Seq(Characters)
      /\ <<"b", "b">> \in Seq(Characters)
  <2>1. "b" \in Characters /\ ":" \in Characters /\ "A" \in Characters  BY DEF Characters
  <2> QED BY <2>1
<1>3. PICK node \in Seq(Characters), f \in {"WWN", "PathBase", "Serial"},
           s \in Seq(Characters) :
        /\ name = GenerateCRName(node, InfoOf(f, s))
        /\ PeriodsApart(text.chars) => PeriodsApart(node) /\ PeriodsApart(s)
  <2>4. /\ \A node \in {<<"b">>, <<":", "A">>} : PeriodsApart(node)
        /\ PeriodsApart(<<"b", "b">>)
    BY DEF PeriodsApart
  <2>1. \/ \E node \in {<<"b">>, <<":", "A">>}, f \in {"WWN", "PathBase"} :
              name = GenerateCRName(node, InfoOf(f, text.chars))
        \/ name = GenerateCRName(text.chars, InfoOf("Serial", <<"b", "b">>))
    BY DEF Generated
  <2>2. {<<"b">>, <<":", "A">>} \subseteq Seq(Characters)  BY <1>2, Zenon
  <2>3. {"WWN", "PathBase"} \subseteq {"WWN", "PathBase", "Serial"}  OBVIOUS
  <2>5. "Serial" \in {"WWN", "PathBase", "Serial"}  OBVIOUS
  <2> QED BY <1>1, <1>2, <2>1, <2>2, <2>3, <2>4, <2>5, Zenon
<1>4. /\ Length(name) <= MaxLen /\ Trimmed(name.text)
      /\ PeriodsApart(text.chars) => PeriodsApart(name.text)
  <2>1. /\ RawID(InfoOf(f, s)) \in Seq(Characters)
        /\ PeriodsApart(s) => PeriodsApart(RawID(InfoOf(f, s)))
    BY InfoIs
  <2> QED BY <1>3, <2>1, WellFormedName
<1>5. \A i \in DOMAIN name.text : name.text[i] \in Allowed \cup {"-"}
  <2>1. name.text \in Seq(Allowed \cup {"-"})  BY <1>4 DEF Trimmed
  <2> QED BY <2>1
<1> QED BY <1>4, <1>5 DEF Trimmed

\* This holds of every text that can be typed as the identifier of a disk or as the
\* name of a node (naming.go:57-111).
THEOREM NamesAlwaysWellFormed == MCSpec => []NamesWellFormed
BY TypedInvariant, TypedNames, PTL

\* A common beginning can be dropped.
LEMMA Cancel ==
    ASSUME NEW X, NEW u \in Seq(X), NEW s \in Seq(X), NEW t \in Seq(X), u \o s = u \o t
    PROVE  s = t
<1> DEFINE us == u \o s
           ut == u \o t
<1>1. /\ Len(us) = Len(u) + Len(s) /\ Len(ut) = Len(u) + Len(t)
      /\ Len(u) \in Nat /\ Len(s) \in Nat /\ Len(t) \in Nat
  OBVIOUS
<1>2. \A i \in 1 .. Len(s) : us[Len(u) + i] = s[i]  OBVIOUS
<1>3. \A i \in 1 .. Len(t) : ut[Len(u) + i] = t[i]  OBVIOUS
<1>4. us = ut  OBVIOUS
<1> HIDE DEF us, ut
<1>5. Len(s) = Len(t)  BY <1>1, <1>4
<1>6. \A i \in 1 .. Len(s) : s[i] = t[i]  BY <1>2, <1>3, <1>4, <1>5
<1> QED BY <1>5, <1>6

\* Truncation makes no two disks of a node share a resource: if their names are equal,
\* so are the parts that identify them, whatever they were before they were made
\* subdomains, for every limit and every hash that fits (naming.go:97-111).
THEOREM NameTellsApart ==
    ASSUME NEW C, NEW node \in Seq(C), NEW info, NEW info2,
           RawID(info) \in Seq(C), RawID(info2) \in Seq(C),
           GenerateCRName(node, info) = GenerateCRName(node, info2)
    PROVE  Clean(RawID(info), <<"b">>) = Clean(RawID(info2), <<"b">>)
<1> DEFINE s == Clean(RawID(info), <<"b">>)
           t == Clean(RawID(info2), <<"b">>)
           u == Clean(node, <<"a">>)
           X == Allowed \cup {"-"}
<1>1. FullName(node, info) \in Seq(X)
  <2>1. Trimmed(FullName(node, info))  BY FullNameIs
  <2> QED BY <2>1 DEF Trimmed
<1>2. FullName(node, info2) = FullName(node, info)
  <2> HIDE DEF X
  <2> QED BY <1>1, TruncatedName
<1>3. FullName(node, info) = u \o <<"-">> \o s /\ FullName(node, info2) = u \o <<"-">> \o t
  BY DEF FullName
<1>4. s \in Seq(X) /\ t \in Seq(X) /\ u \in Seq(X) /\ "-" \in X
  <2>1. Trimmed(<<"a">>) /\ Trimmed(<<"b">>)
    BY DEF Trimmed, Allowed, Alphanumeric
  <2>2. Trimmed(s) /\ Trimmed(t) /\ Trimmed(u)  BY <2>1, CleanIs
  <2> HIDE DEF s, t, u
  <2> QED BY <2>2 DEF Trimmed
<1> HIDE DEF s, t, u, X
<1> DEFINE v == u \o <<"-">>
<1>5. v \in Seq(X)  BY <1>4
<1>6. v \o s = v \o t  BY <1>2, <1>3
<1> HIDE DEF v
<1>7. s = t  BY <1>4, <1>5, <1>6, Cancel
<1> QED BY <1>7 DEF s, t

\* Texts without "b" that are cleaned alike are the same subdomain.
LEMMA CleanTellsApart ==
    ASSUME NEW s \in Seq(Alphabet["id"]), NEW t \in Seq(Alphabet["id"]),
           Clean(s, <<"b">>) = Clean(t, <<"b">>)
    PROVE  SanitizeRFC1123Subdomain(s) = SanitizeRFC1123Subdomain(t)
<1> DEFINE C == Alphabet["id"]
           L == {"a", "."}
           a == SanitizeRFC1123Subdomain(s)
           b == SanitizeRFC1123Subdomain(t)
<1>1. /\ L \subseteq Allowed
      /\ \A c \in C : ToLower(c) \in Allowed => ToLower(c) \in L
  BY DEF Alphabet, Allowed, Alphanumeric, ToLower
<1>2. s \in Seq(C) /\ t \in Seq(C)  OBVIOUS
<1> HIDE DEF C, L
<1>3. a \in Seq(L \cup {"-"}) /\ b \in Seq(L \cup {"-"})  BY <1>1, <1>2, SanitizedIs
<1>4. <<"b">> \notin Seq(L \cup {"-"})
  <2>1. "b" \notin L \cup {"-"}  BY DEF L
  <2>2. \A A, x : <<x>> \in Seq(A) => x \in A  OBVIOUS
  <2> QED BY <2>1, <2>2, Zenon
<1>5. (IF a = <<>> THEN <<"b">> ELSE a) = IF b = <<>> THEN <<"b">> ELSE b
  BY Zenon DEF Clean
<1> HIDE DEF a, b
<1>6. a = b  BY <1>3, <1>4, <1>5, Zenon
<1> QED BY <1>6 DEF a, b

\* A text with one character replaced or appended is an identifier.
LEMMA SimilarIs ==
    ASSUME NEW t \in Seq(Alphabet["id"]), t # <<>>, NEW s \in Similar(t)
    PROVE  s \in Seq(Alphabet["id"]) /\ s # <<>>
<1> DEFINE C == Alphabet["id"]
<1>1. \/ \E i \in DOMAIN t, c \in C : s = [t EXCEPT ![i] = c]
      \/ \E c \in C : s = Append(t, c)
  BY DEF Similar
<1>2. t \in Seq(C)  OBVIOUS
<1> HIDE DEF C
<1>3. CASE \E c \in C : s = Append(t, c)
  BY <1>2, <1>3 DEF C
<1>4. CASE \E i \in DOMAIN t, c \in C : s = [t EXCEPT ![i] = c]
  <2>1. PICK i \in DOMAIN t, c \in C : s = [t EXCEPT ![i] = c]  BY <1>4
  <2> DEFINE n == Len(t)
  <2>2. n \in Nat /\ n # 0 /\ DOMAIN t = 1 .. n /\ \A j \in 1 .. n : t[j] \in C
    BY <1>2
  <2> HIDE DEF n
  <2>3. s \in [1 .. n -> C]  BY <2>1, <2>2
  <2>4. s \in Seq(C) /\ Len(s) = n  BY <2>2, <2>3
  <2> QED BY <2>2, <2>4 DEF C
<1> QED BY <1>1, <1>3, <1>4

\* Names that can be typed tell disks apart (naming.go:97-111).
THEOREM NamesAlwaysTellApart == MCSpec => []NamesTellApart
<1>1. Typed => NamesTellApart
  <2> DEFINE t == text.chars
             Node == <<"b">>
  <2> SUFFICES ASSUME Typed, text.kind = "id", t # <<>>, NEW s \in Similar(t),
                      GenerateCRName(Node, InfoOf("WWN", s))
                          = GenerateCRName(Node, InfoOf("WWN", t))
               PROVE  SanitizeRFC1123Subdomain(s) = SanitizeRFC1123Subdomain(t)
    BY Zenon DEF NamesTellApart
  <2>1. t \in Seq(Alphabet["id"])  BY TypedID
  <2> HIDE DEF t
  <2>2. s \in Seq(Alphabet["id"]) /\ s # <<>>  BY <2>1, SimilarIs
  <2>3. s \in Seq(Characters) /\ t \in Seq(Characters) /\ Node \in Seq(Characters)
    <3>1. Alphabet["id"] \subseteq Characters /\ "b" \in Characters
      BY DEF Alphabet, Characters
    <3>2. \A A, B : A \subseteq B => Seq(A) \subseteq Seq(B)  OBVIOUS
    <3>3. \A A : \A x \in A : <<x>> \in Seq(A)  OBVIOUS
    <3> QED BY <2>1, <2>2, <3>1, <3>2, <3>3, Zenon
  <2> HIDE DEF Node
  <2>4. RawID(InfoOf("WWN", s)) = s /\ RawID(InfoOf("WWN", t)) = t
    BY <2>2, <2>3, InfoIs
  <2>5. Clean(s, <<"b">>) = Clean(t, <<"b">>)  BY <2>3, <2>4, NameTellsApart
  <2> QED BY <2>1, <2>2, <2>5, CleanTellsApart
<1> QED BY <1>1, TypedInvariant, PTL

-----------------------------------------------------------------------------
(* Rules.                                                                  *)

\* The loop of strings.Split at commas.
CommaStep(parts, c) ==
    IF c = "," THEN Append(parts, <<>>)
    ELSE [parts EXCEPT ![Len(parts)] = Append(@, c)]
Commas == INSTANCE FoldFacts WITH Op <- CommaStep, Base <- <<<<>>>>
Comma == ","

\* The loop of ParseExcludeRule over the parts.
Start == [ok |-> TRUE, rule |-> EmptyRule]
Fields == INSTANCE FoldFacts WITH Op <- ReadPart, Base <- Start

LEMMA SplitIsFold ==
    ASSUME NEW s
    PROVE  Split(s, Comma) = Commas!Fold(s)
BY DEF Split, FoldLeft, MapThenFoldSet, Max, Commas!Fold, Commas!Greatest, CommaStep, Comma

LEMMA ParseIsFold ==
    ASSUME NEW s
    PROVE  ParseExcludeRule(s) = Fields!Fold(Split(s, Comma))
BY DEF Comma, ParseExcludeRule, FoldLeft, MapThenFoldSet, Max, Fields!Fold,
       Fields!Greatest, Start

\* One character of a text is split.
LEMMA CommaStepIs ==
    ASSUME NEW C, NEW parts \in Seq(Seq(C \ {Comma})), parts # <<>>, NEW c \in C
    PROVE  CommaStep(parts, c) \in Seq(Seq(C \ {Comma})) /\ CommaStep(parts, c) # <<>>
<1> DEFINE X == Seq(C \ {Comma})
<1>1. CASE c = Comma
  <2>1. <<>> \in X  OBVIOUS
  <2>2. CommaStep(parts, c) = Append(parts, <<>>)  BY <1>1, Zenon DEF CommaStep, Comma
  <2> HIDE DEF X
  <2>3. Append(parts, <<>>) \in Seq(X) /\ Append(parts, <<>>) # <<>>  BY <2>1 DEF X
  <2> QED BY <2>2, <2>3 DEF X
<1>2. CASE c # Comma
  <2> DEFINE n == Len(parts)
             new == Append(parts[n], c)
             after == [parts EXCEPT ![n] = new]
  <2>1. CommaStep(parts, c) = after  BY <1>2, Zenon DEF CommaStep, Comma
  <2>2. n \in 1 .. n /\ DOMAIN parts = 1 .. n /\ n \in Nat  OBVIOUS
  <2>3. new \in X
    <3>1. parts[n] \in X /\ c \in C \ {Comma}  BY <1>2, <2>2
    <3>2. \A A : \A s \in Seq(A) : \A x \in A : Append(s, x) \in Seq(A)  OBVIOUS
    <3> QED BY <3>1, <3>2, Zenon
  <2> HIDE DEF new, X
  <2>4. \A i \in 1 .. n : parts[i] \in X  BY DEF X
  <2>5. after \in [1 .. n -> X]  BY <2>2, <2>3, <2>4
  <2> HIDE DEF after, n
  <2>6. after \in Seq(X) /\ Len(after) = n /\ n # 0  BY <2>2, <2>5
  <2>7. after # <<>>  BY <2>6
  <2> QED BY <2>1, <2>6, <2>7 DEF X, after
<1> QED BY <1>1, <1>2

\* strings.Split: there is a part, and no part has a comma.
LEMMA SplitParts ==
    ASSUME NEW C, NEW s \in Seq(C)
    PROVE  Split(s, Comma) \in Seq(Seq(C \ {Comma})) /\ Split(s, Comma) # <<>>
<1> DEFINE n == Len(s)
           F(k) == Commas!Fold(SubSeq(s, 1, k))
           X == Seq(Seq(C \ {Comma}))
           S == {k \in 0 .. n : F(k) \in X /\ F(k) # <<>>}
<1>1. n \in Nat /\ SubSeq(s, 1, 0) = <<>> /\ SubSeq(s, 1, n) = s
      /\ \A k \in 1 .. n : s[k] \in C
  OBVIOUS
<1>2. 0 \in S
  <2>1. F(0) = <<<<>>>>  BY <1>1, Commas!FoldEmpty, Zenon
  <2>2. <<>> \in Seq(C \ {Comma})  OBVIOUS
  <2>3. \A A : \A a \in A : <<a>> \in Seq(A) /\ <<a>> # <<>>  OBVIOUS
  <2>4. <<<<>>>> \in X /\ <<<<>>>> # <<>>  BY <2>2, <2>3, Zenon
  <2>5. 0 \in 0 .. n  BY <1>1
  <2> QED BY <2>1, <2>4, <2>5, Zenon
<1>3. ASSUME NEW k \in 0 .. n, k < n, k \in S PROVE k + 1 \in S
  <2>1. k + 1 \in 1 .. n /\ k + 1 \in 0 .. n /\ k + 1 - 1 = k  BY <1>1, <1>3
  <2>2. F(k + 1) = CommaStep(F(k), s[k + 1])
    <3>1. F(k + 1) = CommaStep(F(k + 1 - 1), s[k + 1])  BY <2>1, Commas!FoldPrefix
    <3> QED BY <2>1, <3>1
  <2> DEFINE c == s[k + 1]
             f == F(k)
  <2>3. c \in C /\ f \in X /\ f # <<>>  BY <1>1, <1>3, <2>1
  <2> HIDE DEF c, f
  <2>4. CommaStep(f, c) \in X /\ CommaStep(f, c) # <<>>  BY <2>3, CommaStepIs
  <2> QED BY <2>1, <2>2, <2>4, Zenon DEF c, f
<1>4. \A k \in 0 .. n : k \in S
  <2> HIDE DEF S, n
  <2> QED BY <1>1, <1>2, <1>3, Commas!Induct
<1>5. n \in S
  <2> HIDE DEF S, n
  <2> QED BY <1>1, <1>4
<1> QED BY <1>1, <1>5, SplitIsFold

\* A text without a comma is its only part.
LEMMA SplitOne ==
    ASSUME NEW C, NEW s \in Seq(C), Comma \notin C
    PROVE  Split(s, Comma) = <<s>>
<1> DEFINE n == Len(s)
           F(k) == Commas!Fold(SubSeq(s, 1, k))
           S == {k \in 0 .. n : F(k) = <<SubSeq(s, 1, k)>>}
<1>1. n \in Nat /\ SubSeq(s, 1, 0) = <<>> /\ SubSeq(s, 1, n) = s
      /\ \A k \in 1 .. n : s[k] \in C
  OBVIOUS
<1>2. 0 \in S
  <2>1. F(0) = <<<<>>>>  BY <1>1, Commas!FoldEmpty, Zenon
  <2>2. 0 \in 0 .. n  BY <1>1
  <2> QED BY <1>1, <2>1, <2>2, Zenon
<1>3. ASSUME NEW k \in 0 .. n, k < n, k \in S PROVE k + 1 \in S
  <2>1. k + 1 \in 1 .. n /\ k + 1 \in 0 .. n /\ k + 1 - 1 = k  BY <1>1, <1>3
  <2>2. F(k + 1) = CommaStep(F(k), s[k + 1])
    <3>1. F(k + 1) = CommaStep(F(k + 1 - 1), s[k + 1])  BY <2>1, Commas!FoldPrefix
    <3> QED BY <2>1, <3>1
  <2> DEFINE c == s[k + 1]
             p == SubSeq(s, 1, k)
  <2>3. c # Comma  BY <1>1, <2>1, Zenon
  <2>4. SubSeq(s, 1, k + 1) = Append(p, c)  BY <1>1, <2>1
  <2>5. F(k) = <<p>>  BY <1>3
  <2> HIDE DEF c, p
  <2>6. CommaStep(<<p>>, c) = [<<p>> EXCEPT ![Len(<<p>>)] = Append(@, c)]
    BY <2>3, Zenon DEF CommaStep, Comma
  <2> DEFINE new == Append(p, c)
             one == <<p>>
  <2>7. Len(one) = 1 /\ one[1] = p /\ [one EXCEPT ![1] = new] = <<new>>
    <3> HIDE DEF new
    <3> QED OBVIOUS
  <2>8. CommaStep(<<p>>, c) = <<new>>  BY <2>6, <2>7
  <2>9. F(k + 1) = <<SubSeq(s, 1, k + 1)>>  BY <2>2, <2>4, <2>5, <2>8 DEF c
  <2> QED BY <2>1, <2>9
<1>4. \A k \in 0 .. n : k \in S
  <2> HIDE DEF S, n
  <2> QED BY <1>1, <1>2, <1>3, Commas!Induct
<1>5. n \in S
  <2> HIDE DEF S, n
  <2> QED BY <1>1, <1>4
<1> QED BY <1>1, <1>5, SplitIsFold
\* What a part of a rule says, and whether it says something.
KeyText(part) == Trim(Cut(part, "=").before, {" "})
KeyOf(part) == KeyText(part)[1]
ValOf(part) == Trim(Cut(part, "=").after, {" "})
Good(part) ==
    /\ Cut(part, "=").found /\ KeyText(part) # <<>> /\ ValOf(part) # <<>>
    /\ \E k \in Keys : KeyText(part) = <<k>>

\* What a rule asks of one field.
FieldMatches(k, val, disk) ==
    IF k = "wwn" THEN EqualFold(val, disk[k]) ELSE val = disk[k]

\* A parsed rule has a text for every field.
IsParsed(p) == DOMAIN p = {"ok", "rule"} /\ DOMAIN p.rule = Keys

LEMMA StartIs == IsParsed(Start) /\ Start.ok /\ \A k \in Keys : Start.rule[k] = <<>>
<1>1. Start.rule = EmptyRule /\ DOMAIN Start = {"ok", "rule"}  BY Zenon DEF Start
<1>2. Start.ok  BY Zenon DEF Start
<1>3. DOMAIN EmptyRule = Keys /\ \A k \in Keys : EmptyRule[k] = <<>>  BY Zenon DEF EmptyRule
<1> QED BY <1>1, <1>2, <1>3, Zenon DEF IsParsed

LEMMA RejectedIs == IsParsed(Rejected) /\ ~Rejected.ok
<1>1. Rejected.rule = EmptyRule /\ DOMAIN Rejected = {"ok", "rule"}  BY Zenon DEF Rejected
<1>2. ~Rejected.ok  BY Zenon DEF Rejected
<1>3. DOMAIN EmptyRule = Keys  BY Zenon DEF EmptyRule
<1> QED BY <1>1, <1>2, <1>3, Zenon DEF IsParsed

\* The key of a part that says something is a field.
LEMMA GoodKey ==
    ASSUME NEW part, Good(part)
    PROVE  KeyOf(part) \in Keys /\ KeyText(part) = <<KeyOf(part)>> /\ ValOf(part) # <<>>
<1>1. PICK k \in Keys : KeyText(part) = <<k>>  BY Zenon DEF Good
<1>2. \A x : <<x>>[1] = x  OBVIOUS
<1>3. KeyOf(part) = k  BY <1>1, <1>2, Zenon DEF KeyOf
<1> QED BY <1>1, <1>3, Zenon DEF Good

\* q is p with the field of a part set.
Sets(p, part, q) ==
    /\ q.ok /\ q.rule[KeyOf(part)] = ValOf(part)
    /\ \A k \in Keys : k # KeyOf(part) => q.rule[k] = p.rule[k]

\* ReadPart sets one field that had no value, or rejects the rule.
LEMMA ReadPartIs ==
    ASSUME NEW p, NEW part, IsParsed(p)
    PROVE  LET q == ReadPart(p, part) IN
           /\ IsParsed(q)
           /\ q.ok <=> p.ok /\ Good(part) /\ p.rule[KeyOf(part)] = <<>>
           /\ q.ok => Sets(p, part, q)
<1> DEFINE q == ReadPart(p, part)
           k == KeyOf(part)
           v == ValOf(part)
           w == [p EXCEPT !.rule[k] = v]
<1>1. CASE p.ok /\ Good(part) /\ p.rule[k] = <<>>
  <2>1. k \in Keys /\ KeyText(part) = <<k>>  BY <1>1, GoodKey
  <2>2. q = w
    <3>1. ~ \A f \in Keys : KeyText(part) # <<f>> \/ p.rule[f] # <<>>
      BY <1>1, <2>1, Zenon
    <3> QED BY <1>1, <3>1, Zenon DEF ReadPart, Good, KeyOf, KeyText, ValOf
  <2> HIDE DEF k, v, q
  <2>3. DOMAIN p = {"ok", "rule"} /\ DOMAIN p.rule = Keys  BY Zenon DEF IsParsed
  <2>4. DOMAIN w = {"ok", "rule"} /\ w.ok = p.ok /\ w.rule = [p.rule EXCEPT ![k] = v]
    BY <2>3, Zenon
  <2> DEFINE r == [p.rule EXCEPT ![k] = v]
  <2>5. DOMAIN r = Keys /\ r[k] = v /\ \A f \in Keys : f # k => r[f] = p.rule[f]
    BY <2>1, <2>3
  <2> HIDE DEF w, r
  <2>6. IsParsed(q) /\ q.ok  BY <1>1, <2>2, <2>4, <2>5, Zenon DEF IsParsed, r
  <2>7. q.rule = r  BY <2>2, <2>4, Zenon DEF r
  <2>8. Sets(p, part, q)  BY <2>5, <2>6, <2>7, Zenon DEF Sets, k, v
  <2> QED BY <1>1, <2>6, <2>8, Zenon DEF q, k
<1>2. CASE ~(p.ok /\ Good(part) /\ p.rule[k] = <<>>)
  <2>1. q = Rejected
    <3>1. CASE p.ok /\ Good(part)
      <4>1. p.rule[k] # <<>> /\ k \in Keys /\ KeyText(part) = <<k>>  BY <1>2, <3>1, GoodKey
      <4>2. \A f, g : <<f>> = <<g>> => f = g  OBVIOUS
      <4>3. \A f \in Keys : KeyText(part) # <<f>> \/ p.rule[f] # <<>>
        BY <4>1, <4>2, Zenon
      <4> QED BY <3>1, <4>3, Zenon DEF ReadPart, Good, KeyOf, KeyText, ValOf
    <3>2. CASE ~p.ok
      BY <3>2, Zenon DEF ReadPart
    <3>3. CASE ~Good(part)
      BY <3>3, Zenon DEF ReadPart, Good, KeyOf, KeyText, ValOf
    <3> QED BY <3>1, <3>2, <3>3, Zenon
  <2> QED BY <1>2, <2>1, RejectedIs, Zenon
<1> QED BY <1>1, <1>2, Zenon
\* p is what the first k parts say.
Reads(parts, k, p) ==
    /\ IsParsed(p)
    /\ p.ok => /\ \A i \in 1 .. k : /\ Good(parts[i])
                                    /\ p.rule[KeyOf(parts[i])] = ValOf(parts[i])
               /\ \A f \in Keys :
                    p.rule[f] = <<>> \/ \E i \in 1 .. k : f = KeyOf(parts[i])

\* One more part.
LEMMA ReadsStep ==
    ASSUME NEW parts, NEW p, NEW k \in Nat, Reads(parts, k, p)
    PROVE  Reads(parts, k + 1, ReadPart(p, parts[k + 1]))
<1> DEFINE part == parts[k + 1]
           q == ReadPart(p, part)
<1>1. /\ IsParsed(q)
      /\ q.ok <=> p.ok /\ Good(part) /\ p.rule[KeyOf(part)] = <<>>
      /\ q.ok => Sets(p, part, q)
  <2>1. IsParsed(p)  BY Zenon DEF Reads
  <2> QED BY <2>1, ReadPartIs
<1> HIDE DEF q
<1>2. \A i : i \in 1 .. (k + 1) <=> i \in 1 .. k \/ i = k + 1  OBVIOUS
<1>3. ASSUME q.ok, NEW i \in 1 .. (k + 1)
      PROVE  Good(parts[i]) /\ q.rule[KeyOf(parts[i])] = ValOf(parts[i])
  <2>1. CASE i = k + 1  BY <1>1, <1>3, <2>1, Zenon DEF Sets
  <2>2. CASE i \in 1 .. k
    <3>1. Good(parts[i]) /\ p.rule[KeyOf(parts[i])] = ValOf(parts[i])
      BY <1>1, <1>3, <2>2, Zenon DEF Reads
    <3>2. KeyOf(parts[i]) \in Keys /\ ValOf(parts[i]) # <<>>  BY <3>1, GoodKey, Zenon
    <3>3. KeyOf(parts[i]) # KeyOf(part)  BY <1>1, <1>3, <3>1, <3>2, Zenon
    <3> QED BY <1>1, <1>3, <3>1, <3>2, <3>3, Zenon DEF Sets
  <2> QED BY <1>2, <2>1, <2>2, Zenon
<1>4. ASSUME q.ok, NEW f \in Keys
      PROVE  q.rule[f] = <<>> \/ \E i \in 1 .. (k + 1) : f = KeyOf(parts[i])
  <2>1. CASE f = KeyOf(part)  BY <1>2, <2>1, Zenon
  <2>2. CASE f # KeyOf(part)
    <3>1. q.rule[f] = p.rule[f]  BY <1>1, <1>4, <2>2, Zenon DEF Sets
    <3>2. p.rule[f] = <<>> \/ \E i \in 1 .. k : f = KeyOf(parts[i])
      BY <1>1, <1>4, Zenon DEF Reads
    <3> QED BY <1>2, <3>1, <3>2, Zenon
  <2> QED BY <2>1, <2>2
<1> QED BY <1>1, <1>3, <1>4, Zenon DEF Reads, q

\* The loop has read all the parts.
LEMMA ReadsAll ==
    ASSUME NEW X, NEW parts \in Seq(X)
    PROVE  Reads(parts, Len(parts), Fields!Fold(parts))
<1> DEFINE n == Len(parts)
           F(k) == Fields!Fold(SubSeq(parts, 1, k))
           S == {k \in 0 .. n : Reads(parts, k, F(k))}
<1>1. n \in Nat /\ SubSeq(parts, 1, 0) = <<>> /\ SubSeq(parts, 1, n) = parts  OBVIOUS
<1>2. 0 \in S
  <2>1. F(0) = Start  BY <1>1, Fields!FoldEmpty, Zenon
  <2>2. 0 \in 0 .. n /\ 1 .. 0 = {}  BY <1>1
  <2>3. Reads(parts, 0, Start)  BY <2>2, StartIs, Zenon DEF Reads
  <2> QED BY <2>1, <2>2, <2>3, Zenon
<1>3. ASSUME NEW k \in 0 .. n, k < n, k \in S PROVE k + 1 \in S
  <2>1. k + 1 \in 1 .. n /\ k + 1 \in 0 .. n /\ k + 1 - 1 = k /\ k \in Nat  BY <1>1, <1>3
  <2>2. F(k + 1) = ReadPart(F(k), parts[k + 1])
    <3>1. F(k + 1) = ReadPart(F(k + 1 - 1), parts[k + 1])  BY <2>1, Fields!FoldPrefix
    <3> QED BY <2>1, <3>1
  <2>3. Reads(parts, k, F(k))  BY <1>3
  <2>4. Reads(parts, k + 1, ReadPart(F(k), parts[k + 1]))  BY <2>1, <2>3, ReadsStep
  <2> QED BY <2>1, <2>2, <2>4, Zenon
<1>4. \A k \in 0 .. n : k \in S
  <2> HIDE DEF S, n
  <2> QED BY <1>1, <1>2, <1>3, Fields!Induct
<1>5. n \in S
  <2> HIDE DEF S, n
  <2> QED BY <1>1, <1>4
<1> QED BY <1>1, <1>5

\* A part by itself is a rule with one field.
LEMMA OnePart ==
    ASSUME NEW C, NEW part \in Seq(C), Comma \notin C, Good(part), NEW disk
    PROVE  IsExcludedBy(<<ParseExcludeRule(part).rule>>, disk)
             <=> FieldMatches(KeyOf(part), ValOf(part), disk)
<1> DEFINE p == ParseExcludeRule(part)
           k == KeyOf(part)
<1>1. p = ReadPart(Start, part)
  <2>1. Split(part, Comma) = <<part>>  BY SplitOne
  <2>2. <<part>> = Append(<<>>, part) /\ <<>> \in Seq({part}) /\ part \in {part}  OBVIOUS
  <2>3. Fields!Fold(Append(<<>>, part)) = ReadPart(Fields!Fold(<<>>), part)
    BY <2>2, Fields!FoldAppend
  <2> QED BY <2>1, <2>2, <2>3, Fields!FoldEmpty, ParseIsFold, Zenon
<1> HIDE DEF p
<1>2. k \in Keys /\ ValOf(part) # <<>>  BY GoodKey
<1>3. IsParsed(p) /\ p.ok /\ Sets(Start, part, p)
  BY <1>1, <1>2, StartIs, ReadPartIs, Zenon
<1>4. p.rule[k] = ValOf(part) /\ \A f \in Keys : f # k => p.rule[f] = <<>>
  BY <1>3, StartIs, Zenon DEF Sets
<1> HIDE DEF k
<1>5. Matches(p.rule, disk) <=> FieldMatches(k, ValOf(part), disk)
  <2>1. ~Empty(p.rule)
    <3>1. EmptyRule[k] = <<>>  BY <1>2, Zenon DEF EmptyRule
    <3> QED BY <1>2, <1>4, <3>1, Zenon DEF Empty
  <2> QED BY <1>2, <1>4, <2>1, Zenon DEF Matches, FieldMatches
<1>6. \A x : IsExcludedBy(<<x>>, disk) <=> Matches(x, disk)
  <2>1. \A x : DOMAIN <<x>> = {1} /\ <<x>>[1] = x  OBVIOUS
  <2> QED BY <2>1, Zenon DEF IsExcludedBy
<1> QED BY <1>5, <1>6, Zenon DEF p, k

\* The commas of a rule are conjunctions: a disk is excluded by a rule that was
\* accepted, whatever its text, if and only if each of its parts by itself excludes it
\* ("all specified fields in a rule must match (AND)", FAQ.md:27; filter.go).
THEOREM RuleIsConjunction ==
    ASSUME NEW C, NEW s \in Seq(C), ParseExcludeRule(s).ok, NEW disk
    PROVE  LET parts == Split(s, ",") IN
           Matches(ParseExcludeRule(s).rule, disk) <=>
               \A i \in DOMAIN parts :
                   IsExcludedBy(<<ParseExcludeRule(parts[i]).rule>>, disk)
<1> DEFINE parts == Split(s, Comma)
           D == C \ {Comma}
           p == ParseExcludeRule(s)
           n == Len(parts)
<1>1. parts \in Seq(Seq(D)) /\ parts # <<>>  BY SplitParts
<1>2. Reads(parts, n, p)
  <2>1. p = Fields!Fold(parts)  BY ParseIsFold
  <2>2. Reads(parts, n, Fields!Fold(parts))
    <3> HIDE DEF D, parts
    <3> QED BY <1>1, ReadsAll
  <2> QED BY <2>1, <2>2, Zenon
<1> HIDE DEF parts, p
<1>3. n \in Nat /\ n >= 1 /\ DOMAIN parts = 1 .. n /\ \A i \in 1 .. n : parts[i] \in Seq(D)
  <2> HIDE DEF D
  <2> QED BY <1>1
<1> HIDE DEF n
<1>4. \A i \in 1 .. n : Good(parts[i]) /\ p.rule[KeyOf(parts[i])] = ValOf(parts[i])
  BY <1>2, Zenon DEF Reads, p
<1>5. \A f \in Keys : p.rule[f] = <<>> \/ \E i \in 1 .. n : f = KeyOf(parts[i])
  BY <1>2, Zenon DEF Reads, p
<1>6. \A i \in 1 .. n : KeyOf(parts[i]) \in Keys /\ ValOf(parts[i]) # <<>>
  BY <1>4, GoodKey, Zenon
<1>7. ~Empty(p.rule)
  <2>1. 1 \in 1 .. n  BY <1>3
  <2>2. \A f \in Keys : EmptyRule[f] = <<>>  BY Zenon DEF EmptyRule
  <2> QED BY <1>4, <1>6, <2>1, <2>2, ZenonT(60) DEF Empty
<1>8. Matches(p.rule, disk) <=>
        \A i \in 1 .. n : FieldMatches(KeyOf(parts[i]), ValOf(parts[i]), disk)
  <2>1. Matches(p.rule, disk) <=>
          \A f \in Keys : p.rule[f] = <<>> \/ FieldMatches(f, p.rule[f], disk)
    BY <1>7, Zenon DEF Matches, FieldMatches
  <2>2. ASSUME Matches(p.rule, disk), NEW i \in 1 .. n
        PROVE  FieldMatches(KeyOf(parts[i]), ValOf(parts[i]), disk)
    BY <1>4, <1>6, <2>1, <2>2, Zenon
  <2>3. ASSUME \A i \in 1 .. n : FieldMatches(KeyOf(parts[i]), ValOf(parts[i]), disk)
        PROVE  Matches(p.rule, disk)
    <3>1. ASSUME NEW f \in Keys, p.rule[f] # <<>> PROVE FieldMatches(f, p.rule[f], disk)
      <4>1. PICK i \in 1 .. n : f = KeyOf(parts[i])  BY <1>5, <3>1
      <4> QED BY <1>4, <2>3, <4>1, Zenon
    <3> QED BY <2>1, <3>1, Zenon
  <2> QED BY <2>2, <2>3, Zenon
<1>9. ASSUME NEW i \in 1 .. n
      PROVE  IsExcludedBy(<<ParseExcludeRule(parts[i]).rule>>, disk)
               <=> FieldMatches(KeyOf(parts[i]), ValOf(parts[i]), disk)
  <2>1. parts[i] \in Seq(D) /\ Good(parts[i])  BY <1>3, <1>4
  <2>2. Comma \notin D  OBVIOUS
  <2> HIDE DEF D
  <2> QED BY <2>1, <2>2, OnePart
<1>10. Matches(p.rule, disk) <=>
         \A i \in DOMAIN parts : IsExcludedBy(<<ParseExcludeRule(parts[i]).rule>>, disk)
  BY <1>3, <1>8, <1>9, Zenon
<1> QED BY <1>10, Zenon DEF p, parts, Comma

\* What a flag can say in the run is read as its parts say (filter.go).
THEOREM CommaAlwaysAnd == MCSpec => []CommaMeansAnd
<1>1. Typed => CommaMeansAnd
  <2> SUFFICES ASSUME Typed, text.kind = "rule", Parsed.ok, NEW disk \in HostDisks
               PROVE  LET parts == Split(text.chars, ",") IN
                      Matches(Parsed.rule, disk) <=>
                          \A i \in DOMAIN parts :
                              IsExcludedBy(<<ParseExcludeRule(parts[i]).rule>>, disk)
    BY Zenon DEF CommaMeansAnd
  <2>1. text # NoText  BY DEF NoText
  <2>2. text.chars \in Seq(Alphabet["rule"])  BY <2>1, Zenon DEF Typed
  <2> QED BY <2>2, RuleIsConjunction, Zenon DEF Parsed
<1> QED BY <1>1, TypedInvariant, PTL
=============================================================================
