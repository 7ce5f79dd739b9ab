---------------------------- MODULE Names_proofs ----------------------------
(***************************************************************************)
(* Proofs about Names, for texts, flags and addresses of any length.       *)
(* Where a proof would go by induction over a text, it uses a least or a   *)
(* greatest place of the text instead, which the well-foundedness of the   *)
(* natural numbers gives.                                                  *)
(***************************************************************************)
EXTENDS Names, SequenceTheorems, WellFoundedInduction, TLAPS

\* What texts are made of; the literals are there for the provers, which do not
\* know that they are strings.
Item == STRING \cup {Ip4} \cup Range(Loopback)

-----------------------------------------------------------------------------
(* Least and greatest places.                                              *)

LEMMA LeastNatural ==
    ASSUME NEW S \in SUBSET Nat, S # {}
    PROVE  \E x \in S : \A y \in S : x <= y
<1>1. IsWellFoundedOn(OpToRel(<, Nat), Nat)
  BY NatLessThanWellFounded
<1>2. PICK x \in S : \A y \in S : ~(<<y, x>> \in OpToRel(<, Nat))
  BY <1>1, WFMin, S \subseteq Nat
<1>3. ASSUME NEW y \in S PROVE x <= y
  <2>1. ~(<<y, x>> \in OpToRel(<, Nat))
    BY <1>2
  <2>2. ~(y < x)
    BY <2>1 DEF OpToRel
  <2> QED BY <2>2
<1> QED BY <1>3

LEMMA Extremes ==
    ASSUME NEW a \in Nat, NEW b \in Nat, NEW S \in SUBSET (a..b), S # {}
    PROVE  /\ Min(S) \in S /\ \A y \in S : Min(S) <= y
           /\ Max(S) \in S /\ \A y \in S : y <= Max(S)
<1>1. \E x \in S : \A y \in S : x <= y
  BY LeastNatural
<1>2. \E x \in S : \A y \in S : x >= y
  <2> DEFINE T == {b - y : y \in S}
  <2>1. T \in SUBSET Nat /\ T # {}
    <3>1. \A y \in S : y \in a..b
      OBVIOUS
    <3>2. \A y \in S : b - y \in Nat
      BY <3>1
    <3> QED BY <3>2
  <2>2. PICK t \in T : \A y \in T : t <= y
    BY <2>1, LeastNatural
  <2>3. PICK x \in S : t = b - x
    OBVIOUS
  <2>4. ASSUME NEW y \in S PROVE x >= y
    <3>1. b - y \in T
      OBVIOUS
    <3>2. b - x <= b - y
      BY <2>2, <2>3, <3>1
    <3> QED BY <3>2
  <2> QED BY <2>4
<1> QED BY <1>1, <1>2 DEF Min, Max

-----------------------------------------------------------------------------
(* Splits: every place that is no separator is in exactly one piece.       *)

LEMMA SplitCovers ==
    ASSUME NEW t, NEW a \in Nat, NEW b \in Nat, NEW seps,
           NEW n \in a..b, t[n] \notin seps
    PROVE  \E s \in Split(t, <<a, b>>, seps) : n \in s[1]..s[2]
<1> DEFINE Before == {m \in a..n : \A k \in m..n : t[k] \notin seps}
           After == {m \in n..b : \A k \in n..m : t[k] \notin seps}
<1>1. n \in Before /\ n \in After
  OBVIOUS
<1>2. Before \in SUBSET (a..n) /\ After \in SUBSET (n..b) /\ n \in Nat
  OBVIOUS
<1>3. PICK p \in Before : \A m \in Before : p <= m
  BY <1>1, <1>2, Extremes
<1>4. PICK q \in After : \A m \in After : m <= q
  BY <1>1, <1>2, Extremes
<1>5. p = a \/ t[p - 1] \in seps
  <2> SUFFICES ASSUME p # a, t[p - 1] \notin seps PROVE FALSE
    OBVIOUS
  <2>1. p - 1 \in Before
    OBVIOUS
  <2> QED BY <1>3, <2>1
<1>6. q = b \/ t[q + 1] \in seps
  <2> SUFFICES ASSUME q # b, t[q + 1] \notin seps PROVE FALSE
    OBVIOUS
  <2>1. q + 1 \in After
    OBVIOUS
  <2> QED BY <1>4, <2>1
<1>7. \A k \in p..q : t[k] \notin seps
  OBVIOUS
<1>8. <<p, q>> \in Split(t, <<a, b>>, seps)
  BY <1>5, <1>6, <1>7 DEF Split
<1> QED BY <1>8

LEMMA SplitDisjoint ==
    ASSUME NEW t, NEW a \in Nat, NEW b \in Nat, NEW seps,
           NEW r \in Split(t, <<a, b>>, seps), NEW s \in Split(t, <<a, b>>, seps),
           NEW n \in r[1]..r[2], n \in s[1]..s[2]
    PROVE  r = s
<1>1. /\ r \in (a..b) \X (a..b) /\ s \in (a..b) \X (a..b)
      /\ \A k \in r[1]..r[2] : t[k] \notin seps
      /\ \A k \in s[1]..s[2] : t[k] \notin seps
      /\ r[1] = a \/ t[r[1] - 1] \in seps
      /\ s[1] = a \/ t[s[1] - 1] \in seps
      /\ r[2] = b \/ t[r[2] + 1] \in seps
      /\ s[2] = b \/ t[s[2] + 1] \in seps
  BY DEF Split
<1>2. r[1] = s[1]
  BY <1>1
<1>3. r[2] = s[2]
  BY <1>1
<1> QED BY <1>1, <1>2, <1>3

-----------------------------------------------------------------------------
(* Documented texts: lines by the places of their words.                   *)

LEMMA FirstWord ==
    ASSUME NEW t \in Seq(Item), NEW n \in Words(t)
    PROVE  /\ FirstOfLine(t, n) \in Words(t) /\ FirstOfLine(t, n) <= n
           /\ SameLine(t, FirstOfLine(t, n), n)
           /\ \A m \in Words(t) : m <= n /\ SameLine(t, m, n) => FirstOfLine(t, n) <= m
<1> DEFINE S == {m \in Words(t) : m <= n /\ SameLine(t, m, n)}
<1>1. Words(t) \in SUBSET (1..Len(t)) /\ Len(t) \in Nat
  BY DEF Words
<1>2. n \in S
  BY <1>1 DEF SameLine, Words
<1>3. Min(S) \in S /\ \A y \in S : Min(S) <= y
  BY <1>1, <1>2, Extremes
<1>4. FirstOfLine(t, n) = Min(S)
  BY DEF FirstOfLine
<1> HIDE DEF S
<1> QED BY <1>3, <1>4 DEF S

LEMMA ItemsOfDocumented ==
    ASSUME NEW t \in Seq(Item), Documented(t), NEW i \in Impls, NEW n \in 1..Len(t)
    PROVE  /\ t[n] \in Trimmed[i] <=> n \notin Words(t) /\ t[n] # "lf"
           /\ t[n] \in Separators[i] => n \notin Words(t)
           /\ n \notin Words(t) => t[n] \in {"lf", "cr"} \cup Separators[i]
           /\ t[n] = "lf" => t[n] \in LineEnds[i]
           /\ t[n] \in LineEnds[i] => t[n] \in {"lf", "cr"}
           /\ t[n] = "cr" => n + 1 \in 1..Len(t) /\ t[n + 1] = "lf"
<1>1. t[n] \notin {"ff", "nbsp"} /\ (t[n] = "cr" => LineEnd(t, n))
  <2>1. n \in DOMAIN t
    OBVIOUS
  <2> QED BY ONLY <2>1, Documented(t), Zenon DEF Documented
<1>2. n \in Words(t) <=> t[n] \notin {"sp", "tab", "ff", "cr", "nbsp", "lf"}
  BY DEF Words, Blank, AsciiBlank
<1>3. t[n] = "cr" => n + 1 \in 1..Len(t) /\ t[n + 1] = "lf"
  BY <1>1 DEF LineEnd
<1>4. /\ Trimmed[i] \in {{"sp", "tab", "ff", "cr", "nbsp"}, {"sp", "tab", "ff", "cr"}}
      /\ Separators[i] \in {{"sp", "tab", "ff", "cr", "nbsp"}, {"sp", "tab"}}
      /\ LineEnds[i] \in {{"lf"}, {"lf", "cr"}}
  BY DEF Impls, Trimmed, Separators, LineEnds, Blank, AsciiBlank
<1> QED BY <1>1, <1>2, <1>3, <1>4

LEMMA WordsOfLine ==
    ASSUME NEW t \in Seq(Item), Documented(t), NEW i \in Impls,
           NEW r \in Split(t, <<1, Len(t)>>, LineEnds[i])
    PROVE  /\ r \in (1..Len(t)) \X (1..Len(t))
           /\ Kept(t, r, Trimmed[i]) = {k \in r[1]..r[2] : k \in Words(t)}
           /\ \A m, n \in r[1]..r[2] : SameLine(t, m, n)
           /\ \A n \in r[1]..r[2], m \in Words(t) :
                n \in Words(t) /\ m <= n /\ SameLine(t, m, n) => m \in r[1]..r[2]
<1>1. /\ r \in (1..Len(t)) \X (1..Len(t)) /\ r[1] <= r[2]
      /\ \A k \in r[1]..r[2] : t[k] \notin LineEnds[i]
      /\ r[1] = 1 \/ t[r[1] - 1] \in LineEnds[i]
  BY DEF Split
<1>2. \A k \in r[1]..r[2] : k \in 1..Len(t) /\ t[k] # "lf"
  BY <1>1, ItemsOfDocumented
<1>3. Kept(t, r, Trimmed[i]) = {k \in r[1]..r[2] : k \in Words(t)}
  BY <1>2, ItemsOfDocumented DEF Kept
<1>4. \A m, n \in r[1]..r[2] : SameLine(t, m, n)
  BY <1>1, <1>2 DEF SameLine
<1>5. ASSUME NEW n \in r[1]..r[2], NEW m \in Words(t),
             n \in Words(t), m <= n, SameLine(t, m, n), m < r[1]
      PROVE  FALSE
  <2>1. m \in 1..Len(t) /\ r[1] - 1 \in m..n /\ r[1] - 1 \in 1..Len(t)
    BY <1>1, <1>5 DEF Words
  <2>2. t[r[1] - 1] \in LineEnds[i] /\ t[r[1] - 1] # "lf"
    BY <1>1, <1>5, <2>1 DEF SameLine
  <2>3. t[r[1] - 1] = "cr"
    BY <2>1, <2>2, ItemsOfDocumented
  <2>4. t[r[1]] = "lf"
    BY <1>1, <2>1, <2>3, ItemsOfDocumented
  <2> QED BY <1>1, <1>2, <2>4
<1>6. ASSUME NEW n \in r[1]..r[2], NEW m \in Words(t),
             n \in Words(t), m <= n, SameLine(t, m, n)
      PROVE  m \in r[1]..r[2]
  BY <1>1, <1>5, <1>6 DEF Words
<1> QED BY <1>1, <1>3, <1>4, <1>6

\* A line that says something goes from the first word of a line to its last one.
LEMMA LineIsWords ==
    ASSUME NEW t \in Seq(Item), Documented(t), NEW i \in Impls, NEW l \in Lines(i, t)
    PROVE  /\ l \in (1..Len(t)) \X (1..Len(t)) /\ l[1] \in l[1]..l[2]
           /\ l[1] \in Words(t) /\ t[l[1]] # "#"
           /\ \A n \in l[1]..l[2] : n \in 1..Len(t) /\ t[n] \notin {"lf", "cr"}
           /\ \A n \in l[1]..l[2] : n \in Words(t) => FirstOfLine(t, n) = l[1]
<1> DEFINE K(r) == Kept(t, r, Trimmed[i])
<1>1. PICK r \in Split(t, <<1, Len(t)>>, LineEnds[i]) :
        K(r) # {} /\ l = <<Min(K(r)), Max(K(r))>> /\ t[l[1]] # "#"
  BY DEF Lines, Trim
<1>2. /\ r \in (1..Len(t)) \X (1..Len(t)) /\ K(r) = {k \in r[1]..r[2] : k \in Words(t)}
      /\ \A m, n \in r[1]..r[2] : SameLine(t, m, n)
      /\ \A n \in r[1]..r[2], m \in Words(t) :
           n \in Words(t) /\ m <= n /\ SameLine(t, m, n) => m \in r[1]..r[2]
  BY WordsOfLine
<1>3. K(r) \in SUBSET (r[1]..r[2]) /\ r[1] \in Nat /\ r[2] \in Nat
  BY <1>2
<1>4. Min(K(r)) \in K(r) /\ Max(K(r)) \in K(r) /\ \A y \in K(r) : Min(K(r)) <= y /\ y <= Max(K(r))
  BY <1>1, <1>3, Extremes
<1>5. l[1] \in K(r) /\ l[2] \in K(r) /\ \A y \in K(r) : l[1] <= y /\ y <= l[2]
  BY <1>1, <1>4
<1> HIDE DEF K
<1>6. l \in (1..Len(t)) \X (1..Len(t)) /\ l[1] \in l[1]..l[2] /\ l[1] \in Words(t) /\ l[2] \in Words(t)
  <2>1. l = <<l[1], l[2]>>
    BY <1>1
  <2> QED BY <1>2, <1>5, <2>1
<1>7. ASSUME NEW n \in l[1]..l[2] PROVE n \in 1..Len(t) /\ t[n] \notin {"lf", "cr"}
  <2>1. n \in 1..Len(t) /\ n \in r[1]..r[2] /\ l[2] \in r[1]..r[2] /\ l[2] \in 1..Len(t)
    BY <1>2, <1>5, <1>6
  <2>2. \A k \in n..l[2] : t[k] # "lf"
    BY <1>2, <2>1 DEF SameLine
  <2>3. t[n] # "lf"
    BY <2>1, <2>2
  <2>4. ASSUME t[n] = "cr" PROVE FALSE
    <3>1. n + 1 \in 1..Len(t) /\ t[n + 1] = "lf"
      BY <2>1, <2>4, ItemsOfDocumented
    <3>2. n # l[2]
      BY <1>6, <2>4 DEF Words, Blank, AsciiBlank
    <3>3. n + 1 \in n..l[2]
      BY <2>1, <3>2
    <3> QED BY <2>2, <3>1, <3>3
  <2> QED BY <2>1, <2>3, <2>4
<1>8. ASSUME NEW n \in l[1]..l[2], n \in Words(t) PROVE FirstOfLine(t, n) = l[1]
  <2>1. n \in r[1]..r[2] /\ l[1] \in r[1]..r[2] /\ n \in 1..Len(t)
    BY <1>2, <1>5, <1>7
  <2>2. FirstOfLine(t, n) <= l[1]
    BY <1>2, <1>6, <1>8, <2>1, FirstWord
  <2>3. FirstOfLine(t, n) \in K(r)
    BY <1>2, <1>8, <2>1, FirstWord
  <2>4. l[1] <= FirstOfLine(t, n)
    BY <1>5, <2>3
  <2>5. FirstOfLine(t, n) \in Nat /\ l[1] \in Nat
    BY <1>6, <1>8, FirstWord DEF Words
  <2> QED BY <2>2, <2>4, <2>5
<1> QED BY <1>1, <1>6, <1>7, <1>8

\* Each word that is not in a comment is in one of these lines.
LEMMA LineOfWord ==
    ASSUME NEW t \in Seq(Item), Documented(t), NEW i \in Impls,
           NEW n \in Words(t), t[FirstOfLine(t, n)] # "#"
    PROVE  \E l \in Lines(i, t) : l[1] = FirstOfLine(t, n) /\ n \in l[1]..l[2]
<1> DEFINE K(r) == Kept(t, r, Trimmed[i])
<1>1. n \in 1..Len(t) /\ Len(t) \in Nat /\ 1 \in Nat /\ t[n] \notin LineEnds[i]
  <2>1. n \in 1..Len(t) /\ t[n] \notin {"lf", "cr"}
    BY DEF Words, Blank, AsciiBlank
  <2> QED BY <2>1, ItemsOfDocumented
<1>2. PICK r \in Split(t, <<1, Len(t)>>, LineEnds[i]) : n \in r[1]..r[2]
  BY <1>1, SplitCovers
<1>3. /\ r \in (1..Len(t)) \X (1..Len(t)) /\ K(r) = {k \in r[1]..r[2] : k \in Words(t)}
  BY WordsOfLine
<1>4. n \in K(r) /\ K(r) \in SUBSET (r[1]..r[2]) /\ r[1] \in Nat /\ r[2] \in Nat
  BY <1>2, <1>3
<1>5. /\ Min(K(r)) \in K(r) /\ Min(K(r)) <= n /\ n <= Max(K(r)) /\ Max(K(r)) \in K(r)
  BY <1>4, Extremes
<1>6. \A m, k \in r[1]..r[2] : SameLine(t, m, k)
  BY WordsOfLine
<1>7. \A m \in Words(t) : m <= n /\ SameLine(t, m, n) => m \in r[1]..r[2]
  BY <1>2, WordsOfLine
<1>8. Min(K(r)) = FirstOfLine(t, n)
  <2>1. Min(K(r)) \in Words(t) /\ Min(K(r)) \in r[1]..r[2]
    BY <1>3, <1>5
  <2>2. FirstOfLine(t, n) <= Min(K(r))
    BY <1>2, <1>5, <1>6, <2>1, FirstWord
  <2>3. FirstOfLine(t, n) \in K(r)
    BY <1>3, <1>7, FirstWord
  <2>4. Min(K(r)) <= FirstOfLine(t, n)
    BY <1>4, <2>3, Extremes
  <2>5. FirstOfLine(t, n) \in Nat /\ Min(K(r)) \in Nat
    BY <2>1, FirstWord DEF Words
  <2> QED BY <2>2, <2>4, <2>5
<1>9. <<Min(K(r)), Max(K(r))>> \in Lines(i, t)
  <2>1. K(r) # {}
    BY <1>4
  <2>2. t[Min(K(r))] # "#"
    BY <1>8
  <2> QED BY <1>2, <2>1, <2>2 DEF Lines, Trim
<1>10. n \in Min(K(r))..Max(K(r))
  BY <1>1, <1>3, <1>5
<1> QED BY <1>8, <1>9, <1>10

-----------------------------------------------------------------------------
(* Documented texts: fields, and what a line says.                         *)

\* Outside of comments each word is a field of its own.
LEMMA FieldsAreWords ==
    ASSUME NEW t \in Seq(Item), Documented(t), NEW i \in Impls, NEW l \in Lines(i, t)
    PROVE  Fields(i, t, l) = {<<k, k>> : k \in {k \in l[1]..l[2] : k \in Words(t)}}
<1>1. /\ l \in (1..Len(t)) \X (1..Len(t)) /\ l[1] \in Words(t) /\ t[l[1]] # "#"
      /\ \A n \in l[1]..l[2] : n \in 1..Len(t) /\ t[n] \notin {"lf", "cr"}
      /\ \A n \in l[1]..l[2] : n \in Words(t) => FirstOfLine(t, n) = l[1]
  BY LineIsWords
<1>2. ASSUME NEW n \in l[1]..l[2] PROVE t[n] \in Separators[i] <=> n \notin Words(t)
  BY <1>1, <1>2, ItemsOfDocumented
<1>3. ASSUME NEW n \in l[1]..l[2], n + 1 \in l[1]..l[2]
      PROVE  ~(n \in Words(t) /\ n + 1 \in Words(t))
  <2>1. SUFFICES ASSUME n \in Words(t), n + 1 \in Words(t) PROVE FALSE
    OBVIOUS
  <2>2. n \in DOMAIN t
    BY <2>1 DEF Words
  <2>3. {n, n + 1} \subseteq Words(t)
    BY <2>1
  <2>4. t[FirstOfLine(t, n)] = "#"
    BY ONLY <2>2, <2>3, Documented(t), Zenon DEF Documented
  <2> QED BY <1>1, <1>3, <2>1, <2>4
<1>4. ASSUME NEW s \in Fields(i, t, l)
      PROVE  s \in {<<k, k>> : k \in {k \in l[1]..l[2] : k \in Words(t)}}
  <2>1. /\ s \in (l[1]..l[2]) \X (l[1]..l[2]) /\ s[1] <= s[2]
        /\ \A k \in s[1]..s[2] : t[k] \notin Separators[i]
    BY <1>4 DEF Fields, Split
  <2>2. \A k \in s[1]..s[2] : k \in l[1]..l[2] /\ k \in Words(t)
    BY <1>1, <1>2, <2>1
  <2>3. s[1] = s[2]
    <3>1. SUFFICES ASSUME s[1] # s[2] PROVE FALSE
      OBVIOUS
    <3>2. s[1] \in s[1]..s[2] /\ s[1] + 1 \in s[1]..s[2]
      BY <1>1, <2>1, <3>1
    <3> QED BY <1>3, <2>2, <3>2
  <2>4. s = <<s[1], s[1]>> /\ s[1] \in s[1]..s[2]
    BY <1>1, <2>1, <2>3
  <2> QED BY <2>2, <2>4
<1>5. ASSUME NEW k \in l[1]..l[2], k \in Words(t) PROVE <<k, k>> \in Fields(i, t, l)
  <2>1. k = l[1] \/ t[k - 1] \in Separators[i]
    <3>1. SUFFICES ASSUME k # l[1] PROVE t[k - 1] \in Separators[i]
      OBVIOUS
    <3>2. k - 1 \in l[1]..l[2] /\ (k - 1) + 1 = k
      BY <1>1, <3>1
    <3> QED BY <1>2, <1>3, <1>5, <3>2
  <2>2. k = l[2] \/ t[k + 1] \in Separators[i]
    <3>1. SUFFICES ASSUME k # l[2] PROVE t[k + 1] \in Separators[i]
      OBVIOUS
    <3>2. k + 1 \in l[1]..l[2]
      BY <1>1, <3>1
    <3> QED BY <1>2, <1>3, <1>5, <3>2
  <2>3. t[k] \notin Separators[i] /\ \A m \in k..k : m = k
    BY <1>1, <1>2, <1>5
  <2> QED BY <1>1, <2>1, <2>2, <2>3 DEF Fields, Split
<1> QED BY <1>4, <1>5

LEMMA LowerOfDocumented ==
    ASSUME NEW t \in Seq(Item), Documented(t), NEW i \in Impls, NEW k \in 1..Len(t)
    PROVE  Lower(i, <<t[k]>>) = Lower("go", <<t[k]>>)
<1>1. t[k] # "UMLAUT"
  <2>1. k \in DOMAIN t
    OBVIOUS
  <2> QED BY ONLY <2>1, Documented(t), Zenon DEF Documented
<1>2. ASSUME NEW j \in Impls
      PROVE  Lower(j, <<t[k]>>) = [n \in 1..1 |-> IF t[k] = "NAME" THEN "name" ELSE t[k]]
  <2>1. /\ LowerCases[j] \in {UnicodeLower, AsciiLower}
        /\ t[k] \in DOMAIN LowerCases[j] <=> t[k] = "NAME"
        /\ LowerCases[j]["NAME"] = "name"
    BY <1>1 DEF Impls, LowerCases, UnicodeLower, AsciiLower
  <2> QED BY <2>1 DEF Lower
<1> QED BY <1>2 DEF Impls

LEMMA LineSays ==
    ASSUME NEW t \in Seq(Item), Documented(t), NEW i \in Impls, NEW l \in Lines(i, t)
    PROVE  /\ Token(i, t, l) = <<t[l[1]]>>
           /\ Domains(i, t, l) =
                {Lower("go", <<t[k]>>) : k \in {k \in l[1]..l[2] : k \in Words(t) /\ k # l[1]}}
<1>1. /\ l \in (1..Len(t)) \X (1..Len(t)) /\ l[1] \in l[1]..l[2] /\ l[1] \in Words(t)
      /\ \A n \in l[1]..l[2] : n \in 1..Len(t)
  BY LineIsWords
<1>2. Fields(i, t, l) = {<<k, k>> : k \in {k \in l[1]..l[2] : k \in Words(t)}}
  BY FieldsAreWords
<1>3. ASSUME NEW k \in l[1]..l[2] PROVE Piece(t, <<k, k>>) = <<t[k]>>
  <2>1. k \in 1..Len(t) /\ k \in Nat
    BY <1>1
  <2>2. \A n \in k..k : t[n] \in Item
    BY <2>1, ElementOfSeq
  <2> DEFINE p == SubSeq(t, k, k)
  <2>3. p \in Seq(Item) /\ Len(p) = k - k + 1 /\ \A n \in 1..(k - k + 1) : p[n] = t[k + n - 1]
    BY <2>1, <2>2, SubSeqProperties
  <2>4. Len(p) = 1 /\ p[1] = t[k]
    BY <2>1, <2>3
  <2> HIDE DEF p
  <2>5. <<t[k]>> \in Seq(Item) /\ Len(<<t[k]>>) = 1
    BY <2>1, <2>2
  <2>6. p = <<t[k]>>
    BY <2>3, <2>4, <2>5, SeqEqual
  <2> QED BY <2>6 DEF p, Piece
<1>4. (CHOOSE f \in Fields(i, t, l) : f[1] = l[1]) = <<l[1], l[1]>>
  <2>1. <<l[1], l[1]>> \in Fields(i, t, l)
    BY <1>1, <1>2
  <2>2. \A f \in Fields(i, t, l) : f[1] = l[1] => f = <<l[1], l[1]>>
    BY <1>2
  <2> QED BY <2>1, <2>2
<1>5. Token(i, t, l) = <<t[l[1]]>>
  BY <1>1, <1>3, <1>4 DEF Token
<1>6. ASSUME NEW k \in l[1]..l[2] PROVE Lower(i, Piece(t, <<k, k>>)) = Lower("go", <<t[k]>>)
  BY <1>1, <1>3, LowerOfDocumented
<1>7. Domains(i, t, l) =
        {Lower("go", <<t[k]>>) : k \in {k \in l[1]..l[2] : k \in Words(t) /\ k # l[1]}}
  <2>1. {f \in Fields(i, t, l) : f[1] # l[1]}
          = {<<k, k>> : k \in {k \in l[1]..l[2] : k \in Words(t) /\ k # l[1]}}
    BY <1>2
  <2>2. Domains(i, t, l)
          = {Lower(i, Piece(t, <<k, k>>)) : k \in {k \in l[1]..l[2] : k \in Words(t) /\ k # l[1]}}
    BY ONLY <2>1, Zenon DEF Domains
  <2> QED BY <1>6, <2>2
<1> QED BY <1>5, <1>7

\* The word at k names its domain for the token at the start of its line.
LEMMA NamedPlaces ==
    ASSUME NEW t \in Seq(Item), Documented(t), NEW i \in Impls, NEW d
    PROVE  /\ \A l \in Naming(i, t, d) :
                \E k \in Named(t, d) : k \in l[1]..l[2] /\ FirstOfLine(t, k) = l[1]
           /\ \A k \in Named(t, d) :
                \E l \in Naming(i, t, d) : l[1] = FirstOfLine(t, k)
<1>1. ASSUME NEW l \in Naming(i, t, d)
      PROVE  \E k \in Named(t, d) : k \in l[1]..l[2] /\ FirstOfLine(t, k) = l[1]
  <2>1. l \in Lines(i, t) /\ d \in Domains(i, t, l)
    BY <1>1 DEF Naming
  <2>2. PICK k \in {k \in l[1]..l[2] : k \in Words(t) /\ k # l[1]} : d = Lower("go", <<t[k]>>)
    BY <2>1, LineSays
  <2>3. FirstOfLine(t, k) = l[1] /\ t[l[1]] # "#"
    BY <2>1, <2>2, LineIsWords
  <2> QED BY <2>2, <2>3 DEF Named
<1>2. ASSUME NEW k \in Named(t, d)
      PROVE  \E l \in Naming(i, t, d) : l[1] = FirstOfLine(t, k)
  <2>1. /\ k \in Words(t) /\ Lower("go", <<t[k]>>) = d
        /\ FirstOfLine(t, k) # k /\ t[FirstOfLine(t, k)] # "#"
    BY <1>2 DEF Named
  <2>2. PICK l \in Lines(i, t) : l[1] = FirstOfLine(t, k) /\ k \in l[1]..l[2]
    BY <2>1, LineOfWord
  <2>3. d \in Domains(i, t, l)
    BY <2>1, <2>2, LineSays
  <2> QED BY <2>2, <2>3 DEF Naming
<1> QED BY <1>1, <1>2

\* Later words are in the same line or in later ones.
LEMMA LinesInOrder ==
    ASSUME NEW t \in Seq(Item), NEW m \in Words(t), NEW n \in Words(t), m <= n
    PROVE  FirstOfLine(t, m) <= FirstOfLine(t, n)
<1>1. /\ FirstOfLine(t, m) \in Words(t) /\ FirstOfLine(t, m) <= m
      /\ FirstOfLine(t, n) \in Words(t) /\ SameLine(t, FirstOfLine(t, n), n)
      /\ \A k \in Words(t) : k <= m /\ SameLine(t, k, m) => FirstOfLine(t, m) <= k
  BY FirstWord
<1>2. Words(t) \subseteq Int
  BY DEF Words
<1>3. CASE FirstOfLine(t, n) <= m
  <2>1. SameLine(t, FirstOfLine(t, n), m)
    BY <1>1, <1>2, <1>3 DEF SameLine
  <2> QED BY <1>1, <1>3, <2>1
<1>4. CASE m < FirstOfLine(t, n)
  BY <1>1, <1>2, <1>4
<1> QED BY <1>1, <1>2, <1>3, <1>4

\* The three parsers give a documented file the meaning of README.md:28-42,
\* whatever its length.
LEMMA ParseIsMeaning ==
    ASSUME NEW t \in Seq(Item), Documented(t), NEW i \in Impls
    PROVE  Parse(i, t) = MeaningOf(t)
<1> DEFINE Parsed == UNION {Domains(i, t, l) : l \in Lines(i, t)}
           Meant == {d \in {Lower("go", <<w>>) : w \in Range(t)} : Named(t, d) # {}}
<1>1. \A d : d \in Parsed <=> Naming(i, t, d) # {}
  BY DEF Naming
<1>2. \A d : Naming(i, t, d) # {} <=> Named(t, d) # {}
  BY NamedPlaces
<1>3. ASSUME NEW d, Named(t, d) # {} PROVE d \in {Lower("go", <<w>>) : w \in Range(t)}
  <2>1. PICK k \in Words(t) : Lower("go", <<t[k]>>) = d
    BY <1>3 DEF Named
  <2>2. t[k] \in Range(t)
    BY <2>1 DEF Words, Range
  <2> QED BY <2>1, <2>2
<1>4. Parsed = Meant
  BY <1>1, <1>2, <1>3
<1>5. ASSUME NEW d \in Meant
      PROVE  Token(i, t, Winner(Naming(i, t, d))) = <<t[FirstOfLine(t, Max(Named(t, d)))]>>
  <2> DEFINE last == Max(Named(t, d))
             w == Winner(Naming(i, t, d))
  <2>1. last \in Named(t, d) /\ \A k \in Named(t, d) : k <= last
    <3>1. Named(t, d) \in SUBSET (1..Len(t)) /\ Len(t) \in Nat /\ Named(t, d) # {}
      BY <1>5 DEF Named, Words
    <3> QED BY <3>1, Extremes
  <2> HIDE DEF last
  <2>2. PICK l \in Naming(i, t, d) : l[1] = FirstOfLine(t, last)
    BY <2>1, NamedPlaces
  <2>3. ASSUME NEW k \in Naming(i, t, d) PROVE k[1] <= l[1]
    <3>1. PICK n \in Named(t, d) : FirstOfLine(t, n) = k[1]
      BY <2>3, NamedPlaces
    <3>2. n \in Words(t) /\ last \in Words(t) /\ n <= last
      BY <2>1, <3>1 DEF Named
    <3> QED BY <2>2, <3>1, <3>2, LinesInOrder
  <2>4. w \in Naming(i, t, d) /\ \A k \in Naming(i, t, d) : k[1] <= w[1]
    BY <2>2, <2>3 DEF Winner
  <2> HIDE DEF w
  <2>5. w \in Lines(i, t) /\ l \in Lines(i, t)
    BY <2>2, <2>4 DEF Naming
  <2>6. w[1] \in Int /\ l[1] \in Int
    BY <2>5, LineIsWords
  <2>7. w[1] = l[1]
    BY <2>2, <2>3, <2>4, <2>6
  <2> QED BY <2>2, <2>5, <2>7, LineSays DEF w, last
<1> HIDE DEF Parsed, Meant
<1>6. Parse(i, t) = [d \in Parsed |-> Token(i, t, Winner(Naming(i, t, d)))]
  BY DEF Parse, Parsed
<1>7. MeaningOf(t) = [d \in Meant |-> <<t[FirstOfLine(t, Max(Named(t, d)))]>>]
  BY DEF MeaningOf, Meant
<1> QED BY <1>4, <1>5, <1>6, <1>7

-----------------------------------------------------------------------------
(* Texts that two parsers read alike, documented or not.                   *)

NoLoneReturn(t) == \A n \in DOMAIN t : t[n] = "cr" => LineEnd(t, n)

LEMMA ReturnsEndLines ==
    ASSUME NEW t \in Seq(Item), NoLoneReturn(t), NEW n \in 1..Len(t), t[n] = "cr"
    PROVE  n + 1 \in 1..Len(t) /\ t[n + 1] = "lf"
<1>1. n \in DOMAIN t
  OBVIOUS
<1>2. LineEnd(t, n)
  BY <1>1 DEF NoLoneReturn
<1> QED BY <1>2 DEF LineEnd

LEMMA LineInText ==
    ASSUME NEW t \in Seq(Item), NEW i \in Impls, NEW l \in Lines(i, t)
    PROVE  /\ l \in (1..Len(t)) \X (1..Len(t)) /\ l[1] <= l[2]
           /\ t[l[2]] \notin Trimmed[i]
           /\ \A n \in l[1]..l[2] : n \in 1..Len(t) /\ t[n] \notin LineEnds[i]
<1> DEFINE K(r) == Kept(t, r, Trimmed[i])
<1>1. PICK r \in Split(t, <<1, Len(t)>>, LineEnds[i]) : K(r) # {} /\ l = <<Min(K(r)), Max(K(r))>>
  BY DEF Lines, Trim
<1>2. r \in (1..Len(t)) \X (1..Len(t)) /\ \A n \in r[1]..r[2] : t[n] \notin LineEnds[i]
  BY DEF Split
<1>3. K(r) \in SUBSET (r[1]..r[2]) /\ r[1] \in Nat /\ r[2] \in Nat
  BY <1>2 DEF Kept
<1>4. Min(K(r)) \in K(r) /\ Max(K(r)) \in K(r) /\ \A y \in K(r) : Min(K(r)) <= y /\ y <= Max(K(r))
  BY <1>1, <1>3, Extremes
<1>5. l[1] \in K(r) /\ l[2] \in K(r) /\ l[1] <= l[2] /\ l = <<l[1], l[2]>>
  BY <1>1, <1>4
<1>6. t[l[2]] \notin Trimmed[i]
  BY <1>5 DEF Kept
<1> QED BY <1>2, <1>3, <1>5, <1>6

LEMMA NoReturnInLine ==
    ASSUME NEW t \in Seq(Item), NoLoneReturn(t), NEW i \in Impls, NEW l \in Lines(i, t),
           NEW n \in l[1]..l[2]
    PROVE  t[n] # "cr"
<1>1. "cr" \in Trimmed[i] /\ "lf" \in LineEnds[i]
  BY DEF Impls, Trimmed, LineEnds, Blank, AsciiBlank
<1>2. SUFFICES ASSUME t[n] = "cr" PROVE FALSE
  OBVIOUS
<1>3. n \in 1..Len(t) /\ n # l[2] /\ l \in (1..Len(t)) \X (1..Len(t))
  BY <1>1, <1>2, LineInText
<1>4. t[n + 1] = "lf" /\ n + 1 \in l[1]..l[2]
  BY <1>2, <1>3, ReturnsEndLines
<1> QED BY <1>1, <1>4, LineInText

LEMMA WinnerIsLine ==
    ASSUME NEW t \in Seq(Item), NEW i \in Impls, NEW d, Naming(i, t, d) # {}
    PROVE  Winner(Naming(i, t, d)) \in Lines(i, t)
<1> DEFINE N == Naming(i, t, d)
           S == {l[1] : l \in N}
<1>1. N \subseteq Lines(i, t)
  BY DEF Naming
<1>2. S \in SUBSET (1..Len(t)) /\ S # {} /\ Len(t) \in Nat
  BY <1>1, LineInText
<1>3. Max(S) \in S /\ \A y \in S : y <= Max(S)
  BY <1>2, Extremes
<1>4. \E l \in N : \A k \in N : k[1] <= l[1]
  <2>1. PICK l \in N : l[1] = Max(S)
    BY <1>3
  <2>2. \A k \in N : k[1] \in S
    OBVIOUS
  <2> QED BY <1>3, <2>1, <2>2
<1> HIDE DEF N, S
<1>5. Winner(N) \in N
  BY <1>4 DEF Winner
<1> QED BY <1>1, <1>5 DEF N

LEMMA SameFieldsSameMap ==
    ASSUME NEW t \in Seq(Item), NEW i \in Impls, NEW j, Lines(i, t) = Lines(j, t),
           \A l \in Lines(i, t) : Fields(i, t, l) = Fields(j, t, l),
           \A l \in Lines(i, t) : \A f \in Fields(i, t, l) :
              Lower(i, Piece(t, f)) = Lower(j, Piece(t, f))
    PROVE  Parse(i, t) = Parse(j, t)
<1>1. ASSUME NEW l \in Lines(i, t)
      PROVE  Token(i, t, l) = Token(j, t, l) /\ Domains(i, t, l) = Domains(j, t, l)
  <2>1. Token(i, t, l) = Token(j, t, l)
    BY Zenon DEF Token
  <2>2. Domains(i, t, l) = Domains(j, t, l)
    BY DEF Domains
  <2> QED BY <2>1, <2>2
<1>2. \A d : Naming(i, t, d) = Naming(j, t, d)
  BY <1>1 DEF Naming
<1> DEFINE D == UNION {Domains(i, t, l) : l \in Lines(i, t)}
<1>3. D = UNION {Domains(j, t, l) : l \in Lines(j, t)}
  BY <1>1
<1>4. ASSUME NEW d \in D
      PROVE  Token(i, t, Winner(Naming(i, t, d))) = Token(j, t, Winner(Naming(j, t, d)))
  <2> DEFINE w == Winner(Naming(i, t, d))
  <2>1. w = Winner(Naming(j, t, d))
    BY <1>2
  <2>2. Naming(i, t, d) # {}
    BY DEF Naming
  <2>3. Token(i, t, w) = Token(j, t, w)
    BY <1>1, <2>2, WinnerIsLine
  <2> QED BY <2>1, <2>3
<1> QED BY <1>3, <1>4, Zenon DEF Parse

\* Rust reads what Go reads where no character tells them apart.
LEMMA RustParsesLikeGo ==
    ASSUME NEW t \in Seq(Item), NoLoneReturn(t), Range(t) \cap {"ff", "nbsp", "UMLAUT"} = {}
    PROVE  Parse("go", t) = Parse("rust", t)
<1>1. \A n \in 1..Len(t) : t[n] \notin {"ff", "nbsp", "UMLAUT"}
  <2>1. ASSUME NEW n \in 1..Len(t) PROVE t[n] \in Range(t)
    BY DOMAIN t = 1..Len(t) DEF Range
  <2> QED BY <2>1
<1>2. "go" \in Impls /\ "rust" \in Impls
  BY DEF Impls
<1>3. Lines("go", t) = Lines("rust", t)
  <2>1. LineEnds["go"] = LineEnds["rust"]
    BY DEF LineEnds
  <2>2. ASSUME NEW r \in Split(t, <<1, Len(t)>>, LineEnds["go"])
        PROVE  Kept(t, r, Trimmed["go"]) = Kept(t, r, Trimmed["rust"])
    <3>1. r \in (1..Len(t)) \X (1..Len(t))
      BY DEF Split
    <3>2. \A n \in r[1]..r[2] : t[n] \in Trimmed["go"] <=> t[n] \in Trimmed["rust"]
      BY <1>1, <3>1 DEF Trimmed, Blank, AsciiBlank
    <3> QED BY <3>2 DEF Kept
  <2> QED BY <2>1, <2>2 DEF Lines, Trim
<1>4. ASSUME NEW l \in Lines("go", t) PROVE Fields("go", t, l) = Fields("rust", t, l)
  <2>1. l \in (1..Len(t)) \X (1..Len(t)) /\ \A n \in l[1]..l[2] : n \in 1..Len(t) /\ t[n] # "cr"
    BY <1>2, LineInText, NoReturnInLine
  <2>2. \A n \in l[1]..l[2] : t[n] \in Separators["go"] <=> t[n] \in Separators["rust"]
    BY <1>1, <2>1 DEF Separators, Blank, AsciiBlank
  <2>3. ASSUME NEW s \in (l[1]..l[2]) \X (l[1]..l[2])
        PROVE  /\ \A n \in s[1]..s[2] : n \in l[1]..l[2]
               /\ s[1] = l[1] \/ s[1] - 1 \in l[1]..l[2]
               /\ s[2] = l[2] \/ s[2] + 1 \in l[1]..l[2]
    BY <2>1
  <2> QED BY <2>2, <2>3 DEF Fields, Split
<1>5. ASSUME NEW l \in Lines("go", t), NEW f \in Fields("go", t, l)
      PROVE  Lower("go", Piece(t, f)) = Lower("rust", Piece(t, f))
  <2>1. f \in (1..Len(t)) \X (1..Len(t))
    <3>1. l \in (1..Len(t)) \X (1..Len(t)) /\ f \in (l[1]..l[2]) \X (l[1]..l[2])
      BY <1>2, LineInText DEF Fields, Split
    <3> QED BY <3>1
  <2>2. ASSUME NEW n \in DOMAIN Piece(t, f) PROVE Piece(t, f)[n] # "UMLAUT"
    <3>1. \A k \in f[1]..f[2] : t[k] \in Item \ {"UMLAUT"}
      BY <1>1, <2>1, ElementOfSeq
    <3>2. f[1] \in Int /\ f[2] \in Int
      BY <2>1
    <3>3. Piece(t, f) \in Seq(Item \ {"UMLAUT"})
      BY <3>1, <3>2, SubSeqProperties DEF Piece
    <3>4. n \in 1..Len(Piece(t, f))
      BY <3>3
    <3> QED BY <3>3, <3>4, ElementOfSeq
  <2>3. \A n \in DOMAIN Piece(t, f) :
          /\ Piece(t, f)[n] \in DOMAIN LowerCases["go"] <=> Piece(t, f)[n] \in DOMAIN LowerCases["rust"]
          /\ Piece(t, f)[n] \in DOMAIN LowerCases["go"] =>
               LowerCases["go"][Piece(t, f)[n]] = LowerCases["rust"][Piece(t, f)[n]]
    BY <2>2 DEF LowerCases, UnicodeLower, AsciiLower
  <2> QED BY <2>3 DEF Lower
<1> QED BY <1>2, <1>3, <1>4, <1>5, SameFieldsSameMap

\* Python's lines are those of Go without the return at their end.
LEMMA PythonLines ==
    ASSUME NEW t \in Seq(Item), NoLoneReturn(t)
    PROVE  Lines("go", t) = Lines("python", t)
<1> DEFINE Go == Split(t, <<1, Len(t)>>, {"lf"})
           Py == Split(t, <<1, Len(t)>>, {"lf", "cr"})
           K(r) == Kept(t, r, Blank)
<1>1. /\ LineEnds["go"] = {"lf"} /\ LineEnds["python"] = {"lf", "cr"}
      /\ Trimmed["go"] = Blank /\ Trimmed["python"] = Blank /\ "cr" \in Blank
  BY DEF LineEnds, Trimmed, Blank, AsciiBlank
<1>2. ASSUME NEW r \in Go, K(r) # {} PROVE \E q \in Py : K(q) = K(r)
  <2>1. /\ r \in (1..Len(t)) \X (1..Len(t)) /\ r[1] <= r[2]
        /\ \A k \in r[1]..r[2] : t[k] # "lf"
        /\ r[1] = 1 \/ t[r[1] - 1] = "lf"
        /\ r[2] = Len(t) \/ t[r[2] + 1] = "lf"
    BY DEF Split
  <2>2. ASSUME NEW k \in r[1]..r[2], t[k] = "cr" PROVE k = r[2]
    <3>1. k \in 1..Len(t)
      BY <2>1
    <3>2. t[k + 1] = "lf"
      BY <2>2, <3>1, ReturnsEndLines
    <3> QED BY <2>1, <3>2
  <2>3. CASE t[r[2]] # "cr"
    <3>1. \A k \in r[1]..r[2] : t[k] \notin {"lf", "cr"}
      BY <2>1, <2>2, <2>3
    <3>2. r \in Py
      BY <2>1, <3>1 DEF Split
    <3> QED BY <3>2
  <2>4. CASE t[r[2]] = "cr"
    <3> DEFINE q == <<r[1], r[2] - 1>>
    <3>1. PICK k \in r[1]..r[2] : t[k] \notin Blank
      BY <1>2 DEF Kept
    <3>2. k # r[2]
      BY <1>1, <2>4, <3>1
    <3>3. r[1] <= r[2] - 1 /\ r[2] - 1 \in 1..Len(t) /\ (r[2] - 1) + 1 = r[2]
      BY <2>1, <3>2
    <3>4. \A m \in r[1]..(r[2] - 1) : t[m] \notin {"lf", "cr"}
      BY <2>1, <2>2
    <3>5. q \in Py
      BY <2>1, <2>4, <3>3, <3>4 DEF Split
    <3>6. K(q) = K(r)
      BY <1>1, <2>1, <2>4 DEF Kept
    <3> QED BY <3>5, <3>6
  <2> QED BY <2>3, <2>4
<1>3. ASSUME NEW q \in Py, K(q) # {} PROVE \E r \in Go : K(r) = K(q)
  <2>1. /\ q \in (1..Len(t)) \X (1..Len(t)) /\ q[1] <= q[2]
        /\ \A k \in q[1]..q[2] : t[k] \notin {"lf", "cr"}
        /\ q[1] = 1 \/ t[q[1] - 1] \in {"lf", "cr"}
        /\ q[2] = Len(t) \/ t[q[2] + 1] \in {"lf", "cr"}
    BY DEF Split
  <2>2. q[1] = 1 \/ t[q[1] - 1] = "lf"
    <3>1. SUFFICES ASSUME q[1] # 1, t[q[1] - 1] = "cr" PROVE FALSE
      BY <2>1
    <3>2. q[1] - 1 \in 1..Len(t) /\ (q[1] - 1) + 1 = q[1]
      BY <2>1, <3>1
    <3>3. t[q[1]] = "lf"
      BY <3>1, <3>2, ReturnsEndLines
    <3> QED BY <2>1, <3>3
  <2>3. CASE q[2] = Len(t) \/ t[q[2] + 1] = "lf"
    <3>1. q \in Go
      BY <2>1, <2>2, <2>3 DEF Split
    <3> QED BY <3>1
  <2>4. CASE q[2] # Len(t) /\ t[q[2] + 1] = "cr"
    <3> DEFINE r == <<q[1], q[2] + 1>>
    <3>1. q[2] + 1 \in 1..Len(t) /\ q[1] <= q[2] + 1
      BY <2>1, <2>4
    <3>2. (q[2] + 1) + 1 \in 1..Len(t) /\ t[(q[2] + 1) + 1] = "lf"
      BY <2>4, <3>1, ReturnsEndLines
    <3>3. \A k \in q[1]..(q[2] + 1) : t[k] # "lf"
      BY <2>1, <2>4
    <3>4. r \in Go
      BY <2>1, <2>2, <3>1, <3>2, <3>3 DEF Split
    <3>5. K(r) = K(q)
      BY <1>1, <2>1, <2>4 DEF Kept
    <3> QED BY <3>4, <3>5
  <2> QED BY <2>1, <2>3, <2>4
<1> DEFINE Full(R) == {<<Min(K(r)), Max(K(r))>> : r \in {r \in R : K(r) # {}}}
<1>4. /\ Lines("go", t) = {l \in Full(Go) : t[l[1]] # "#"}
      /\ Lines("python", t) = {l \in Full(Py) : t[l[1]] # "#"}
  BY <1>1 DEF Lines, Trim
<1> HIDE DEF K, Go, Py
<1>5. Full(Go) = Full(Py)
  BY <1>2, <1>3
<1> QED BY <1>4, <1>5

LEMMA PythonParsesLikeGo ==
    ASSUME NEW t \in Seq(Item), NoLoneReturn(t)
    PROVE  Parse("go", t) = Parse("python", t)
<1>1. Separators["go"] = Separators["python"] /\ LowerCases["go"] = LowerCases["python"]
  BY DEF Separators, LowerCases
<1>2. \A l : Fields("go", t, l) = Fields("python", t, l)
  BY <1>1 DEF Fields
<1>3. \A field : Lower("go", field) = Lower("python", field)
  BY <1>1, Zenon DEF Lower
<1> QED BY <1>2, <1>3, PythonLines, SameFieldsSameMap DEF Impls

-----------------------------------------------------------------------------
(* Hosts and their encodings.                                              *)

LEMMA TokenIsText ==
    ASSUME NEW t \in Seq(Item), NEW i \in Impls, NEW l \in Lines(i, t)
    PROVE  Token(i, t, l) \in Seq(Item)
<1>1. l \in (1..Len(t)) \X (1..Len(t)) /\ l[1] <= l[2] /\ l = <<l[1], l[2]>>
  BY LineInText
<1>2. t[l[1]] \notin Separators[i]
  <2>1. PICK r \in Split(t, <<1, Len(t)>>, LineEnds[i]) :
          /\ Kept(t, r, Trimmed[i]) # {}
          /\ l = <<Min(Kept(t, r, Trimmed[i])), Max(Kept(t, r, Trimmed[i]))>>
    BY DEF Lines, Trim
  <2>2. Kept(t, r, Trimmed[i]) \in SUBSET (r[1]..r[2]) /\ r[1] \in Nat /\ r[2] \in Nat
    BY DEF Kept, Split
  <2>3. l[1] \in Kept(t, r, Trimmed[i])
    BY <2>1, <2>2, Extremes
  <2>4. Separators[i] \subseteq Trimmed[i]
    BY DEF Impls, Separators, Trimmed, Blank, AsciiBlank
  <2> QED BY <2>3, <2>4 DEF Kept
<1>3. PICK s \in Split(t, <<l[1], l[2]>>, Separators[i]) : l[1] \in s[1]..s[2]
  BY <1>1, <1>2, SplitCovers
<1>4. s \in Fields(i, t, l) /\ s[1] = l[1]
  BY <1>1, <1>3 DEF Fields, Split
<1> DEFINE f == CHOOSE f \in Fields(i, t, l) : f[1] = l[1]
<1>5. f \in Fields(i, t, l)
  BY <1>4
<1>6. f \in (l[1]..l[2]) \X (l[1]..l[2])
  BY <1>5 DEF Fields, Split
<1> HIDE DEF f
<1>7. f[1] \in Int /\ f[2] \in Int /\ \A n \in f[1]..f[2] : t[n] \in Item
  BY <1>1, <1>6, ElementOfSeq
<1>8. Piece(t, f) \in Seq(Item)
  BY <1>7, SubSeqProperties DEF Piece
<1> QED BY <1>8 DEF Token, f

LEMMA TargetIsText ==
    ASSUME NEW t \in Seq(Item), NEW i \in Impls, NEW h \in Seq(Item)
    PROVE  RewriteHost(i, h, Parse(i, t)) \in Seq(Item)
<1> DEFINE key == Lower(i, h)
           w == Winner(Naming(i, t, key))
<1>1. CASE key \in DOMAIN Parse(i, t)
  <2>1. Parse(i, t)[key] = Token(i, t, w) /\ Naming(i, t, key) # {}
    BY <1>1 DEF Parse, Naming
  <2>2. Token(i, t, w) \in Seq(Item)
    BY <2>1, WinnerIsLine, TokenIsText
  <2> QED BY <1>1, <2>1, <2>2 DEF RewriteHost
<1>2. CASE key \notin DOMAIN Parse(i, t)
  BY <1>2 DEF RewriteHost
<1> QED BY <1>1, <1>2

LEMMA LoneWord ==
    ASSUME NEW h \in Seq(Item), Len(h) = 1
    PROVE  h = <<h[1]>>
<1>1. h[1] \in Item
  BY ElementOfSeq
<1>2. <<h[1]>> \in Seq(Item) /\ Len(<<h[1]>>) = 1 /\ \A n \in 1..1 : <<h[1]>>[n] = h[n]
  BY <1>1
<1> QED BY <1>2, SeqEqual

LEMMA LengthIsNatural == ASSUME NEW h \in Seq(Item) PROVE Length(h) \in Nat
BY DEF Length, LongTokens

\* One host is encoded alike, but for the forms AskAlike names.
LEMMA EncodeAlike ==
    ASSUME NEW h \in Seq(Item), h # <<Mapped>>
    PROVE  /\ Length(h) <= 255 => Encode("go", h) = Encode("rust", h)
           /\ Ascii(h) /\ h # <<ShortIp4>> => Encode("go", h) = Encode("python", h)
<1>1. /\ Len(h) = 1 => h[1] # Mapped
      /\ h # <<ShortIp4>> /\ Len(h) = 1 => h[1] # ShortIp4
  BY LoneWord
<1>2. /\ Is(h, Literals4["go"]) <=> Is(h, Literals4["rust"])
      /\ Is(h, Literals6["go"]) <=> Is(h, Literals6["rust"])
      /\ Is(h, Literals6["go"]) <=> Is(h, Literals6["python"])
      /\ h # <<ShortIp4>> => (Is(h, Literals4["go"]) <=> Is(h, Literals4["python"]))
  BY <1>1 DEF Is, Literals4, Literals6, Mapped, Ip4, Ip6
<1>3. /\ Length(h) <= 255 => ~Refuses("go", h) /\ ~Refuses("rust", h)
      /\ Ascii(h) => (Refuses("go", h) <=> Refuses("python", h))
  BY LengthIsNatural DEF Refuses
<1> QED BY <1>2, <1>3, Zenon DEF Encode

\* What a request that is made names.
LEMMA EncodeNames ==
    ASSUME NEW h \in Seq(Item), NEW i \in Impls, Encode(i, h) # Refused,
           i = "rust" => Length(h) <= 255
    PROVE  Whole(Encode(i, h)) /\ Unmapped(Encode(i, h).address) = AsRead(i, h)
<1>1. CASE Is(h, Literals4[i])
  <2>1. Encode(i, h) = [atyp |-> 1, length |-> 4, address |-> <<Ip4>>]
    BY <1>1 DEF Encode
  <2>2. h = <<h[1]>> /\ h[1] \in Literals4[i]
    BY <1>1, LoneWord DEF Is
  <2>3. h \in {<<Ip4>>, <<Mapped>>} \/ (i = "python" /\ h = <<ShortIp4>>)
    BY <2>2 DEF Impls, Literals4
  <2> QED BY <2>1, <2>3 DEF Whole, Bytes, AsRead, Unmapped, Ip4, Mapped, ShortIp4
<1>2. CASE ~Is(h, Literals4[i]) /\ Is(h, Literals6[i])
  <2>1. Encode(i, h) = [atyp |-> 4, length |-> 16, address |-> h]
    BY <1>2 DEF Encode
  <2>2. h # <<ShortIp4>>
    BY <1>2 DEF Is, Impls, Literals4, Literals6, Ip6, Mapped, ShortIp4
  <2> QED BY <2>1, <2>2 DEF Whole, Bytes, AsRead
<1>3. CASE ~Is(h, Literals4[i]) /\ ~Is(h, Literals6[i])
  <2>1. ~Refuses(i, h)
    BY <1>3 DEF Encode
  <2>2. Encode(i, h) = [atyp |-> 3, length |-> Length(h) % 256, address |-> h]
    BY <1>3, <2>1 DEF Encode
  <2>3. Length(h) \in Nat /\ Length(h) <= 255
    <3>1. Length(h) \in Nat
      BY LengthIsNatural
    <3>2. i = "rust" \/ ~(Length(h) > 255)
      BY <2>1, Zenon DEF Refuses, Impls
    <3> QED BY <3>1, <3>2
  <2>4. \A x \in Nat : x <= 255 => x % 256 = x
    OBVIOUS
  <2>5. Length(h) % 256 = Length(h)
    BY <2>3, <2>4, Zenon
  <2>6. ~(i = "python" /\ h = <<ShortIp4>>)
    BY <1>3 DEF Is, Literals4
  <2> QED BY <2>2, <2>5, <2>6 DEF Whole, Bytes, AsRead
<1> QED BY <1>1, <1>2, <1>3

\* A request is not made exactly for what is refused.
LEMMA EncodeRefuses ==
    ASSUME NEW h \in Seq(Item), NEW i \in Impls, i = "rust" => Length(h) <= 255
    PROVE  Encode(i, h) = Refused <=> Length(h) > 255 \/ (i = "python" /\ ~Ascii(h))
<1>1. Refuses(i, h) <=> Length(h) > 255 \/ (i = "python" /\ ~Ascii(h))
  BY LengthIsNatural DEF Refuses, Impls
<1>2. CASE Is(h, Literals4[i]) \/ Is(h, Literals6[i])
  <2>1. h = <<h[1]>> /\ h[1] \in {Ip4, Ip6, Mapped, ShortIp4}
    BY <1>2, LoneWord DEF Is, Impls, Literals4, Literals6
  <2>2. ~Refuses(i, h)
    <3>1. Length(h) = 10
      <4>1. DOMAIN LongTokens = {"tc255", "tc256", "tc300"}
        BY DEF LongTokens
      <4>2. h[1] \notin DOMAIN LongTokens
        <5>1. h[1] \in {"10.0.0.1", "fd00::1", "::ffff:10.0.0.1", "10.1"}
          BY <2>1, Zenon DEF Ip4, Ip6, Mapped, ShortIp4
        <5>2. \A w \in {"10.0.0.1", "fd00::1", "::ffff:10.0.0.1", "10.1"} :
                w \notin {"tc255", "tc256", "tc300"}
          OBVIOUS
        <5> QED BY <4>1, <5>1, <5>2, Zenon
      <4>3. Len(h) = 1
        BY <1>2 DEF Is
      <4> QED BY <4>2, <4>3 DEF Length
    <3>2. Ascii(h)
      BY <2>1 DEF Ascii, NotAscii, Range, Ip4, Ip6, Mapped, ShortIp4
    <3> QED BY <3>1, <3>2 DEF Refuses
  <2>3. Encode(i, h) # Refused
    BY <1>2 DEF Encode, Refused
  <2> QED BY <1>1, <2>2, <2>3
<1>3. CASE ~Is(h, Literals4[i]) /\ ~Is(h, Literals6[i])
  <2>1. Refuses(i, h) => Encode(i, h) = Refused
    BY <1>3 DEF Encode
  <2>2. ~Refuses(i, h) => Encode(i, h) # Refused
    BY <1>3 DEF Encode, Refused
  <2> QED BY <1>1, <2>1, <2>2
<1> QED BY <1>2, <1>3

-----------------------------------------------------------------------------
(* The flag.                                                               *)

LEMMA PieceOfText ==
    ASSUME NEW t \in Seq(Item), NEW m \in 1..(Len(t) + 1), NEW n \in 0..Len(t)
    PROVE  /\ SubSeq(t, m, n) \in Seq(Item)
           /\ Len(SubSeq(t, m, n)) = IF m <= n THEN n - m + 1 ELSE 0
           /\ \A k \in 1..(n - m + 1) : SubSeq(t, m, n)[k] = t[m + k - 1]
<1>1. m \in Int /\ n \in Int /\ \A k \in m..n : k \in 1..Len(t)
  OBVIOUS
<1>2. \A k \in m..n : t[k] \in Item
  BY <1>1, ElementOfSeq
<1> QED BY <1>1, <1>2, SubSeqProperties

LEMMA PartsOfFlag ==
    ASSUME NEW f \in Seq(Item)
    PROVE  /\ LastColon(f) \in 0..Len(f)
           /\ LastColon(f) > 0 => f[LastColon(f)] = ":"
           /\ HostOf(f) \in Seq(Item)
           /\ PortOf(f) \in Seq(Item) /\ Len(PortOf(f)) = Len(f) - LastColon(f)
           /\ PortOf(f) # <<>> => PortOf(f)[Len(PortOf(f))] = f[Len(f)]
<1> DEFINE colons == {n \in 1..Len(f) : f[n] = ":"}
           c == LastColon(f)
<1>1. c = IF colons # {} THEN Max(colons) ELSE 0
  BY DEF LastColon, SelectLastInSeq
<1>2. colons # {} => Max(colons) \in colons
  <2>1. colons \in SUBSET (1..Len(f)) /\ 1 \in Nat /\ Len(f) \in Nat
    OBVIOUS
  <2> HIDE DEF colons
  <2> QED BY <2>1, Extremes
<1>3. c \in 0..Len(f) /\ (c > 0 => f[c] = ":")
  BY <1>1, <1>2
<1> HIDE DEF c
<1>4. HostOf(f) \in Seq(Item)
  <2>1. CASE c = 0
    BY <2>1, SubSeqEmpty DEF HostOf, c
  <2>2. CASE c # 0
    <3>1. 1 \in 1..(Len(f) + 1) /\ c - 1 \in 0..Len(f)
      BY <1>3, <2>2
    <3> QED BY <3>1, PieceOfText DEF HostOf, c
  <2> QED BY <2>1, <2>2
<1> DEFINE p == SubSeq(f, c + 1, Len(f))
<1>5. c + 1 \in 1..(Len(f) + 1) /\ Len(f) \in 0..Len(f)
  BY <1>3
<1>6. /\ p \in Seq(Item) /\ Len(p) = IF c + 1 <= Len(f) THEN Len(f) - (c + 1) + 1 ELSE 0
      /\ \A k \in 1..(Len(f) - (c + 1) + 1) : p[k] = f[c + 1 + k - 1]
  BY <1>5, PieceOfText
<1>7. PortOf(f) = p
  BY DEF PortOf, c
<1> HIDE DEF p
<1>8. Len(p) = Len(f) - c
  BY <1>3, <1>6
<1>9. p # <<>> => p[Len(p)] = f[Len(f)]
  <2>1. SUFFICES ASSUME p # <<>> PROVE p[Len(p)] = f[Len(f)]
    OBVIOUS
  <2>2. Len(p) \in 1..(Len(f) - (c + 1) + 1) /\ c + 1 + Len(p) - 1 = Len(f)
    <3>1. Len(p) \in Nat \ {0}
      BY <1>6, <2>1, EmptySeq
    <3> QED BY <1>3, <1>8, <3>1
  <2> QED BY <1>6, <2>2
<1> QED BY <1>3, <1>4, <1>6, <1>7, <1>8, <1>9 DEF c

\* No form of a port is lost: what is behind the last colon is the last word.
PortGiven(f) == IF f # <<>> /\ IsPort(<<Last(f)>>) THEN Number(<<Last(f)>>) ELSE 0

LEMMA PortIsGiven ==
    ASSUME NEW f \in Seq(Item), IsPort(PortOf(f))
    PROVE  Number(PortOf(f)) = PortGiven(f) /\ PortGiven(f) \in {0, 1, 1080}
<1> DEFINE p == PortOf(f)
           c == LastColon(f)
<1>1. /\ c \in 0..Len(f) /\ (c > 0 => f[c] = ":")
      /\ p \in Seq(Item) /\ Len(p) = Len(f) - c
      /\ p # <<>> => p[Len(p)] = f[Len(f)]
  BY PartsOfFlag
<1>2. Last(f) = f[Len(f)]
  BY DEF Last
<1>3. CASE p = <<>>
  <2>1. Number(p) = 0 /\ c = Len(f)
    BY <1>1, <1>3 DEF Number
  <2>2. f = <<>> \/ f[Len(f)] = ":"
    BY <1>1, <2>1, EmptySeq
  <2>3. ~IsPort(<<":">>)
    BY DEF IsPort, Numbers
  <2>4. PortGiven(f) = 0
    BY <1>2, <2>2, <2>3 DEF PortGiven
  <2> QED BY <2>1, <2>4
<1>4. CASE p # <<>>
  <2>1. Len(p) = 1 /\ p[1] \in {"n0", "n1", "n1080"}
    BY <1>4 DEF IsPort, Numbers
  <2>2. p[1] = Last(f) /\ f # <<>>
    <3>1. p[1] = f[Len(f)]
      BY <1>1, <1>4, <2>1
    <3>2. Len(f) # 0
      BY <1>1, <2>1
    <3>3. Len(<<>>) = 0
      BY EmptySeq
    <3> QED BY <1>2, <3>1, <3>2, <3>3
  <2>3. p = <<Last(f)>>
    BY <1>1, <2>1, <2>2, LoneWord
  <2>4. Number(p) = PortGiven(f)
    BY <1>4, <2>2, <2>3 DEF PortGiven
  <2>5. Number(p) \in {0, 1, 1080}
    BY <1>4, <2>1 DEF Number, Numbers
  <2> QED BY <2>4, <2>5
<1> QED BY <1>3, <1>4

\* join_host_port and Go agree on the hosts Go takes.
LEMMA StripIsInner ==
    ASSUME NEW h \in Seq(Item), WellFormed(h)
    PROVE  Strip(h) = Inner(h) /\ ~Stray(Inner(h))
<1> DEFINE first == {n \in DOMAIN h : h[n] # "["}
           last == {n \in DOMAIN h : h[n] # "]"}
<1>1. DOMAIN h = 1..Len(h) /\ Len(h) \in Nat /\ 1 \in Nat
  OBVIOUS
<1>2. ~Stray(Inner(h))
  BY DEF WellFormed, Stray, Signs, Brackets
<1>3. CASE Bracketed(h)
  <2>1. h[1] = "[" /\ h[Len(h)] = "]" /\ Len(h) >= 1
    BY <1>3, EmptySeq DEF Bracketed, Last
  <2>2. Len(h) >= 2
    BY <1>1, <2>1
  <2>3. Inner(h) = SubSeq(h, 2, Len(h) - 1)
    BY <1>3 DEF Inner
  <2>4. ASSUME NEW n \in 2..(Len(h) - 1) PROVE h[n] \notin Brackets
    <3>1. 2 \in 1..(Len(h) + 1) /\ Len(h) - 1 \in 0..Len(h)
      BY <1>1, <2>2
    <3>2. /\ Inner(h) \in Seq(Item) /\ Len(Inner(h)) = IF 2 <= Len(h) - 1 THEN (Len(h) - 1) - 2 + 1 ELSE 0
          /\ \A k \in 1..((Len(h) - 1) - 2 + 1) : Inner(h)[k] = h[2 + k - 1]
      BY <2>3, <3>1, PieceOfText
    <3>3. Len(Inner(h)) = (Len(h) - 1) - 2 + 1
      <4>1. 2 <= Len(h) - 1
        BY <1>1
      <4> QED BY <3>2, <4>1
    <3>4. n - 1 \in 1..Len(Inner(h)) /\ n - 1 \in 1..((Len(h) - 1) - 2 + 1) /\ 2 + (n - 1) - 1 = n
      BY <1>1, <2>4, <3>3
    <3>5. h[n] = Inner(h)[n - 1] /\ n - 1 \in DOMAIN Inner(h)
      BY <3>2, <3>4
    <3>6. h[n] \in Range(Inner(h))
      BY <3>5 DEF Range
    <3> QED BY <1>2, <3>6 DEF Stray
  <2>5. 2 \in first /\ \A n \in first : 2 <= n
    BY <1>1, <2>1, <2>2, <2>4 DEF Brackets
  <2>6. Len(h) - 1 \in last /\ \A n \in last : n <= Len(h) - 1
    BY <1>1, <2>1, <2>2, <2>4 DEF Brackets
  <2>7. first \in SUBSET (1..Len(h)) /\ last \in SUBSET (1..Len(h)) /\ first # {} /\ last # {}
    BY <2>5, <2>6
  <2>8. Min(first) \in first /\ Min(first) <= 2 /\ Max(last) \in last /\ Len(h) - 1 <= Max(last)
    BY <1>1, <2>5, <2>6, <2>7, Extremes
  <2>9. Min(first) = 2 /\ Max(last) = Len(h) - 1
    BY <1>1, <2>5, <2>6, <2>8
  <2> QED BY <1>2, <2>3, <2>7, <2>9 DEF Strip
<1>4. CASE ~Bracketed(h)
  <2>1. Inner(h) = h
    BY <1>4 DEF Inner
  <2>2. \A n \in DOMAIN h : h[n] \notin Brackets
    BY <1>2, <2>1 DEF Stray, Range
  <2>3. first = 1..Len(h) /\ last = 1..Len(h)
    BY <1>1, <2>2 DEF Brackets
  <2>4. CASE h = <<>>
    <3>1. first = {}
      BY <2>3, <2>4
    <3> QED BY <1>2, <2>1, <2>4, <3>1 DEF Strip
  <2>5. CASE h # <<>>
    <3>1. Len(h) >= 1
      BY <2>5, EmptySeq
    <3>2. first \in SUBSET (1..Len(h)) /\ last \in SUBSET (1..Len(h)) /\ 1 \in first /\ Len(h) \in last
      BY <2>3, <3>1
    <3>3. Min(first) \in first /\ Min(first) <= 1 /\ Max(last) \in last /\ Len(h) <= Max(last)
      BY <1>1, <3>2, Extremes
    <3>4. Min(first) = 1 /\ Max(last) = Len(h)
      BY <1>1, <2>3, <3>3
    <3>5. Strip(h) = SubSeq(h, 1, Len(h))
      BY <3>2, <3>4 DEF Strip
    <3>6. SubSeq(h, 1, Len(h)) = h
      <4> DEFINE s == SubSeq(h, 1, Len(h))
      <4>1. 1 \in 1..(Len(h) + 1) /\ Len(h) \in 0..Len(h)
        BY <1>1
      <4>2. s \in Seq(Item) /\ Len(s) = Len(h) - 1 + 1 /\ \A k \in 1..(Len(h) - 1 + 1) : s[k] = h[1 + k - 1]
        BY <3>1, <4>1, PieceOfText
      <4> HIDE DEF s
      <4>3. Len(s) = Len(h) /\ \A k \in 1..Len(s) : s[k] = h[k]
        BY <1>1, <4>2
      <4>4. s = h
        BY <4>2, <4>3, SeqEqual
      <4> QED BY <4>4 DEF s
    <3> QED BY <1>2, <2>1, <3>5, <3>6
  <2> QED BY <2>4, <2>5
<1> QED BY <1>3, <1>4

LEMMA PlainHost ==
    ASSUME NEW h \in Seq(Item), Range(h) \cap Signs = {}
    PROVE  WellFormed(h) /\ Inner(h) = h /\ ~Stray(h)
<1>1. ~Bracketed(h)
  <2>1. SUFFICES ASSUME h # <<>>, h[1] = "[" PROVE FALSE
    BY DEF Bracketed
  <2>2. 1 \in DOMAIN h
    BY <2>1, EmptySeq
  <2>3. "[" \in Range(h)
    BY <2>1, <2>2 DEF Range
  <2> QED BY <2>3 DEF Signs, Brackets
<1> QED BY <1>1 DEF WellFormed, Inner, Stray, Signs, Brackets

\* Whatever number is drawn, the port is high.
LEMMA HighPortIsHigh == ASSUME NEW r \in Nat PROVE High(HighPort(r))
<1> DEFINE x == r % 41000
<1>2. x \in Int /\ 0 <= x /\ x < 41000
  OBVIOUS
<1> HIDE DEF x
<1>3. \A z \in Int : z = 65536 => (20000 + x) % z = 20000 + x
  BY <1>2
<1>4. 2^16 = 65536 /\ 2^16 \in Int
  OBVIOUS
<1>5. (20000 + x) % 2^16 = 20000 + x
  BY ONLY <1>3, <1>4
<1>6. HighPort(r) = 20000 + x
  BY ONLY <1>5 DEF HighPort, x
<1> QED BY <1>2, <1>6 DEF High

-----------------------------------------------------------------------------
(* The inductive invariant: what is known of each answer is which text and *)
(* which flag it was made of.                                              *)

Parsed == maps = [i \in Impls |-> Parse(i, text)]

Forwarded ==
    wires # None =>
        client \in Addresses /\ wires = [i \in Impls |-> Forward(i, client)]

Resolved ==
    upstream # None =>
        /\ flag \in Flags /\ held \in SUBSET Ports
        /\ \A i \in Impls : upstream[i] \in Resolve(i, flag, held)

IInv == text \in Seq(Item) /\ Parsed /\ Forwarded /\ Resolved

LEMMA EmptyText == ASSUME NEW i \in Impls PROVE Parse(i, <<>>) = <<>>
<1>1. Len(<<>>) = 0 /\ 1..0 = {}
  BY EmptySeq
<1>2. Lines(i, <<>>) = {}
  BY <1>1 DEF Lines, Split
<1>3. UNION {Domains(i, <<>>, l) : l \in Lines(i, <<>>)} = {}
  BY <1>2
<1> QED BY <1>3 DEF Parse

LEMMA TextsAreItems == Flags \cup FirstLines \cup MoreLines \cup Addresses \subseteq Seq(Item)
<1>1. Seq(STRING) \subseteq Seq(Item)
  BY DEF Item
<1> QED BY <1>1, TextsAssumption

LEMMA InitHolds == Init => IInv
<1> SUFFICES ASSUME Init PROVE IInv
  OBVIOUS
<1>1. text = <<>> /\ maps = [i \in Impls |-> <<>>] /\ wires = None /\ upstream = None
  BY DEF Init
<1>2. text \in Seq(Item)
  BY <1>1, EmptySeq
<1>3. Parsed
  BY <1>1, EmptyText DEF Parsed
<1> QED BY <1>1, <1>2, <1>3 DEF IInv, Forwarded, Resolved

LEMMA NextPreserves == IInv /\ [Next]_vars => IInv'
<1> SUFFICES ASSUME IInv, [Next]_vars PROVE IInv'
  OBVIOUS
<1>1. ASSUME NEW f \in Flags, Start(f) PROVE IInv'
  <2>1. UNCHANGED <<text, client, maps, wires>>
    BY <1>1 DEF Start
  <2>2. Forwarded'
    BY <2>1 DEF IInv, Forwarded, Forward
  <2>3. Resolved'
    BY <1>1 DEF Start, Resolved
  <2> QED BY <2>1, <2>2, <2>3 DEF IInv, Parsed
<1>2. ASSUME NEW line \in FirstLines \cup MoreLines, Load(line) PROVE IInv'
  <2>1. /\ text' = text \o line /\ maps' = [i \in Impls |-> Parse(i, text')]
        /\ wires' = None /\ UNCHANGED <<flag, upstream, held>>
    BY <1>2 DEF Load
  <2>2. text' \in Seq(Item)
    BY <2>1, TextsAreItems, ConcatProperties DEF IInv
  <2> QED BY <2>1, <2>2 DEF IInv, Parsed, Forwarded, Resolved
<1>3. ASSUME NEW address \in Addresses, Connect(address) PROVE IInv'
  <2>1. /\ client' = address /\ wires' = [i \in Impls |-> Forward(i, address)]
        /\ UNCHANGED <<flag, upstream, held, text, maps>>
    BY <1>3 DEF Connect
  <2>2. \A i \in Impls : Forward(i, address) = Forward(i, address)'
    BY <2>1 DEF Forward
  <2>3. Forwarded'
    BY <2>1, <2>2 DEF Forwarded
  <2> QED BY <2>1, <2>3 DEF IInv, Parsed, Resolved
<1>4. CASE UNCHANGED vars
  <2>1. UNCHANGED <<text, maps, client, wires, flag, upstream, held>>
    BY <1>4 DEF vars
  <2>2. Forwarded'
    BY <2>1 DEF IInv, Forwarded, Forward
  <2> QED BY <2>1, <2>2 DEF IInv, Parsed, Resolved
<1> QED BY <1>1, <1>2, <1>3, <1>4 DEF Next

\* What the answers are made of: maps of the text, requests of the maps, and
\* upstreams of the flag.
THEOREM Invariant == Spec => []IInv
<1>1. Init => IInv
  BY InitHolds
<1>2. IInv /\ [Next]_vars => IInv'
  BY NextPreserves
<1> QED BY <1>1, <1>2, PTL DEF Spec

-----------------------------------------------------------------------------
(* The properties of Names.                                                *)

\* Whatever the lines of dns.txt are, a documented file has the meaning of
\* README.md:28-42 to LoadDNSFile, parse_dns and load_dns_map.
THEOREM ParsersAgreeWithReadme == Spec => []ParsesAsDocumented
<1>1. IInv => ParsesAsDocumented
  BY ParseIsMeaning DEF IInv, Parsed, ParsesAsDocumented
<1> QED BY <1>1, Invariant, PTL

LEMMA TextOfClient ==
    ASSUME IInv, Asks
    PROVE  client \in Seq(Item) /\ wires = [i \in Impls |-> Forward(i, client)]
BY TextsAreItems DEF IInv, Asks, Forwarded

\* The three request the same of the upstream, but for what AskAlike names.
THEOREM RequestsAgree == Spec => []AskAlike
<1>1. IInv => AskAlike
  <2> DEFINE target == RewriteHost("go", client, maps["go"])
             lone == \E n \in DOMAIN text : text[n] = "cr" /\ ~LineEnd(text, n)
  <2>1. SUFFICES ASSUME IInv, Asks, Ascii(client), client # <<Mapped>>, target # <<Mapped>>
                 PROVE  /\ Range(text) \cap {"ff", "nbsp", "UMLAUT"} = {} /\ ~lone /\ Length(target) <= 255
                             => wires["go"] = wires["rust"]
                        /\ ~lone /\ Ascii(target) /\ target # <<ShortIp4>>
                             => wires["go"] = wires["python"]
    BY DEF AskAlike
  <2>2. text \in Seq(Item) /\ client \in Seq(Item) /\ lone = ~NoLoneReturn(text)
    BY <2>1, TextOfClient DEF IInv, NoLoneReturn
  <2>3. ASSUME NEW i \in Impls
        PROVE  wires[i] = Encode(i, RewriteHost(i, client, Parse(i, text)))
    <3>1. wires[i] = Forward(i, client) /\ maps[i] = Parse(i, text)
      BY <2>1, TextOfClient DEF IInv, Parsed
    <3> QED BY <2>1, <3>1 DEF Forward, Drops, ReadHost
  <2>4. target = RewriteHost("go", client, Parse("go", text)) /\ target \in Seq(Item)
    BY <2>1, <2>2, TargetIsText DEF IInv, Parsed, Impls
  <2>5. \A i \in Impls : Lower(i, client) = Lower("go", client)
    <3>1. \A n \in DOMAIN client : client[n] # "UMLAUT"
      BY <2>1 DEF Ascii, NotAscii, Range
    <3>2. ASSUME NEW i \in Impls
          PROVE  \A n \in DOMAIN client :
                   (IF client[n] \in DOMAIN LowerCases[i] THEN LowerCases[i][client[n]] ELSE client[n])
                     = IF client[n] = "NAME" THEN "name" ELSE client[n]
      BY <3>1 DEF Impls, LowerCases, UnicodeLower, AsciiLower
    <3> QED BY <3>2 DEF Lower, Impls
  <2>6. ASSUME NEW i \in Impls, Parse("go", text) = Parse(i, text)
        PROVE  wires[i] = Encode(i, target)
    <3>1. RewriteHost(i, client, Parse(i, text)) = target
      BY <2>4, <2>5, <2>6, Zenon DEF RewriteHost
    <3> QED BY <2>3, <3>1
  <2> HIDE DEF target, lone
  <2>7. wires["go"] = Encode("go", target)
    BY <2>6 DEF Impls
  <2>8. ASSUME Range(text) \cap {"ff", "nbsp", "UMLAUT"} = {}, ~lone, Length(target) <= 255
        PROVE  wires["go"] = wires["rust"]
    <3>1. wires["rust"] = Encode("rust", target)
      BY <2>2, <2>6, <2>8, RustParsesLikeGo DEF Impls
    <3> QED BY <2>1, <2>4, <2>7, <2>8, <3>1, EncodeAlike
  <2>9. ASSUME ~lone, Ascii(target), target # <<ShortIp4>>
        PROVE  wires["go"] = wires["python"]
    <3>1. wires["python"] = Encode("python", target)
      BY <2>2, <2>6, <2>9, PythonParsesLikeGo DEF Impls
    <3> QED BY <2>1, <2>4, <2>7, <2>9, <3>1, EncodeAlike
  <2> QED BY <2>8, <2>9
<1> QED BY <1>1, Invariant, PTL

\* No word outside ASCII is a domain of a documented text.
LEMMA MeaningIsAscii ==
    ASSUME NEW t \in Seq(Item), Documented(t), NEW h \in Seq(Item), ~Ascii(h)
    PROVE  Lower("go", h) \notin DOMAIN MeaningOf(t)
<1>1. SUFFICES ASSUME Lower("go", h) \in DOMAIN MeaningOf(t) PROVE FALSE
  OBVIOUS
<1>2. PICK w \in Range(t) : Lower("go", h) = Lower("go", <<w>>)
  BY <1>1 DEF MeaningOf
<1>3. PICK m \in DOMAIN t : w = t[m]
  BY <1>2 DEF Range
<1>4. w \notin {"nbsp", "umlaut", "UMLAUT"}
  BY ONLY <1>3, Documented(t), Zenon DEF Documented
<1>5. /\ LowerCases["go"] = UnicodeLower /\ DOMAIN UnicodeLower = {"NAME", "UMLAUT"}
      /\ UnicodeLower["NAME"] = "name" /\ UnicodeLower["UMLAUT"] = "umlaut"
  BY DEF LowerCases, UnicodeLower
<1>6. DOMAIN Lower("go", h) = DOMAIN h /\ DOMAIN Lower("go", <<w>>) = 1..1
  BY DEF Lower
<1>7. DOMAIN h = 1..1 /\ Lower("go", h)[1] = Lower("go", <<w>>)[1]
  BY <1>2, <1>6
<1>8. Lower("go", <<w>>)[1] \notin NotAscii
  BY <1>4, <1>5 DEF Lower, NotAscii
<1>9. PICK n \in DOMAIN h : h[n] \in NotAscii
  BY DEF Ascii, Range
<1>10. n = 1
  BY <1>7
<1>11. Lower("go", h)[1] \in NotAscii
  BY <1>5, <1>7, <1>9, <1>10 DEF Lower, NotAscii
<1> QED BY <1>7, <1>8, <1>11

\* Every request names what the file says, and what cannot be named is not asked
\* for; the over-long tokens of Rust excepted.
THEOREM RequestsNameTheTarget == Spec => []NoWrongDestination
<1>1. IInv => NoWrongDestination
  <2>1. SUFFICES ASSUME IInv, Asks, Documented(text), NEW i \in Impls
        PROVE  LET host == IF i = "go" THEN Unmapped(client) ELSE client
                   target == RewriteHost(i, host, MeaningOf(text))
                   tooLong == Length(target) > 255
               IN  ~(i = "rust" /\ tooLong) =>
                       IF tooLong \/ (i = "python" /\ ~Ascii(target))
                       THEN wires[i] = Refused
                       ELSE /\ wires[i] # Refused /\ Whole(wires[i])
                            /\ Unmapped(wires[i].address) = AsRead(i, target)
    BY DEF NoWrongDestination
  <2> DEFINE host == IF i = "go" THEN Unmapped(client) ELSE client
             target == RewriteHost(i, host, MeaningOf(text))
  <2>2. text \in Seq(Item) /\ client \in Seq(Item) /\ wires[i] = Forward(i, client)
    BY <2>1, TextOfClient DEF IInv
  <2>3. MeaningOf(text) = Parse(i, text) /\ maps[i] = Parse(i, text)
    BY <2>1, ParseIsMeaning DEF IInv, Parsed
  <2>4. host \in Seq(Item) /\ host = ReadHost(i, client)
    <3>1. Ip4 \in Item
      BY DEF Item
    <3>2. <<Ip4>> \in Seq(Item)
      BY <3>1
    <3> QED BY <2>2, <3>2 DEF Unmapped, ReadHost
  <2> HIDE DEF host
  <2>5. target \in Seq(Item)
    BY <2>2, <2>3, <2>4, TargetIsText
  <2>6. CASE Drops(i, client)
    <3>1. i = "python" /\ ~Ascii(client) /\ host = client
      BY <2>6, <2>4 DEF Drops, ReadHost
    <3>2. Lower(i, host) \notin DOMAIN MeaningOf(text)
      <4>1. Lower("python", client) = Lower("go", client)
        BY DEF Lower, LowerCases
      <4> QED BY <2>1, <2>2, <3>1, <4>1, MeaningIsAscii
    <3>3. target = client
      BY <3>1, <3>2 DEF RewriteHost
    <3>4. wires[i] = Refused
      BY <2>2, <2>6 DEF Forward
    <3> HIDE DEF target
    <3> QED BY <3>1, <3>3, <3>4 DEF target, host
  <2>7. CASE ~Drops(i, client)
    <3>1. wires[i] = Encode(i, target)
      BY <2>2, <2>3, <2>4, <2>7 DEF Forward
    <3> HIDE DEF target
    <3>2. ASSUME ~(i = "rust" /\ Length(target) > 255)
          PROVE  IF Length(target) > 255 \/ (i = "python" /\ ~Ascii(target))
                 THEN wires[i] = Refused
                 ELSE /\ wires[i] # Refused /\ Whole(wires[i])
                      /\ Unmapped(wires[i].address) = AsRead(i, target)
      <4>1. i = "rust" => Length(target) <= 255
        BY <2>5, <3>2, LengthIsNatural
      <4>2. wires[i] = Refused <=> Length(target) > 255 \/ (i = "python" /\ ~Ascii(target))
        BY <2>5, <3>1, <4>1, EncodeRefuses
      <4>3. wires[i] # Refused =>
              Whole(wires[i]) /\ Unmapped(wires[i].address) = AsRead(i, target)
        BY <2>5, <3>1, <4>1, EncodeNames
      <4> QED BY <4>2, <4>3
    <3> QED BY <3>2 DEF target, host
  <2> QED BY <2>6, <2>7
<1> QED BY <1>1, Invariant, PTL

-----------------------------------------------------------------------------

LEMMA PickedPorts ==
    ASSUME NEW i \in Impls, NEW h, NEW taken \in SUBSET Ports, NEW p \in PickPort(i, h, taken)
    PROVE  High(p) /\ p \notin taken
<1>1. High(OsPort) /\ OsPort \notin taken
  BY PortsAssumption DEF OsPort, High
<1>2. p = OsPort \/ p \in FreeHighPort(taken)
  BY DEF PickPort, Impls
<1>3. p \in FreeHighPort(taken) => p = OsPort \/ \E r \in Draws : p = HighPort(r) /\ p \notin taken
  BY Zenon DEF FreeHighPort
<1>4. \A r \in Draws : High(HighPort(r))
  BY DrawsAssumption, HighPortIsHigh
<1> QED BY <1>1, <1>2, <1>3, <1>4, Zenon

\* What the child is told is what the proxy dials, for every flag: the child of
\* Go always, that of Rust where Go would take the host, that of Python where
\* the host has no colons and no brackets; and the port is given, or free and high.
THEOREM ChildIsDialed == Spec => []UpstreamIsReached
<1>1. IInv => UpstreamIsReached
  <2>1. SUFFICES ASSUME IInv, upstream # None, NEW i \in Impls, upstream[i].ok,
                        i = "rust" => WellFormed(ParseAddr(flag).host),
                        i = "python" => Range(ParseAddr(flag).host) \cap Signs = {}
        PROVE  /\ upstream[i].told = upstream[i].dialed
               /\ IF PortGiven(flag) > 0 THEN upstream[i].told.port = PortGiven(flag)
                  ELSE High(upstream[i].told.port) /\ upstream[i].told.port \notin held
    BY Zenon DEF UpstreamIsReached, PortGiven
  <2>2. flag \in Seq(Item) /\ held \in SUBSET Ports /\ upstream[i] \in Resolve(i, flag, held)
    BY <2>1, TextsAreItems DEF IInv, Resolved
  <2> DEFINE parsed == IF i = "go" THEN SplitHostPort(flag) ELSE ParseAddr(flag)
             ports == IF parsed.port = 0 THEN PickPort(i, parsed.host, held) ELSE {parsed.port}
  <2>3. /\ parsed # Bad
        /\ \E p \in ports : /\ upstream[i].told = Told(i, [parsed EXCEPT !.port = p])
                            /\ upstream[i].dialed = Dialed(i, [parsed EXCEPT !.port = p])
    <3> DEFINE none == [told |-> Bad, dialed |-> Bad, ok |-> FALSE]
               of(p) == [told |-> Told(i, [parsed EXCEPT !.port = p]),
                         dialed |-> Dialed(i, [parsed EXCEPT !.port = p]), ok |-> TRUE]
    <3>1. upstream[i] \in IF parsed = Bad \/ ports = {} THEN {none} ELSE {of(p) : p \in ports}
      BY <2>2, Zenon DEF Resolve
    <3> HIDE DEF parsed, ports
    <3>2. upstream[i] # none
      BY <2>1
    <3> HIDE DEF none
    <3>3. parsed # Bad /\ upstream[i] \in {of(p) : p \in ports}
      BY <3>1, <3>2
    <3>4. PICK p \in ports : upstream[i] = of(p)
      BY <3>3
    <3>5. /\ upstream[i].told = Told(i, [parsed EXCEPT !.port = p])
          /\ upstream[i].dialed = Dialed(i, [parsed EXCEPT !.port = p])
      BY <3>4
    <3> QED BY <3>3, <3>5
  <2>4. PICK p \in ports : /\ upstream[i].told = Told(i, [parsed EXCEPT !.port = p])
                           /\ upstream[i].dialed = Dialed(i, [parsed EXCEPT !.port = p])
    BY <2>3
  <2>5. HostOf(flag) \in Seq(Item) /\ Loopback \in Seq(Item)
    <3>1. "127.0.0.1" \in Item
      BY DEF Item, Loopback, Range
    <3> QED BY <2>2, <3>1, PartsOfFlag DEF Loopback
  <2>6. /\ parsed = [host |-> parsed.host, port |-> Number(PortOf(flag))]
        /\ IsPort(PortOf(flag))
        /\ i # "go" => parsed.host \in Seq(Item)
    BY <2>3, <2>5, Z3 DEF SplitHostPort, ParseAddr
  <2>7. parsed.port = PortGiven(flag) /\ PortGiven(flag) \in {0, 1, 1080}
    BY <2>2, <2>6, PortIsGiven
  <2>8. IF PortGiven(flag) > 0 THEN p = PortGiven(flag) ELSE High(p) /\ p \notin held
    <3>1. CASE PortGiven(flag) = 0
      <4>1. p \in PickPort(i, parsed.host, held)
        BY <2>4, <2>7, <3>1
      <4> QED BY <2>2, <3>1, <4>1, PickedPorts
    <3>2. CASE PortGiven(flag) # 0
      <4>1. p = parsed.port
        BY <2>4, <2>7, <3>2
      <4> QED BY <2>7, <3>2, <4>1
    <3> QED BY <3>1, <3>2
  <2>9. i # "go" => parsed = ParseAddr(flag)
    OBVIOUS
  <2> HIDE DEF parsed, ports
  <2> DEFINE addr == [parsed EXCEPT !.port = p]
  <2>10. addr = [host |-> parsed.host, port |-> p]
    BY <2>6
  <2> HIDE DEF addr
  <2>11. Told(i, addr) = Dialed(i, addr) /\ Told(i, addr).port = p
    <3>1. CASE i = "go"
      BY <2>10, <3>1 DEF Told, Dialed
    <3>2. CASE i = "rust"
      <4>1. WellFormed(parsed.host) /\ parsed.host \in Seq(Item)
        BY <2>1, <2>6, <2>9, <3>2
      <4>2. Strip(parsed.host) = Inner(parsed.host) /\ ~Stray(Inner(parsed.host))
        BY <4>1, StripIsInner
      <4> QED BY <2>10, <3>2, <4>1, <4>2 DEF Told, Dialed
    <3>3. CASE i = "python"
      <4>1. WellFormed(parsed.host) /\ Inner(parsed.host) = parsed.host /\ ~Stray(parsed.host)
        BY <2>1, <2>6, <2>9, <3>3, PlainHost
      <4> QED BY <2>10, <3>3, <4>1 DEF Told, Dialed
    <3> QED BY <3>1, <3>2, <3>3 DEF Impls
  <2> QED BY <2>4, <2>8, <2>11 DEF addr
<1> QED BY <1>1, Invariant, PTL

=============================================================================
