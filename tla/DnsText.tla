------------------------------ MODULE DnsText ------------------------------
(***************************************************************************)
(* The text of dns.txt and the three parsers that make a mapping of it:    *)
(* LoadDNSFile (go/dnsmap.go), parse_dns (rust/src/dnsmap.rs) and          *)
(* load_dns_map (python/tailcat_socks.py).  A text is a sequence of words  *)
(* and of the characters between them; a field is the sequence of items a  *)
(* parser takes for one, a single word unless it misses a separator.       *)
(***************************************************************************)
EXTENDS Sequences, Integers, FiniteSetsExt, Functions

Impls == {"go", "rust", "python"}

\* Space, tab, form feed and carriage return, and the no-break space, which is
\* blank to Go and Python only.
AsciiBlank == {"sp", "tab", "ff", "cr"}
Blank == AsciiBlank \cup {"nbsp"}

LineEnds == [go |-> {"lf"}, rust |-> {"lf"}, python |-> {"lf", "cr"}]
Trimmed == [go |-> Blank, rust |-> AsciiBlank, python |-> Blank]
Separators == [go |-> Blank, rust |-> {"sp", "tab"}, python |-> Blank]

\* A name and one with letters outside ASCII, each in two cases.
AsciiLower == [NAME |-> "name"]
UnicodeLower == [NAME |-> "name", UMLAUT |-> "umlaut"]

\* Faulty variant: Rust keeps the case.
LowerCasesNone == [go |-> UnicodeLower, rust |-> <<>>, python |-> UnicodeLower]

LowerCases == [go |-> UnicodeLower, rust |-> AsciiLower, python |-> UnicodeLower]

Lower(i, field) ==
    [n \in DOMAIN field |->
        IF field[n] \in DOMAIN LowerCases[i] THEN LowerCases[i][field[n]] ELSE field[n]]

\* A stretch <<m, n>> of a text is its places m..n.  The longest stretches
\* within another one that have no member of seps: what a split returns, without
\* its empty pieces.
Split(text, within, seps) ==
    {s \in (within[1]..within[2]) \X (within[1]..within[2]) :
        /\ s[1] <= s[2] /\ \A k \in s[1]..s[2] : text[k] \notin seps
        /\ s[1] = within[1] \/ text[s[1] - 1] \in seps
        /\ s[2] = within[2] \/ text[s[2] + 1] \in seps}

Piece(text, s) == SubSeq(text, s[1], s[2])
Kept(text, s, blanks) == {k \in s[1]..s[2] : text[k] \notin blanks}
Trim(text, s, blanks) == <<Min(Kept(text, s, blanks)), Max(Kept(text, s, blanks))>>

\* The lines that say something: trimmed, neither blank nor comments.
Lines(i, text) ==
    LET Raw == Split(text, <<1, Len(text)>>, LineEnds[i])
        Full == {Trim(text, r, Trimmed[i]) : r \in {r \in Raw : Kept(text, r, Trimmed[i]) # {}}}
    IN  {line \in Full : text[line[1]] # "#"}

\* The first field is the token, the others are its domains.
Fields(i, text, line) == Split(text, line, Separators[i])
Token(i, text, line) ==
    Piece(text, CHOOSE f \in Fields(i, text, line) : f[1] = line[1])
Domains(i, text, line) ==
    {Lower(i, Piece(text, f)) : f \in {f \in Fields(i, text, line) : f[1] # line[1]}}

Naming(i, text, d) == {line \in Lines(i, text) : d \in Domains(i, text, line)}

\* Faulty variant: the first line that names a domain wins.
WinnerFirst(lines) == CHOOSE l \in lines : \A k \in lines : l[1] <= k[1]

\* What a line stores overrides what earlier lines stored.
Winner(lines) == CHOOSE l \in lines : \A k \in lines : k[1] <= l[1]

Parse(i, text) ==
    [d \in UNION {Domains(i, text, line) : line \in Lines(i, text)} |->
        Token(i, text, Winner(Naming(i, text, d)))]

\* Faulty variant: the token is lower-cased with the domain.
RewriteLower(i, host, map) ==
    LET key == Lower(i, host) IN IF key \in DOMAIN map THEN Lower(i, map[key]) ELSE host

RewriteHost(i, host, map) ==
    LET key == Lower(i, host) IN IF key \in DOMAIN map THEN map[key] ELSE host

-----------------------------------------------------------------------------
(* What README.md:28-42 says of the file, without splits, trims or fields: *)
(* in terms of the places of its words.                                    *)

Words(text) == {n \in DOMAIN text : text[n] \notin Blank \cup {"lf"}}
SameLine(text, m, n) == \A k \in m..n : text[k] # "lf"
FirstOfLine(text, n) == Min({m \in Words(text) : m <= n /\ SameLine(text, m, n)})

\* ASCII words and #, lines that end in LF or CR LF, spaces and tabs between the
\* words (in a comment they may be missing, as in #word).
LineEnd(text, n) == n < Len(text) /\ text[n+1] = "lf"

Documented(text) ==
    \A n \in DOMAIN text :
        /\ text[n] \notin {"ff", "nbsp", "umlaut", "UMLAUT"}
        /\ text[n] = "cr" => LineEnd(text, n)
        /\ {n, n + 1} \subseteq Words(text) => text[FirstOfLine(text, n)] = "#"

\* The places where a line that is no comment names the domain.
Named(text, domain) ==
    {n \in Words(text) :
        /\ Lower("go", <<text[n]>>) = domain
        /\ FirstOfLine(text, n) # n /\ text[FirstOfLine(text, n)] # "#"}

\* The last line that names the domain says what its token is.
MeaningOf(text) ==
    LET domains == {d \in {Lower("go", <<w>>) : w \in Range(text)} : Named(text, d) # {}}
    IN  [d \in domains |-> <<text[FirstOfLine(text, Max(Named(text, d)))]>>]

=============================================================================
