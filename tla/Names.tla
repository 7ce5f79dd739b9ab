------------------------------- MODULE Names -------------------------------
(***************************************************************************)
(* What the three implementations make of the words they are given: the    *)
(* --upstream flag, the lines of dns.txt and the addresses of clients; all *)
(* three side by side, since they are to "behave alike" (README.md:7).     *)
(***************************************************************************)
EXTENDS SocksNames, AddrFlags

CONSTANTS
    Flags,          \* texts of the flag
    Default,        \* the one with which the proxy goes on to serve (a bound)
    Ports,          \* ports other processes may hold
    FirstLines,     \* first lines of dns.txt
    MoreLines,      \* the lines that may follow one
    MaxLines,       \* lines of the file (bounds the model)
    Addresses       \* addresses clients ask for

ASSUME TextsAssumption == Flags \cup FirstLines \cup MoreLines \cup Addresses \subseteq Seq(STRING)
\* What the system assigns is free.
ASSUME PortsAssumption == Ports \subseteq Nat \ {OsPort}

VARIABLES
    flag,       \* the text of the flag
    upstream,   \* what each implementation made of it
    held,       \* ports that were held at the start
    text,       \* dns.txt
    lines,      \* how many lines it has
    maps,       \* the mapping each implementation parsed
    client,     \* the address the last client asked for
    wires       \* the request each implementation encoded for it

vars == <<flag, upstream, held, text, lines, maps, client, wires>>

None == <<>>

Init ==
    /\ flag = <<>> /\ upstream = None /\ held = {}
    /\ text = <<>> /\ lines = 0 /\ maps = [i \in Impls |-> <<>>]
    /\ client = <<>> /\ wires = None

Start(f) ==
    /\ upstream = None
    /\ flag' = f /\ held' \in SUBSET Ports
    /\ upstream' \in [Impls -> UNION {Resolve(i, f, held') : i \in Impls}]
    /\ \A i \in Impls : upstream'[i] \in Resolve(i, f, held')
    /\ UNCHANGED <<text, lines, maps, client, wires>>

\* A line is added and the file loaded; how and when is the matter of HotReload.
Load(line) ==
    /\ flag = Default /\ held = {} /\ lines < MaxLines
    /\ line \in IF lines = 0 THEN FirstLines ELSE MoreLines
    /\ text' = text \o line /\ lines' = lines + 1
    /\ maps' = [i \in Impls |-> Parse(i, text')]
    /\ client' = <<>> /\ wires' = None
    /\ UNCHANGED <<flag, upstream, held>>

\* The request that an implementation makes of a client's address.
Forward(i, address) ==
    IF Drops(i, address) THEN Refused
    ELSE Encode(i, RewriteHost(i, ReadHost(i, address), maps[i]))

Connect(address) ==
    /\ lines > 0
    /\ client' = address
    /\ wires' = [i \in Impls |-> Forward(i, address)]
    /\ UNCHANGED <<flag, upstream, held, text, lines, maps>>

Next ==
    \/ \E f \in Flags : Start(f)
    \/ \E line \in FirstLines \cup MoreLines : Load(line)
    \/ \E address \in Addresses : Connect(address)

Spec == Init /\ [][Next]_vars

-----------------------------------------------------------------------------
(* Properties.                                                             *)

Asks == wires # None
Unmapped(host) == IF host = <<Mapped>> THEN <<Ip4>> ELSE host

\* A file in the documented format means to every implementation what README.md:28-42
\* says: the last line that names a domain, in any case, gives its token, unchanged.
ParsesAsDocumented ==
    Documented(text) => \A i \in Impls : maps[i] = MeaningOf(text)

\* The three ask the upstream the same (README.md:7).  Rust differs from Go by blanks
\* other than space and tab inside a line, by capitals outside ASCII and by tokens
\* that are too long; Python by a carriage return alone, which ends its lines, by
\* tokens not in ASCII and by short IPv4 texts; both by IPv4 addresses inside IPv6;
\* and what clients ask for is ASCII, as host names are (Python drops other clients).
AskAlike ==
    Asks /\ Ascii(client) /\ client # <<Mapped>> =>
        LET target == RewriteHost("go", client, maps["go"])
            loneReturn == \E n \in DOMAIN text : text[n] = "cr" /\ ~LineEnd(text, n)
        IN  target # <<Mapped>> =>
            /\ /\ Range(text) \cap {"ff", "nbsp", "UMLAUT"} = {} /\ ~loneReturn
               /\ Length(target) <= 255
               => wires["go"] = wires["rust"]
            /\ ~loneReturn /\ Ascii(target) /\ target # <<ShortIp4>>
               => wires["go"] = wires["python"]

\* A host as the upstream reads it: an IPv4 address inside IPv6 is that address, and
\* to Python a short text is the address that it stands for (_looks_like_ip).
AsRead(i, host) == IF i = "python" /\ host = <<ShortIp4>> THEN <<Ip4>> ELSE Unmapped(host)

\* "No wrong-destination risk" (go/proxy.go, readATYPAddr): the upstream reads in
\* each request the token that the file gives to the client's host, or else that
\* host; and nothing is asked exactly where that cannot be said: Go and Python
\* refuse what is longer than 255 bytes, and Python what is not ASCII.  Excepted
\* are the requests Rust makes for longer tokens, whose length byte is wrong
\* (ConnOverlong).
NoWrongDestination ==
    Asks /\ Documented(text) =>
        \A i \in Impls :
            LET host == IF i = "go" THEN Unmapped(client) ELSE client
                target == RewriteHost(i, host, MeaningOf(text))
                tooLong == Length(target) > 255
            IN  ~(i = "rust" /\ tooLong) =>
                    IF tooLong \/ (i = "python" /\ ~Ascii(target))
                    THEN wires[i] = Refused
                    ELSE /\ wires[i] # Refused /\ Whole(wires[i])
                         /\ Unmapped(wires[i].address) = AsRead(i, target)

High(port) == port \in Nat /\ 20000 <= port /\ port <= 60999

\* What the child is told to listen on is what the proxy dials, and none of the
\* forms of an explicit port is lost; where none is given, the port was free and
\* high (rust/src/config.rs, free_high_port).  Rust fails with hosts Go would not
\* take, and Python with all that have colons or brackets; both only when they
\* wait for the child.  It is about what is dialed, not about whether a resolver
\* knows it: the empty host of "[]:1080" is told and dialed alike, and Rust fails
\* to resolve it.
UpstreamIsReached ==
    upstream # None => \A i \in Impls : upstream[i].ok =>
        LET host == ParseAddr(flag).host
            given == IF flag # <<>> /\ IsPort(<<Last(flag)>>) THEN Number(<<Last(flag)>>) ELSE 0
            port == upstream[i].told.port
        IN  \/ /\ upstream[i].told = upstream[i].dialed
               /\ IF given > 0 THEN port = given ELSE High(port) /\ port \notin held
            \/ i = "rust" /\ ~WellFormed(host)
            \/ i = "python" /\ Range(host) \cap Signs # {}

=============================================================================
