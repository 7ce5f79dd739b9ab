----------------------------- MODULE AddrFlags -----------------------------
(***************************************************************************)
(* The --upstream flag: how each implementation splits it, picks a port    *)
(* where it says 0, what it tells `tailcat socks' to listen on and what it *)
(* dials itself: upstreamAddr (go/main.go), parse_addr, free_high_port and *)
(* join_host_port (rust/src/config.rs) with run and spawn_socks, and       *)
(* parse_addr and free_high_port (python/tailcat_socks.py) with main.      *)
(* A text is a sequence of words and of the signs : [ and ].               *)
(***************************************************************************)
EXTENDS Sequences, SequencesExt, Integers, FiniteSetsExt, Functions

CONSTANT Draws      \* random numbers the probes may draw

ASSUME DrawsAssumption == Draws \subseteq Nat

Numbers == [n0 |-> 0, n1 |-> 1, n1080 |-> 1080]
Loopback == <<"127.0.0.1">>
Bad == [host |-> <<>>, port |-> 65536]
OsPort == 32768     \* one of the ports the system assigns

Brackets == {"[", "]"}
Signs == {":"} \cup Brackets
Number(text) == IF text = <<>> THEN 0 ELSE Numbers[text[1]]
IsPort(text) == text = <<>> \/ (Len(text) = 1 /\ text[1] \in DOMAIN Numbers)

\* What Go makes of a host: colons in it want brackets around it, and brackets
\* are for nothing else.
Bracketed(host) == host # <<>> /\ Head(host) = "[" /\ Last(host) = "]"
Inner(host) == IF Bracketed(host) THEN SubSeq(host, 2, Len(host) - 1) ELSE host
WellFormed(host) ==
    Range(Inner(host)) \cap (IF Bracketed(host) THEN Brackets ELSE Signs) = {}

\* The text before the last colon, and what is behind it.
LastColon(text) == SelectLastInSeq(text, LAMBDA w : w = ":")
HostOf(text) == SubSeq(text, 1, LastColon(text) - 1)
PortOf(text) == SubSeq(text, LastColon(text) + 1, Len(text))

\* parse_addr of Rust and Python: a text without a colon is a port.
ParseAddr(text) ==
    IF ~IsPort(PortOf(text)) THEN Bad
    ELSE [host |-> IF HostOf(text) = <<>> THEN Loopback ELSE HostOf(text),
          port |-> Number(PortOf(text))]

\* net.SplitHostPort and strconv.Atoi: the port must be there.
SplitHostPort(text) ==
    IF LastColon(text) = 0 \/ PortOf(text) = <<>> \/ ~IsPort(PortOf(text))
         \/ ~WellFormed(HostOf(text))
      THEN Bad
      ELSE [host |-> Inner(HostOf(text)), port |-> Number(PortOf(text))]

\* join_host_port of Rust: brackets are taken off both ends before they are put
\* where they belong; no host has one inside.
Strip(host) ==
    LET first == {n \in DOMAIN host : host[n] # "["}
        last == {n \in DOMAIN host : host[n] # "]"}
    IN  IF first = {} \/ last = {} THEN <<>> ELSE SubSeq(host, Min(first), Max(last))
Stray(host) == Range(host) \cap Brackets # {}

\* Faulty variant: the draw is narrowed to 16 bits and not to the range.
HighPortWide(r) == (20000 + (r % 2^16)) % 2^16

\* 20000 + (r % 41000) as u16, if another socket does not hold it; after 20 of
\* those, or where nothing binds, what the system assigns.
HighPort(r) == (20000 + (r % 41000)) % 2^16
FreeHighPort(held) ==
    ({HighPort(r) : r \in Draws} \ held) \cup (IF held = {} THEN {} ELSE {OsPort})

\* Go asks the system; the sockets Python probes with are for IPv4.
PickPort(i, host, held) ==
    CASE i = "go" -> {OsPort}
      [] i = "rust" /\ Stray(Strip(host)) -> {}
      [] i = "python" /\ Range(host) \cap Signs # {} -> {}
      [] OTHER -> FreeHighPort(held)

\* Where the child, a Go program, listens: it splits the host:port it is told,
\* in Go the address the proxy dials.
Told(i, addr) ==
    IF i = "go" THEN addr
    ELSE IF WellFormed(addr.host) THEN [addr EXCEPT !.host = Inner(@)] ELSE Bad

\* Faulty variant: join_host_port keeps the brackets it finds.
DialedRaw(i, addr) == IF i # "go" /\ Stray(addr.host) THEN Bad ELSE addr

\* What the proxy dials: Python hands the host to create_connection as it is.
Dialed(i, addr) ==
    LET host == IF i = "rust" THEN Strip(addr.host) ELSE addr.host
    IN  IF i # "go" /\ Stray(host) THEN Bad ELSE [addr EXCEPT !.host = host]

\* What may come of the flag: told, dialed, or Bad and an exit.
Resolve(i, text, held) ==
    LET parsed == IF i = "go" THEN SplitHostPort(text) ELSE ParseAddr(text)
        ports == IF parsed.port = 0 THEN PickPort(i, parsed.host, held) ELSE {parsed.port}
    IN  IF parsed = Bad \/ ports = {} THEN {[told |-> Bad, dialed |-> Bad, ok |-> FALSE]}
        ELSE {[told |-> Told(i, [parsed EXCEPT !.port = p]),
               dialed |-> Dialed(i, [parsed EXCEPT !.port = p]),
               ok |-> TRUE] : p \in ports}

=============================================================================
