----------------------------- MODULE SocksNames -----------------------------
(***************************************************************************)
(* How the three implementations turn the address of a client's request    *)
(* into a host, and a host into the address of their own request to the    *)
(* upstream: readATYPAddr and socksConnectRequest (go/proxy.go),           *)
(* read_atyp_addr and upstream_connect (rust/src/proxy.rs),                *)
(* _read_atyp_addr and _upstream_connect (python/tailcat_socks.py); and    *)
(* what an upstream reads of it.  A host is a field of DnsText.            *)
(***************************************************************************)
EXTENDS DnsText

\* Addresses by their usual text, the IPv4 address inside IPv6 by two, and a
\* text that inet_aton alone takes for an address.
Ip4 == "10.0.0.1"
Ip6 == "fd00::1"
Mapped == "::ffff:10.0.0.1"
ShortIp4 == "10.1"

\* Tokens at the limit of the length byte and over it.
LongTokens == [tc255 |-> 255, tc256 |-> 256, tc300 |-> 300]
Length(host) ==
    IF Len(host) = 1 /\ host[1] \in DOMAIN LongTokens THEN LongTokens[host[1]] ELSE 10 * Len(host)

NotAscii == {"nbsp", "umlaut", "UMLAUT"}
Ascii(host) == Range(host) \cap NotAscii = {}

Refused == [atyp |-> 0, length |-> 0, address |-> <<>>]

\* The address of a client's request, as a host: Go drops ::ffff: from the text
\* of an IPv4 address, Python drops connections that name what is not ASCII.
ReadHost(i, address) == IF i = "go" /\ address = <<Mapped>> THEN <<Ip4>> ELSE address
Drops(i, address) == i = "python" /\ ~Ascii(address)

\* Faulty variant: Python knows an address by inet_aton only.
Literals6Aton == [go |-> {Ip6}, rust |-> {Ip6, Mapped}, python |-> {}]

\* The texts each encoder takes for an address, and the address they stand for.
Literals4 == [go |-> {Ip4, Mapped}, rust |-> {Ip4}, python |-> {Ip4, ShortIp4}]
Literals6 == [go |-> {Ip6}, rust |-> {Ip6, Mapped}, python |-> {Ip6, Mapped}]

Is(host, literals) == Len(host) = 1 /\ host[1] \in literals

\* Faulty variant: nobody looks at the length.
RefusesNone(i, host) == i = "python" /\ ~Ascii(host)

\* What has no encoding: too long for Go; too long or not ASCII for Python.
Refuses(i, host) ==
    \/ i \in {"go", "python"} /\ Length(host) > 255
    \/ i = "python" /\ ~Ascii(host)

Encode(i, host) ==
    IF Is(host, Literals4[i]) THEN [atyp |-> 1, length |-> 4, address |-> <<Ip4>>]
    ELSE IF Is(host, Literals6[i]) THEN [atyp |-> 4, length |-> 16, address |-> host]
    ELSE IF Refuses(i, host) THEN Refused
    ELSE [atyp |-> 3, length |-> Length(host) % 256, address |-> host]

-----------------------------------------------------------------------------
(* The upstream, as far as rust/src/bin/fake-tailcat.rs shows it.          *)

Bytes(request) == IF request.atyp = 3 THEN Length(request.address) ELSE request.length

\* It takes as many bytes for the address as its type or its length byte say.
Whole(request) == request.length = Bytes(request)

=============================================================================
