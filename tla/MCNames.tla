------------------------------ MODULE MCNames ------------------------------
(* Names for TLC: the texts that tell the parsers and encoders apart.      *)
EXTENDS Names

MCFlags == {
    <<"127.0.0.1", ":", "n1080">>, <<"127.0.0.1", ":", "n0">>, <<"127.0.0.1", ":">>,
    <<":", "n1080">>, <<"n1080">>, <<"n0">>, <<"127.0.0.1">>,
    <<"[", ":", ":", "n1", "]", ":", "n1080">>, <<"[", ":", ":", "n1", "]", ":", "n0">>,
    <<":", ":", "n1", ":", "n1080">>, <<":", ":", "n1">>,
    <<"[", "localhost", "]", ":", "n1080">>, <<"[", "localhost", ":", "n1080">>,
    <<"[", "localhost", ":", "n0">>, <<"]", "[", ":", "n1080">>, <<"[", "]", ":", "n1080">>, <<>>}
MCDefault == <<"127.0.0.1", ":", "n1080">>
MCDraws == {0, 1, 40999, 41000, 65535}
MCPorts == {20000, 20001}

\* One domain to a line: every gap with every domain and every end.
MCFirstLines ==
    {<<token>> \o <<gap>> \o <<domain>> \o end :
        token \in {"tcA"}, gap \in {"sp", "tab", "ff", "cr", "nbsp"},
        domain \in {"name", "NAME", "umlaut", "UMLAUT", "other", Ip4},
        end \in {<<"lf">>, <<"cr", "lf">>, <<"sp", "lf">>, <<"cr">>, <<"nbsp", "lf">>}}
    \cup {<<token, "sp", "name", "lf">> :
        token \in {"NAME", "tc255", "tc256", "tc300", Ip6, Mapped, ShortIp4, "umlaut"}}
    \cup {<<"#", "tcA", "sp", "name", "lf">>, <<"#", "sp", "tcA", "tab", "name", "lf">>,
          <<"sp", "#", "sp", "name", "lf">>, <<"nbsp", "#", "sp", "name", "lf">>,
          <<"tcA", "lf">>, <<"lf">>, <<"tcA", "sp", "sp", "name", "tab", "other", "lf">>}

MCMoreLines ==
    {<<"tcB", "sp", "NAME", "cr", "lf">>, <<"tcB", "tab", "name", "sp", "name", "lf">>,
     <<"sp", "tcB", "sp", "umlaut", "lf">>, <<"#", "tcB", "sp", "name", "lf">>,
     <<"tcB", "sp", "other">>, <<"name", "sp", "tcA", "lf">>}

MCAddresses ==
    {<<>>} \cup {<<w>> : w \in {"name", "NAME", "umlaut", "UMLAUT", "other", Ip4, Ip6, Mapped, ShortIp4}}

=============================================================================
