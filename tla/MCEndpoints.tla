---------------------------- MODULE MCEndpoints ----------------------------
(***************************************************************************)
(* Policies and endpoint texts that differ in each respect the policy      *)
(* looks at.                                                               *)
(***************************************************************************)
EXTENDS Endpoints

Host(name, dotted) == [name |-> name, dotted |-> dotted]

URL(scheme, host, port) ==
  [form |-> "url", scheme |-> scheme, host |-> host, port |-> port,
   user |-> FALSE, fragment |-> FALSE]

Policy(hosts, ports, https, ip) ==
  [hosts |-> hosts, ports |-> ports, requireHTTPS |-> https, allowIP |-> ip]

SomePolicies ==
  {Policy({Host("pki", FALSE)}, {}, FALSE, FALSE),
   Policy({Host("pki", TRUE), Host("other", FALSE)}, {443, 8443}, TRUE, FALSE),
   Policy({Host("pki", FALSE), Host("ip", FALSE), Host("zone", FALSE)}, {80, 443}, FALSE, TRUE),
   Policy({Host("ip", FALSE)}, {}, FALSE, FALSE),
   Policy({Host("pki", FALSE), Host("unusable", FALSE)}, {}, FALSE, FALSE),
   Policy({}, {}, FALSE, TRUE)}

Default == URL("http", Host("pki", FALSE), NoPort)

OptionURLs ==
  {Default, URL("https", Host("pki", TRUE), 8443), URL("https", Host("ip", FALSE), NoPort)}

SomeURLs ==
  {URL(s, Host(h, FALSE), p) : s \in {"http", "https"}, h \in {"pki", "ip"}, p \in {NoPort, 443}}
  \cup {URL("https", Host(h, TRUE), 8443) : h \in {"pki", "other"}}
  \cup {URL("https", Host("zone", FALSE), 443), URL("ftp", Host("pki", FALSE), 80),
        [Default EXCEPT !.user = TRUE], [Default EXCEPT !.fragment = TRUE],
        [Default EXCEPT !.form = "nul"]}
=============================================================================
