----------------------------- MODULE Endpoints -----------------------------
(***************************************************************************)
(* Which network endpoints a client uses: the options of Open (option.go), *)
(* the endpoint policy (endpoint_policy.go, policy.go) and the routing of  *)
(* ValidateCertificate (validate.go).                                      *)
(*                                                                         *)
(* A host is a name with its spelling: letter case and a final dot do not  *)
(* matter to DNS.  Ports are numbers; the texts "443" and "0443" are one.  *)
(* The caller owns the slices of the policy it passes and may change them  *)
(* at any time; an option or a configuration that kept them, instead of a  *)
(* copy, would change with them.                                           *)
(***************************************************************************)
EXTENDS Integers, Sequences

CONSTANTS Policies,  \* values the caller gives to its policy variable
          URLs,      \* endpoint texts of requests, well-formed or not
          Configured,  \* endpoint texts of options
          DefaultTSA, DefaultOCSP,
          NoPort,    \* a URL without a port
          NoPolicy,
          Empty      \* no URL

\* An endpoint is a record; its form is "url", or else what makes url.Parse or
\* the checks around it refuse the text.

VARIABLES mine,      \* the policy variable of the caller
          option,    \* the policy option it created, if any
          promised,  \* what that policy said when the option was created
          config, phase,
          last       \* the latest contact or refused request

policyVars == <<mine, option, promised, config, phase, last>>

Held(policy) == [aliased |-> FALSE, policy |-> policy]

\* The policy a held one stands for: shared slices follow the caller's.
Deref(held) ==
  IF held.aliased THEN [held.policy EXCEPT !.hosts = mine.hosts, !.ports = mine.ports]
  ELSE held.policy

-----------------------------------------------------------------------------
(* endpoint_policy.go *)

\* The largest port number.
MaxPort == 65535

IsIP(name) == name = "ip"

\* Hosts with spaces, URL syntax or characters outside ASCII are refused, and
\* so is an empty one; the spelling is normalized.
hostIsRefused(host) == host.name = "unusable"

normalizePolicyHost(host) == host.name

validate(policy) ==
  /\ policy.hosts # {}
  /\ \A host \in policy.hosts :
       ~hostIsRefused(host) /\ (IsIP(normalizePolicyHost(host)) => policy.allowIP)
  /\ \A port \in policy.ports : port \in 1..MaxPort

defaultHTTPPort(scheme) == IF scheme = "https" THEN 443 ELSE 80

effectivePort(url) == IF url.port = NoPort THEN defaultHTTPPort(url.scheme) ELSE url.port

validateEndpoint(policy, url) ==
  LET host == normalizePolicyHost(url.host)
  IN  /\ ~url.user /\ ~url.fragment
      /\ policy.requireHTTPS => url.scheme = "https"
      /\ ~hostIsRefused(url.host)
      /\ host # "zone"
      /\ IsIP(host) => policy.allowIP
      /\ \E h \in policy.hosts : ~hostIsRefused(h) /\ normalizePolicyHost(h) = host
      /\ effectivePort(url) \in 0..MaxPort
      /\ IF policy.ports = {} THEN effectivePort(url) = defaultHTTPPort(url.scheme)
         ELSE \E p \in policy.ports : p = effectivePort(url)

\* policy.go: empty texts, spaces, NUL bytes, other schemes, missing hosts and
\* ports out of range are refused before the policy is asked.
normalizeNativeHTTPURLWithPolicy(url, held) ==
  /\ url.form = "url"
  /\ url.scheme \in {"http", "https"}
  /\ url.port = NoPort \/ url.port \in 0..MaxPort
  /\ held # NoPolicy => validateEndpoint(Deref(held), url)

-----------------------------------------------------------------------------
(* option.go *)

DefaultConfig == [policy |-> NoPolicy, tsa |-> DefaultTSA, ocsp |-> DefaultOCSP,
                  custom |-> FALSE]

\* The caller assigns to its variable, or to elements of its slices.
ChangeMine(policy) ==
  /\ mine # policy
  /\ mine' = policy
  /\ UNCHANGED <<option, promised, config, phase, last>>

\* Mutant: the option keeps the slices of its caller.
WithEndpointPolicyShared ==
  /\ phase = "options"
  /\ option' = [Held(mine) EXCEPT !.aliased = TRUE]
  /\ promised' = mine
  /\ UNCHANGED <<mine, config, phase, last>>

\* The option keeps a copy.
WithEndpointPolicy ==
  /\ phase = "options"
  /\ option' = Held(mine)
  /\ promised' = mine
  /\ UNCHANGED <<mine, config, phase, last>>

\* Open applies the options in the order given and then validates the whole.
ApplyPolicy ==
  /\ phase = "options" /\ option # NoPolicy
  /\ config' = [config EXCEPT !.policy = option]
  /\ phase' = "applied"
  /\ UNCHANGED <<mine, option, promised, last>>

ApplyURL(field, url) ==
  /\ phase \in {"options", "applied"}
  /\ config' = [config EXCEPT ![field] = url]
  /\ UNCHANGED <<mine, option, promised, phase, last>>

WithCustomOCSP ==
  /\ phase \in {"options", "applied"}
  /\ config' = [config EXCEPT !.custom = TRUE]
  /\ UNCHANGED <<mine, option, promised, phase, last>>

configIsValid ==
  /\ config.policy # NoPolicy => validate(Deref(config.policy))
  /\ normalizeNativeHTTPURLWithPolicy(config.tsa, config.policy)
  /\ normalizeNativeHTTPURLWithPolicy(config.ocsp, config.policy)

NoEvent == [kind |-> "none"]

Contact(purpose, via, url) ==
  [kind |-> "contact", purpose |-> purpose, via |-> via, url |-> url]

Refusal(mode, source, issuer) ==
  [kind |-> "refusal", mode |-> mode, url |-> source, issuer |-> issuer]

\* Open: the library learns the timestamp authority, signing contacts it.
Open ==
  /\ phase \in {"options", "applied"}
  /\ IF configIsValid
     THEN /\ phase' = "open"
          /\ last' = Contact("TSA", "native", config.tsa)
          /\ UNCHANGED config
     ELSE /\ phase' = "options"
          /\ config' = DefaultConfig
          /\ UNCHANGED last
  /\ UNCHANGED <<mine, option, promised>>

-----------------------------------------------------------------------------
(* validate.go *)

Modes == {"unspecified", "none", "CRL", "OCSP", "unknown"}

\* A source is absent (Empty), a path, or the text of a URL.
SourceIsAccepted(mode, source) ==
  CASE source = Empty -> mode \in {"none", "OCSP"}
    [] mode = "none"  -> FALSE
    [] mode = "OCSP"  -> normalizeNativeHTTPURLWithPolicy(source, config.policy)
    [] OTHER          -> source.form # "nul"

revocationSource(source) == IF source = Empty THEN config.ocsp ELSE source

requestIsAccepted(mode, source, issuer, returnResponse) ==
  /\ mode \in {"none", "CRL", "OCSP"}
  /\ returnResponse => mode = "OCSP"
  /\ issuer => mode = "OCSP" /\ config.custom
  /\ SourceIsAccepted(mode, source)

\* With WithCustomOCSP the library validates the chain only, UseNothing, and Go
\* contacts the responder; otherwise the library does.
ValidateCertificate(mode, source, issuer, returnResponse) ==
  /\ phase = "open"
  /\ IF ~requestIsAccepted(mode, source, issuer, returnResponse)
     THEN last' = Refusal(mode, source, issuer)
     ELSE IF mode # "OCSP" THEN UNCHANGED last
     ELSE last' = Contact("OCSP", IF config.custom THEN "go" ELSE "native",
                          revocationSource(source))
  /\ UNCHANGED <<mine, option, promised, config, phase>>

\* (*Client).Close: the client accepts no more requests; another may be opened.
Close ==
  /\ phase = "open"
  /\ phase' = "options"
  /\ config' = DefaultConfig
  /\ last' = NoEvent
  /\ UNCHANGED <<mine, option, promised>>

-----------------------------------------------------------------------------
PolicyInit ==
  /\ mine \in Policies
  /\ option = NoPolicy /\ promised = NoPolicy
  /\ config = DefaultConfig
  /\ phase = "options"
  /\ last = NoEvent

PolicyNext ==
  \/ \E policy \in Policies : ChangeMine(policy)
  \/ WithEndpointPolicy
  \/ ApplyPolicy
  \/ \E field \in {"tsa", "ocsp"}, url \in Configured : ApplyURL(field, url)
  \/ WithCustomOCSP
  \/ Open
  \/ \E mode \in Modes, source \in URLs \cup {Empty}, issuer, response \in BOOLEAN :
        ValidateCertificate(mode, source, issuer, response)
  \/ Close

PolicySpec == PolicyInit /\ [][PolicyNext]_policyVars

-----------------------------------------------------------------------------
(* Properties *)

StandardPort(url) == IF url.scheme = "https" THEN 443 ELSE 80

\* What the documentation of EndpointPolicy promises of an endpoint: a listed
\* host, however it is spelled, an IP address only when those are allowed, a
\* listed port or the default one, HTTPS when required, nothing else in it.
Permits(policy, url) ==
  /\ url.form = "url" /\ ~url.user /\ ~url.fragment
  /\ \E host \in policy.hosts : host.name = url.host.name
  /\ url.host.name = "ip" => policy.allowIP
  /\ url.host.name \notin {"zone", "unusable"}
  /\ url.scheme \in IF policy.requireHTTPS THEN {"https"} ELSE {"http", "https"}
  /\ LET port == IF url.port = NoPort THEN StandardPort(url) ELSE url.port
     IN  IF policy.ports = {} THEN port = StandardPort(url) ELSE port \in policy.ports

\* Every endpoint that the client contacts, configured before or after the
\* policy or named by a request, is one that the policy permits as it was when
\* WithEndpointPolicy was called, whatever the caller did to its slices since.
\* And a request to validate through OCSP is not refused for a permitted one.
ContactsArePermitted ==
  config.policy # NoPolicy =>
    /\ last.kind = "contact" => Permits(promised, last.url)
    /\ last.kind = "refusal" =>
         ~ /\ last.mode = "OCSP"
           /\ last.issuer => config.custom
           /\ last.url # Empty
           /\ Permits(promised, last.url)
=============================================================================
