----------------------------- MODULE HttpRedirect -----------------------------
(***************************************************************************)
(* Client::SendOnce: the chain of requests behind one attempt, what every  *)
(* redirect keeps and drops, the cookie jar of the client, and the proxy   *)
(* taken from the environment. Servers answer as they like.                *)
(*                                                                         *)
(* A URL is a record [scheme, host, port, path]; a host is the sequence of *)
(* its labels from the last one on, a path the sequence of its segments.   *)
(***************************************************************************)
EXTENDS Integers, FiniteSets, SequencesExt, TLC

CONSTANTS Requests,     \* the requests of the caller
          Responses,    \* what a server may answer
          Options,      \* [follow, hops, proxy, environment] of the client
          NoProxyRules, \* the rules of NO_PROXY: [any, host, suffix, port]
          None,         \* an absent value
          MaxCalls,     \* bound: Send calls
          MaxClock      \* bound: seconds

VARIABLES options,      \* the options of the client
          current,      \* the request as the redirects so far have left it
          visited,      \* visited_redirects
          hops,         \* redirect_hops
          jar,          \* g_client_cookies of this client
          at,           \* where SendOnce is
          out,          \* its result
          chunks,       \* what the caller's on_response_chunk was given
          sent,         \* of the properties: the requests of this call as they went out
          calls, clock

vars == <<options, current, visited, hops, jar, at, out, chunks, sent, calls, clock>>

(***************************************************************************)
(* Cookies.                                                                *)
(***************************************************************************)
DomainMatches(host, domain, hostOnly) == IF hostOnly THEN host = domain ELSE IsPrefix(domain, host)
PathMatches(path, cookiePath) == IsPrefix(cookiePath, path)
DefaultCookiePath(path) == IF path = <<>> THEN <<>> ELSE Front(path)

Expired(cookie) == cookie.expires # None /\ cookie.expires <= clock

\* One Set-Cookie header: a Domain that is not the sender's own is ignored.
Cookie(url, set) ==
    LET widened == set.domain # None /\ DomainMatches(url.host, set.domain, FALSE)
    IN  [name |-> set.name, domain |-> IF widened THEN set.domain ELSE url.host, hostOnly |-> ~widened,
         path |-> IF set.path = None THEN DefaultCookiePath(url.path) ELSE set.path, secure |-> set.secure,
         expires |-> IF set.age = None THEN None ELSE clock + set.age, by |-> url.host]

SameCookie(a, b) == a.name = b.name /\ a.domain = b.domain /\ a.path = b.path

\* A new cookie replaces its namesake; one that has expired only removes it.
PutCookie(kept, cookie) ==
    LET others == SelectSeq(kept, LAMBDA x : ~SameCookie(x, cookie))
    IN  IF Expired(cookie) THEN others ELSE Append(others, cookie)

StoreSetCookieHeaders(url, sets) ==
    IF sets = <<>> THEN jar
    ELSE FoldLeft(PutCookie, SelectSeq(jar, LAMBDA x : ~Expired(x)), [i \in DOMAIN sets |-> Cookie(url, sets[i])])

SendsTo(cookie, url) ==
    /\ cookie.secure => url.scheme = "https"
    /\ DomainMatches(url.host, cookie.domain, cookie.hostOnly)
    /\ PathMatches(url.path, cookie.path)

BuildCookieHeader(url) == SelectSeq(jar, LAMBDA x : ~Expired(x) /\ SendsTo(x, url))

(***************************************************************************)
(* The proxy of the environment, chosen once for the URL of the caller.    *)
(***************************************************************************)
NoProxyRuleMatches(rule, url) ==
    \/ rule.any
    \/ /\ rule.port # None => rule.port = url.port
       /\ \/ url.host = rule.host
          \/ (rule.suffix \/ rule.named) /\ IsStrictPrefix(rule.host, url.host)

ShouldBypassProxyFromEnvironment(url) == \E rule \in NoProxyRules : NoProxyRuleMatches(rule, url)

ProxyFor(url) ==
    IF options.proxy # None THEN options.proxy
    ELSE IF options.environment = None \/ ShouldBypassProxyFromEnvironment(url) THEN None
    ELSE options.environment

(***************************************************************************)
(* The chain.                                                              *)
(***************************************************************************)
IsRedirect(status) == status \in {"found", "see_other"}
Origin(url) == <<url.scheme, url.host, url.port>>

\* ValidateRequestMetadata, before every transport call.
ValidMetadata(req) == ~req.malformed

Begin ==
    /\ at = "idle" /\ calls < MaxCalls
    /\ \E r \in Requests :
        /\ current' = [url |-> r.url, method |-> r.method, headers |-> r.headers, body |-> r.body,
                       malformed |-> r.malformed, streams |-> r.streams, proxy |-> ProxyFor(r.url),
                       follow |-> IF r.follow = None THEN options.follow ELSE r.follow,
                       hops |-> IF r.hops = None THEN options.hops ELSE r.hops]
        /\ visited' = {r.url}
    /\ hops' = 0 /\ at' = "send" /\ out' = None /\ chunks' = <<>> /\ sent' = <<>>
    /\ calls' = calls + 1
    /\ UNCHANGED <<options, jar, clock>>

Leave(result) == at' = "idle" /\ out' = result

\* The request goes out with the caller's headers; the jar fills in only when the caller gave no Cookie.
SendHop ==
    /\ at = "send"
    /\ IF ValidMetadata(current)
       THEN /\ sent' = Append(sent, [request |-> current,
                                     jar |-> IF "cookie" \in current.headers THEN <<>> ELSE BuildCookieHeader(current.url)])
            /\ jar' = SelectSeq(jar, LAMBDA x : "cookie" \in current.headers \/ ~Expired(x))
            /\ at' = "receive" /\ UNCHANGED out
       ELSE Leave("InvalidArgument") /\ UNCHANGED <<sent, jar>>
    /\ UNCHANGED <<options, current, visited, hops, chunks, calls, clock>>

\* What a redirect to another origin, and a 303, take away from the request.
WithoutCredentials(req) == [req EXCEPT !.headers = @ \ {"authorization", "cookie"}]

\* A mutant: only a change of the host counts.
SameHostKeeps(req, url) ==
    IF req.url.host # url.host THEN WithoutCredentials(req) ELSE req

AcrossOrigins(req, url) == IF Origin(req.url) # Origin(url) THEN WithoutCredentials(req) ELSE req

AfterSeeOther(req, status) ==
    IF status = "see_other" /\ req.method # "HEAD"
    THEN [req EXCEPT !.method = "GET", !.body = FALSE, !.headers = @ \ {"content-length", "content-type"}]
    ELSE req

Redirected(req, r) == [AfterSeeOther(AcrossOrigins(req, r.location), r.status) EXCEPT !.url = r.location]

\* Why a redirect is not followed, in the order of the checks.
RedirectRefused(r) ==
    \/ hops >= current.hops
    \/ r.location = None
    \/ r.location \in visited
    \/ r.location.scheme \notin {"http", "https"}

\* The callback sees the chunks of the final response only: with a transport of the caller they are
\* held back until the status is known.
Delivered(r) == IF current.streams THEN SubSeq(r.chunks, 1, r.accepted) ELSE <<>>

Receive(r) ==
    /\ at = "receive"
    /\ jar' = IF r.status = "failed" THEN jar ELSE StoreSetCookieHeaders(current.url, r.cookies)
    /\ \/ r.status = "failed" /\ Leave("Network") /\ UNCHANGED <<current, visited, hops, chunks>>
       \/ /\ r.status # "failed" /\ r.oversized
          /\ Leave("Protocol") /\ UNCHANGED <<current, visited, hops, chunks>>
       \/ /\ r.status # "failed" /\ ~r.oversized /\ ~(current.follow /\ IsRedirect(r.status))
          /\ chunks' = Delivered(r)
          /\ Leave(IF current.streams /\ r.accepted < Len(r.chunks) THEN "Internal" ELSE "ok")
          /\ UNCHANGED <<current, visited, hops>>
       \/ /\ ~r.oversized /\ current.follow /\ IsRedirect(r.status)
          /\ IF RedirectRefused(r)
             THEN Leave("Redirect") /\ UNCHANGED <<current, visited, hops>>
             ELSE /\ current' = Redirected(current, r)
                  /\ visited' = visited \cup {r.location}
                  /\ hops' = hops + 1
                  /\ at' = "send" /\ UNCHANGED out
          /\ UNCHANGED chunks
    /\ UNCHANGED <<options, sent, calls, clock>>

Tick == clock < MaxClock /\ clock' = clock + 1
        /\ UNCHANGED <<options, current, visited, hops, jar, at, out, chunks, sent, calls>>

Init ==
    /\ options \in Options
    /\ current = None /\ visited = {} /\ hops = 0 /\ jar = <<>> /\ at = "idle" /\ out = None
    /\ chunks = <<>> /\ sent = <<>> /\ calls = 0 /\ clock = 0

Next == Begin \/ SendHop \/ (\E r \in Responses : Receive(r)) \/ Tick

Spec == Init /\ [][Next]_vars

(***************************************************************************)
(* Properties.                                                             *)
(***************************************************************************)
Credentials(s) == s.request.headers \cap {"authorization", "cookie"}
AtHome(i) == \A j \in 1..i : Origin(sent[j].request.url) = Origin(sent[1].request.url)

\* Credentials that the caller put into the request go along as long as the chain stays at the
\* origin it asked, over several URLs of it, and once it has left to no origin at all, not even when
\* a later redirect leads back; a cookie goes to no host outside of what its sender could ask for:
\* itself, or the hosts under a domain the sender belongs to.
CredentialsStayHome ==
    \A i \in DOMAIN sent :
        LET s == sent[i]
        IN  /\ Credentials(s) = IF AtHome(i) THEN Credentials(sent[1]) ELSE {}
            /\ \A k \in DOMAIN s.jar :
                LET c == s.jar[k]
                IN  /\ s.request.url.host = c.by \/ (IsPrefix(c.domain, c.by) /\ IsPrefix(c.domain, s.request.url.host)
                                                     /\ ~c.hostOnly)
                    /\ c.secure => s.request.url.scheme = "https"
                    /\ \A m \in DOMAIN s.jar : m # k => ~SameCookie(s.jar[m], c)

\* Method, body and the headers that describe the body, of a request as it went out.
Content(s) == <<s.request.method, s.request.body, s.request.headers \cap {"content-length", "content-type"}>>

\* Every chain ends: no URL twice, no more hops than allowed. What the caller wanted to send goes out
\* whole or, from some redirect on, as a GET without any of it, and never comes back; the caller's
\* callback has seen nothing before the last response.
ChainEnds ==
    /\ Len(sent) <= (IF current = None THEN 0 ELSE current.hops + 1)
    /\ \A i, j \in DOMAIN sent : i # j => sent[i].request.url # sent[j].request.url
    /\ \A i \in DOMAIN sent : i > 1 => Content(sent[i]) \in {Content(sent[i - 1]), <<"GET", FALSE, {}>>}
    /\ chunks # <<>> => at = "idle"
    /\ (at = "idle" /\ out = "Redirect") => chunks = <<>>
==============================================================================
