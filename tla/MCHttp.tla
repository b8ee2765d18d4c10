-------------------------------- MODULE MCHttp --------------------------------
(***************************************************************************)
(* Instances of HttpClient, HttpRedirect, HttpTransport and HttpDownload   *)
(* for TLC. The machines share no state here: a behavior runs one of them, *)
(* and variables of the same name serve whichever runs; downloads stay as  *)
(* they begin while another machine runs.                                  *)
(***************************************************************************)
EXTENDS HttpDownload

CONSTANTS c1, c2, None

VARIABLES part, options, request, clock,
          stats, circuitOpen, openedAt, sends, changes, history,
          current, visited, hops, jar, at, out, chunks, sent, calls,
          jobs, pool, conn, done, closed

shared == <<options, request, clock>>
clientVars == <<stats, circuitOpen, openedAt, sends, changes, history>>
redirectVars == <<current, visited, hops, jar, at, out, chunks, sent, calls>>
transportVars == <<jobs, pool, conn, done, closed>>

Callers == {c1, c2}

(***************************************************************************)
(* Client: a budget of two attempts and a circuit that opens at two        *)
(* failures, or the defaults of a flat configuration.                      *)
(***************************************************************************)
ClientOptions ==
    [total |-> 2, attempts |-> 2, legacy |-> 0, delay |-> 1, transient |-> TRUE,
     breaker |-> [enabled |-> TRUE, threshold |-> 2, reset |-> 1]]
FlatConfigs == {[ok |-> FALSE, total |-> 0, attempts |-> 0], [ok |-> TRUE, total |-> 1, attempts |-> 1]}
ClientRequests == {[valid |-> FALSE, starts |-> 0], [valid |-> TRUE, starts |-> 1], [valid |-> TRUE, starts |-> 2]}
AskRetry == {"Protocol"}

(***************************************************************************)
(* Redirects between two hosts, one a subdomain of the other, over http    *)
(* and https, with cookies for one, for both, and expired ones. The first  *)
(* has two URLs of one origin: a chain may stay there, or lead back to it. *)
(***************************************************************************)
Url(scheme, host, path) == [scheme |-> scheme, host |-> host, port |-> 1, path |-> path]
HostA == <<"com", "a">>
HostB == <<"com", "a", "b">>
UrlA == Url("http", HostA, <<"x", "y">>)
UrlHome == Url("http", HostA, <<"x">>)
UrlB == Url("http", HostB, <<"x">>)
UrlS == Url("https", HostA, <<"x">>)

Plain ==
    [url |-> UrlA, method |-> "GET", headers |-> {}, body |-> FALSE, malformed |-> FALSE, streams |-> FALSE,
     follow |-> None, hops |-> None]
RedirectRequests ==
    {Plain, [Plain EXCEPT !.malformed = TRUE],
     [Plain EXCEPT !.method = "POST", !.body = TRUE, !.headers = {"authorization", "cookie", "content-length"},
                   !.streams = TRUE, !.hops = 3]}

Response ==
    [status |-> "final", location |-> None, cookies |-> <<>>, chunks |-> <<>>, accepted |-> 0, oversized |-> FALSE]
HostCookie == [name |-> "k", domain |-> None, path |-> None, secure |-> FALSE, age |-> None]
CookieLists ==
    {<<HostCookie>>, <<[HostCookie EXCEPT !.age = 0]>>,
     <<[HostCookie EXCEPT !.domain = HostA, !.secure = TRUE, !.path = <<"x">>], HostCookie>>,
     <<[HostCookie EXCEPT !.domain = HostB, !.age = 1]>>}
Responses ==
    {Response, [Response EXCEPT !.status = "failed"], [Response EXCEPT !.chunks = <<1, 2>>, !.accepted = 2],
     [Response EXCEPT !.chunks = <<1, 2>>, !.accepted = 1],
     [Response EXCEPT !.oversized = TRUE], [Response EXCEPT !.status = "found"],
     [Response EXCEPT !.status = "found", !.location = Url("ftp", HostA, <<"x">>)]}
    \cup {[Response EXCEPT !.status = s, !.location = l, !.cookies = c] :
            s \in {"found", "see_other"}, l \in {UrlA, UrlHome, UrlB, UrlS}, c \in CookieLists}
RedirectOptions ==
    {[follow |-> TRUE, hops |-> 2, proxy |-> None, environment |-> "proxy"],
     [follow |-> FALSE, hops |-> 2, proxy |-> "own", environment |-> "proxy"]}
NoProxyRules == {[any |-> FALSE, host |-> HostA, suffix |-> FALSE, named |-> TRUE, port |-> 1]}

(***************************************************************************)
(* Transport: every framing on one connection, reuse within and between    *)
(* the callers, proxies and tunnels.                                       *)
(***************************************************************************)
Deaf == 0 - 1
Answer ==
    [status |-> "final", framing |-> "length", length |-> 1, chunks |-> <<>>, close |-> FALSE, redirect |-> FALSE,
     interims |-> 0]
Chunked == [Answer EXCEPT !.framing = "chunked", !.length = 2, !.chunks = <<1, 1>>]
To(dest) ==
    [dest |-> dest, proxy |-> "none", tls |-> FALSE, head |-> FALSE, follow |-> FALSE, accepts |-> Deaf,
     impatient |-> FALSE, answers |-> {Answer}]
Streaming ==
    [To("d1") EXCEPT !.accepts = 2, !.impatient = TRUE,
        !.answers = {Answer, Chunked, [Answer EXCEPT !.length = 3], [Answer EXCEPT !.length = 4],
                     [Chunked EXCEPT !.length = 3, !.chunks = <<3>>],
                     [Answer EXCEPT !.framing = "close", !.redirect = TRUE],
                     [Answer EXCEPT !.status = "bodyless", !.framing = "close", !.interims = 1],
                     [Answer EXCEPT !.interims = 2], [Answer EXCEPT !.status = "malformed"],
                     [Answer EXCEPT !.close = TRUE]}]

Jobs(first, second) == [c \in Callers |-> IF c = c1 THEN first ELSE second]
JobSets ==
    {Jobs(<<Streaming, [To("d1") EXCEPT !.answers = {Answer, Chunked}]>>, <<>>),
     Jobs(<<[To("d1") EXCEPT !.head = TRUE, !.answers = {Answer, Chunked}], To("d1")>>, <<>>),
     Jobs(<<[To("d1") EXCEPT !.follow = TRUE, !.proxy = "http", !.accepts = 2,
                             !.answers = {[Answer EXCEPT !.length = 2, !.redirect = TRUE], Answer}],
            [To("d2") EXCEPT !.proxy = "http"]>>, <<>>),
     Jobs(<<To("d1"), To("d2")>>, <<To("d2")>>),
     Jobs(<<[To("d1") EXCEPT !.proxy = "socks5"]>>,
          <<[To("d1") EXCEPT !.tls = TRUE, !.proxy = "http"], [To("d2") EXCEPT !.proxy = "socks5"]>>)}

(***************************************************************************)
(* Downloads: one suffix or two, overwriting or not.                       *)
(***************************************************************************)
DownloadArguments ==
    {[suffix |-> s, overwrite |-> TRUE, valid |-> TRUE] : s \in {"a", "b"}}
    \cup {[suffix |-> "a", overwrite |-> o, valid |-> ~o] : o \in BOOLEAN}

Client == INSTANCE HttpClient WITH
    call <- request,
    FirstOptions <- ClientOptions, Requests <- ClientRequests, MaxSends <- 3, MaxClock <- 2, MaxChanges <- 1
Redirect == INSTANCE HttpRedirect WITH
    Requests <- RedirectRequests, Options <- RedirectOptions, MaxCalls <- 2, MaxClock <- 1
Transport == INSTANCE HttpTransport WITH
    call <- request,
    Sockets <- 1..4, PerHost <- 1, Total <- 1, IdleTtl <- 0, MaxHead <- 3, MaxBody <- 3, MaxInterim <- 1,
    MaxClock <- 1, MaxClosed <- 1

NoClient ==
    /\ stats = None /\ circuitOpen = None /\ openedAt = None /\ sends = None /\ changes = None
    /\ history = None
NoRedirect ==
    /\ current = None /\ visited = None /\ hops = None /\ jar = None /\ at = None /\ out = None
    /\ chunks = None /\ sent = None /\ calls = None
NoTransport ==
    /\ jobs = None /\ pool = None /\ conn = None /\ done = None /\ closed = None
NoDownload == Init /\ kept = {} /\ ~Exists(Target)

MCInit ==
    \/ /\ part = "client" /\ Client!Init /\ NoRedirect /\ NoTransport /\ NoDownload
    \/ /\ part = "redirect" /\ Redirect!Init /\ NoClient /\ NoTransport /\ NoDownload /\ request = None
    \/ /\ part = "transport" /\ Transport!Init /\ NoClient /\ NoRedirect /\ NoDownload /\ options = None
    \/ /\ part = "download" /\ Init /\ NoClient /\ NoRedirect /\ NoTransport
       /\ options = None /\ request = None /\ clock = None

ClientStep ==
    part = "client" /\ Client!Next /\ UNCHANGED <<part, redirectVars, transportVars, vars>>
RedirectStep ==
    part = "redirect" /\ Redirect!Next /\ UNCHANGED <<part, request, clientVars, transportVars, vars>>
TransportStep ==
    part = "transport" /\ Transport!Next /\ UNCHANGED <<part, options, clientVars, redirectVars, vars>>
DownloadStep ==
    part = "download" /\ Next /\ UNCHANGED <<part, shared, clientVars, redirectVars, transportVars>>

\* All calls have returned or wait past the last tick, or the process has died.
Finished ==
    /\ \/ part = "client" /\ \A c \in Callers : request[c].at = IF clock = 2 /\ request[c].wake > 2 THEN "delay" ELSE "idle"
       \/ part = "redirect" /\ calls = 2 /\ at = "idle"
       \/ part = "download" /\ \A c \in Callers : call[c].at \in {"returned", "dead"}
    /\ UNCHANGED <<part, shared, clientVars, redirectVars, transportVars, vars>>

MCSpec ==
    MCInit /\ [][ClientStep \/ RedirectStep \/ TransportStep \/ DownloadStep \/ Finished]_<<part, shared, clientVars,
                  redirectVars, transportVars, vars>>

(***************************************************************************)
(* Properties: those of the machines, each for its own behaviors.          *)
(***************************************************************************)
\* A request is sent as often as its budget and the circuit allow, and the circuit counts what was sent
\* (Client::Send).
ClientContract == part = "client" => Client!CircuitLedger /\ Client!SendContract

\* Credentials and cookies stay with their host, and a chain of redirects ends (Client::Send).
RedirectsSafe == part = "redirect" => Redirect!CredentialsStayHome /\ Redirect!ChainEnds

\* A response belongs to the request it is given for, and a pooled connection is at the start of a response
\* (ReadResponse, ConnectionPool).
TransportSound == part = "transport" => Transport!ResponseBelongs /\ Transport!PoolSound
==============================================================================
