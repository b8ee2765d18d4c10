----------------------------- MODULE HttpTransport -----------------------------
(***************************************************************************)
(* SendByDefaultTransport: the connection pool of a client, the connection *)
(* a request is sent on, and the reader of its response.                   *)
(*                                                                         *)
(* What a peer sends is a sequence of tokens, and a recv returns any       *)
(* nonempty prefix of what has arrived:                                    *)
(*   head       the status line and headers of one response, of a 1xx too  *)
(*   b          one byte of a body                                         *)
(*   size, crlf the size line of a chunk and the line end after its data   *)
(*   trailer, end  the lines after the last chunk                          *)
(* Every token carries the request it answers, which the code cannot see.  *)
(***************************************************************************)
EXTENDS Integers, FiniteSets, SequencesExt, TLC

CONSTANTS Callers,      \* threads that share the client
          JobSets,      \* for every caller its requests, one after the other, with the answers each may get
          Sockets,      \* handles 1..n, used in this order, each for one connection
          PerHost, Total, \* options.pool
          IdleTtl,      \* kPoolIdleTtl
          MaxHead, MaxBody, \* options.limits, in tokens
          MaxInterim,   \* 1xx responses a reader puts up with
          MaxClock,     \* bound: ticks of the clock
          MaxClosed     \* bound: connections that the peer closes

VARIABLES jobs,         \* the requests of this behavior; req.proxy is "none", "http" or "socks5"
          pool,         \* g_client_pools: the sockets and their last use, for every key
          conn,         \* the connections: route, both ends, what has arrived, what was asked
          call,         \* the request of every caller, where it is and what it has
          done,         \* jobs every caller has finished
          clock, closed

vars == <<jobs, pool, conn, call, done, clock, closed>>

Nobody == "none"
NoSocket == 0
Deaf == 0 - 1             \* a request without a stream callback

\* PoolKey and the keys of proxied routes: an HTTP proxy serves every destination over one connection.
PoolKey(req) ==
    CASE req.proxy = "none" -> <<"direct", req.dest>>
      [] req.proxy = "http" -> <<"proxy", Nobody>>
      [] req.proxy = "socks5" -> <<"socks5", req.dest>>

Keys == {PoolKey(r) : r \in UNION {UNION {ToSet(j[c]) : c \in Callers} : j \in JobSets}}

(***************************************************************************)
(* The reader.                                                             *)
(***************************************************************************)
NewReader ==
    [phase |-> "headers", buf |-> <<>>, used |-> 0, head |-> [of |-> Nobody], headBytes |-> 0, interim |-> 0,
     body |-> <<>>, streamed |-> <<>>, result |-> Nobody]

Failed(rd, kind) == [rd EXCEPT !.result = kind]
Consume(rd, n) == [rd EXCEPT !.buf = SubSeq(@, n + 1, Len(@)), !.used = @ + n]

\* AppendBodyChunk: the limit, the stream callback (not for a redirect that is followed), the body.
AppendBodyChunk(rd, chunk, req) ==
    IF chunk = <<>> THEN rd
    ELSE IF Len(chunk) > MaxBody - Len(rd.body) THEN Failed(rd, "Protocol")
    ELSE LET streams == req.accepts # Deaf /\ ~(req.follow /\ rd.head.answer.redirect)
         IN  IF streams /\ Len(rd.streamed) >= req.accepts THEN Failed(rd, "Internal")
             ELSE [rd EXCEPT !.body = @ \o chunk, !.streamed = IF streams THEN @ \o chunk ELSE @]

\* Headers: limits, 101 and too many interim responses are refused; others are skipped.
ReadHeaders(rd, req) ==
    LET a == rd.buf[1].answer
        next == Consume([rd EXCEPT !.headBytes = @ + 1, !.head = rd.buf[1]], 1)
    IN  IF rd.headBytes + 1 > MaxHead \/ a.status = "malformed" \/ a.status = "switching"
        THEN Failed(rd, "Protocol")
        ELSE IF a.status = "interim"
        THEN IF rd.interim + 1 > MaxInterim THEN Failed(rd, "Protocol") ELSE [next EXCEPT !.interim = @ + 1]
        ELSE IF req.head \/ a.status = "bodyless" THEN [next EXCEPT !.result = "ok"]
        ELSE IF a.framing = "chunked" THEN [next EXCEPT !.phase = "size", !.used = 0]
        ELSE IF a.framing = "length"
        THEN IF a.length > MaxBody THEN Failed(rd, "Protocol") ELSE [next EXCEPT !.phase = "length"]
        ELSE [next EXCEPT !.phase = "close"]

\* One chunk: its declared size is refused before its data is waited for.
ReadChunk(rd, req) ==
    LET n == rd.buf[1].n
        data == SubSeq(rd.buf, 2, n + 1)
    IN  IF rd.buf[1].t # "size" \/ n > MaxBody - Len(rd.body) THEN Failed(rd, "Protocol")
        ELSE IF n = 0 THEN Consume([rd EXCEPT !.phase = "trailer"], 1)
        ELSE IF Len(rd.buf) < n + 2 THEN rd
        ELSE LET appended == AppendBodyChunk(rd, data, req)
             IN  IF appended.result # Nobody THEN appended
                 ELSE IF rd.buf[n + 2].t # "crlf" THEN Failed(appended, "Protocol")
                 ELSE Consume(appended, n + 2)

ReadTrailer(rd) ==
    IF rd.buf[1].t = "end" THEN [Consume(rd, 1) EXCEPT !.result = "ok"] ELSE Consume(rd, 1)

\* At most what the length still asks for; the rest of the buffer is dropped with the reader.
ReadLength(rd, req) ==
    LET want == rd.head.answer.length - Len(rd.body)
        take == IF want < Len(rd.buf) THEN want ELSE Len(rd.buf)
        next == Consume(AppendBodyChunk(rd, SubSeq(rd.buf, 1, take), req), take)
    IN  IF next.result = Nobody /\ Len(next.body) >= rd.head.answer.length THEN [next EXCEPT !.result = "ok"] ELSE next

ReadUntilClose(rd, req) == Consume(AppendBodyChunk(rd, rd.buf, req), Len(rd.buf))

ReadStep(rd, req) ==
    IF rd.result # Nobody \/ (rd.buf = <<>> /\ rd.phase # "length") THEN rd
    ELSE CASE rd.phase = "headers" -> ReadHeaders(rd, req)
           [] rd.phase = "size" -> ReadChunk(rd, req)
           [] rd.phase = "trailer" -> ReadTrailer(rd)
           [] rd.phase = "length" -> ReadLength(rd, req)
           [] rd.phase = "close" -> ReadUntilClose(rd, req)

\* Works on what the buffer holds until it needs more or has a result.
RECURSIVE Digest(_, _)
Digest(rd, req) == LET next == ReadStep(rd, req) IN IF next = rd THEN rd ELSE Digest(next, req)

\* fill_chunk_wire counts what it has already decoded against both limits.
TooMuchWire(rd) == rd.phase \in {"size", "trailer"} /\ rd.used + Len(rd.buf) > MaxHead + MaxBody

Received(rd, bytes, req) ==
    LET more == [rd EXCEPT !.buf = @ \o bytes]
    IN  IF TooMuchWire(more) THEN Failed(more, "Protocol") ELSE Digest(more, req)

\* A mutant of AtEof: a connection that ends ends the body.
EofEndsBody(rd) == [rd EXCEPT !.result = IF rd.phase = "headers" THEN "Protocol" ELSE "ok"]

\* recv returned 0: the end of a body without framing, an error anywhere else.
AtEof(rd) == [rd EXCEPT !.result = IF rd.phase = "close" THEN "ok" ELSE "Protocol"]

(***************************************************************************)
(* The pool. Every operation prunes first, under g_client_runtime_mu.      *)
(***************************************************************************)
Expired(e) == clock - e.since > IdleTtl
PruneAll(p) == [k \in Keys |-> SelectSeq(p[k], LAMBDA e : ~Expired(e))]
InPool(p) == UNION {{p[k][i].socket : i \in DOMAIN p[k]} : k \in Keys}
CloseGone(before, after, cs) ==
    [s \in Sockets |-> IF s \in InPool(before) \ InPool(after) THEN [cs[s] EXCEPT !.open = FALSE] ELSE cs[s]]

SizeOf(p) == FoldFunction(LAMBDA x, y : Len(x) + y, 0, p)

\* The oldest connections go first: of the host that is over its limit, then of any host.
RECURSIVE TrimTotal(_)
TrimTotal(p) ==
    IF SizeOf(p) <= Total THEN p
    ELSE LET k == CHOOSE x \in Keys : p[x] # <<>> IN TrimTotal([p EXCEPT ![k] = Tail(@)])

TrimHost(bucket) == IF Len(bucket) > PerHost THEN SubSeq(bucket, Len(bucket) - PerHost + 1, Len(bucket)) ELSE bucket

Released(p, k, s) ==
    TrimTotal([PruneAll(p) EXCEPT ![k] = TrimHost(Append(@, [socket |-> s, since |-> clock]))])

(***************************************************************************)
(* One request.                                                            *)
(***************************************************************************)
Go(c, place) == call' = [call EXCEPT ![c].at = place]
At(c, place) == call[c].at = place

\* A TLS connection never goes through the proxy.
Proxied(req) == req.proxy # "none" /\ ~req.tls
Peer(req) == IF Proxied(req) THEN "proxy" ELSE req.dest

RewriteProxyError(kind, req) ==
    IF Proxied(req) /\ kind \in {"Network", "Timeout", "Protocol"} THEN "Proxy" ELSE kind

\* The call returns; ScopedSocket closes the connection unless it was released.
Return(c, result, s, keep, p) ==
    /\ pool' = p
    /\ conn' = CloseGone([pool EXCEPT ![PoolKey(call[c].req)] = IF keep THEN Append(@, [socket |-> s, since |-> clock])
                                                                       ELSE @], p,
                         IF s # NoSocket /\ ~keep THEN [conn EXCEPT ![s].open = FALSE] ELSE conn)
    /\ call' = [call EXCEPT ![c].at = "returned", ![c].out = result, ![c].sock = NoSocket]
    /\ UNCHANGED <<jobs, done, clock, closed>>

Fail(c, kind) == Return(c, RewriteProxyError(kind, call[c].req), call[c].sock, FALSE, pool)

\* A request for https leaves to the TLS backend, which has a connection of its own and no pool.
SendBegin(c) ==
    /\ At(c, "idle") /\ done[c] < Len(jobs[c])
    /\ call' = [call EXCEPT ![c] = [at |-> IF jobs[c][done[c] + 1].tls THEN "connect" ELSE "acquire",
                                    req |-> jobs[c][done[c] + 1], sock |-> NoSocket, rd |-> NewReader, out |-> Nobody]]
    /\ UNCHANGED <<jobs, pool, conn, done, clock, closed>>

\* AcquirePooledSocket: the connection that was returned last.
Acquire(c) ==
    /\ At(c, "acquire")
    /\ LET k == PoolKey(call[c].req)
           p == PruneAll(pool)
       IN  /\ pool' = IF p[k] = <<>> THEN p ELSE [p EXCEPT ![k] = Front(@)]
           /\ conn' = CloseGone(pool, p, conn)
           /\ call' = [call EXCEPT ![c].at = IF p[k] = <<>> THEN "connect" ELSE "send",
                                   ![c].sock = IF p[k] = <<>> THEN NoSocket ELSE Last(p[k]).socket]
    /\ UNCHANGED <<jobs, done, clock, closed>>

\* ConnectWithResolvedEndpoints: an endpoint answered, or the last one failed or timed out.
Connect(c) ==
    /\ At(c, "connect")
    /\ \E s \in Sockets :
        /\ \A t \in Sockets : conn[t].peer = Nobody <=> t >= s
        /\ conn' = [conn EXCEPT ![s] = [open |-> TRUE, peerOpen |-> TRUE, peer |-> Peer(call[c].req), dest |-> Nobody,
                                        inbound |-> <<>>, asked |-> <<>>]]
        /\ call' = [call EXCEPT ![c].sock = s,
                                ![c].at = IF call[c].req.proxy = "socks5" /\ ~call[c].req.tls THEN "tunnel" ELSE "send"]
    /\ UNCHANGED <<jobs, pool, done, clock, closed>>

ConnectFails(c) == At(c, "connect") /\ \E kind \in {"Network", "Timeout"} : Fail(c, kind)

\* EstablishSocks5NoAuthTunnel on a fresh connection: the proxy connects it to the destination, or refuses.
Tunnel(c) ==
    /\ At(c, "tunnel") /\ conn[call[c].sock].peerOpen
    /\ conn' = [conn EXCEPT ![call[c].sock].dest = call[c].req.dest]
    /\ Go(c, "send")
    /\ UNCHANGED <<jobs, pool, done, clock, closed>>

TunnelFails(c) == At(c, "tunnel") /\ Fail(c, "Proxy")

\* SendAll: the whole request is written. A peer that has gone makes it fail now, or only the answer is missing.
Write(c) ==
    /\ At(c, "send")
    /\ conn' = [conn EXCEPT ![call[c].sock].asked = IF conn[call[c].sock].peerOpen
                                                    THEN Append(@, [of |-> <<c, done[c]>>, req |-> call[c].req])
                                                    ELSE @]
    /\ Go(c, "read")
    /\ UNCHANGED <<jobs, pool, done, clock, closed>>

WriteFails(c) ==
    /\ At(c, "send")
    /\ \/ ~conn[call[c].sock].peerOpen /\ Fail(c, "Network")
       \/ call[c].req.impatient /\ Fail(c, "Timeout")

Recv(c) ==
    /\ At(c, "read") /\ call[c].rd.result = Nobody
    /\ LET s == call[c].sock
       IN  \/ \E n \in 1..Len(conn[s].inbound) :
                /\ call' = [call EXCEPT ![c].rd = Received(@, SubSeq(conn[s].inbound, 1, n), call[c].req)]
                /\ conn' = [conn EXCEPT ![s].inbound = SubSeq(@, n + 1, Len(@))]
           \/ /\ conn[s].inbound = <<>> /\ ~conn[s].peerOpen
              /\ call' = [call EXCEPT ![c].rd = AtEof(@)]
              /\ UNCHANGED conn
    /\ UNCHANGED <<jobs, pool, done, clock, closed>>

\* The peer is silent for too long, or the total deadline of the request has come.
RecvTimeout(c) == At(c, "read") /\ call[c].rd.result = Nobody /\ call[c].req.impatient /\ Fail(c, "Timeout")

ReadFails(c) ==
    /\ At(c, "read") /\ call[c].rd.result \notin {Nobody, "ok"}
    /\ Fail(c, call[c].rd.result)

\* Kept alive: the peer does not say close, and the response had a length of its own.
KeepAlive(a) == ~a.close /\ a.framing \in {"length", "chunked"}

\* ReleasePooledSocket, under its lock; a TLS connection is closed with its session.
Finish(c) ==
    /\ At(c, "read") /\ call[c].rd.result = "ok"
    /\ LET keep == KeepAlive(call[c].rd.head.answer) /\ ~call[c].req.tls
       IN  Return(c, "ok", call[c].sock, keep,
                  IF keep THEN Released(pool, PoolKey(call[c].req), call[c].sock) ELSE pool)

NextJob(c) ==
    /\ At(c, "returned")
    /\ done' = [done EXCEPT ![c] = @ + 1]
    /\ Go(c, "idle")
    /\ UNCHANGED <<jobs, pool, conn, clock, closed>>

(***************************************************************************)
(* The peer, and time.                                                     *)
(***************************************************************************)
Token(kind, r, a, n) == [t |-> kind, of |-> r, answer |-> a, n |-> n]
Bytes(r, a, n) == [i \in 1..n |-> Token("b", r, a, i)]

\* What a peer sends for an answer: a conforming one sends no body for HEAD and statuses without one.
Wire(a, r, req) ==
    LET head == <<Token("head", r, a, 0)>>
        body == CASE a.framing = "chunked" ->
                       FlattenSeq([i \in DOMAIN a.chunks |->
                           <<Token("size", r, a, a.chunks[i])>>
                           \o Bytes(r, a, a.chunks[i]) \o <<Token("crlf", r, a, 0)>>])
                       \o <<Token("size", r, a, 0), Token("trailer", r, a, 0), Token("end", r, a, 0)>>
                  [] OTHER -> Bytes(r, a, a.length)
    IN  [i \in 1..a.interims |-> Token("head", r, [a EXCEPT !.status = "interim"], 0)]
        \o head \o (IF req.head \/ a.status # "final" THEN <<>> ELSE body)

PeerAnswers(s) ==
    /\ conn[s].asked # <<>> /\ conn[s].peerOpen /\ conn[s].inbound = <<>>
    /\ \E a \in Head(conn[s].asked).req.answers :
        conn' = [conn EXCEPT ![s].inbound = Wire(a, Head(conn[s].asked).of, Head(conn[s].asked).req), ![s].asked = Tail(@),
                             ![s].peerOpen = ~(a.close \/ (a.framing = "close" /\ a.status = "final"))]
    /\ UNCHANGED <<jobs, pool, call, done, clock, closed>>

\* The peer goes away, idle or in the middle of a response.
PeerCloses(s) ==
    /\ conn[s].open /\ conn[s].peerOpen /\ closed < MaxClosed
    /\ \E n \in 0..Len(conn[s].inbound) :
        conn' = [conn EXCEPT ![s].peerOpen = FALSE, ![s].inbound = SubSeq(@, 1, n), ![s].asked = <<>>]
    /\ closed' = closed + 1
    /\ UNCHANGED <<jobs, pool, call, done, clock>>

Tick == clock < MaxClock /\ clock' = clock + 1 /\ UNCHANGED <<jobs, pool, conn, call, done, closed>>

Finished == \A c \in Callers : At(c, "idle") /\ done[c] = Len(jobs[c])

\* ~Client: ClearClientRuntime closes what the pool holds.
Destroy ==
    /\ Finished
    /\ pool' = [k \in Keys |-> <<>>]
    /\ conn' = CloseGone(pool, pool', conn)
    /\ UNCHANGED <<jobs, call, done, clock, closed>>

Init ==
    /\ jobs \in JobSets
    /\ pool = [k \in Keys |-> <<>>]
    /\ conn = [s \in Sockets |-> [open |-> FALSE, peerOpen |-> FALSE, peer |-> Nobody, dest |-> Nobody,
                                  inbound |-> <<>>, asked |-> <<>>]]
    /\ call = [c \in Callers |-> [at |-> "idle", req |-> Nobody, sock |-> NoSocket, rd |-> NewReader, out |-> Nobody]]
    /\ done = [c \in Callers |-> 0]
    /\ clock = 0 /\ closed = 0

Request(c) ==
    \/ SendBegin(c) \/ Acquire(c) \/ Connect(c) \/ ConnectFails(c) \/ Tunnel(c) \/ TunnelFails(c)
    \/ Write(c) \/ WriteFails(c) \/ Recv(c) \/ RecvTimeout(c) \/ ReadFails(c) \/ Finish(c) \/ NextJob(c)

Next ==
    \/ \E c \in Callers : Request(c)
    \/ \E s \in Sockets : PeerAnswers(s) \/ PeerCloses(s)
    \/ Tick \/ Destroy

Spec == Init /\ [][Next]_vars

\* A request that succeeds got its own response from the peer it was meant for, whole when the
\* response has a length, however the bytes arrived and whoever used the connection before;
\* what the stream callback saw is the body.
ResponseBelongs ==
    \A c \in Callers :
        LET rd == call[c].rd
            req == call[c].req
            a == rd.head.answer
        IN  /\ (At(c, "read") /\ req.proxy = "socks5" /\ ~req.tls) => conn[call[c].sock].dest = req.dest
            /\ At(c, "read") => conn[call[c].sock].peer = Peer(req)
            /\ (At(c, "returned") /\ call[c].out = "ok") =>
                 /\ \A x \in {rd.head} \cup ToSet(rd.body) : x.of = <<c, done[c]>>
                 /\ (a.framing # "close" /\ a.status = "final" /\ ~req.head) => Len(rd.body) = a.length
                 /\ (req.accepts # Deaf /\ ~(req.follow /\ a.redirect)) => rd.streamed = rd.body

\* Every open connection is pooled once or held by one request; a pooled one belongs to its key,
\* has no answer outstanding or unread, and the pool respects both limits.
PoolSound ==
    /\ \A s \in Sockets :
        conn[s].open => Cardinality({c \in Callers : call[c].sock = s})
                          + Cardinality({<<k, i>> \in Keys \X (1..PerHost) : i \in DOMAIN pool[k] /\ pool[k][i].socket = s}) = 1
    /\ \A k \in Keys :
        /\ Len(pool[k]) <= PerHost
        /\ \A i \in DOMAIN pool[k] :
            LET s == conn[pool[k][i].socket]
            IN  /\ s.open /\ s.inbound = <<>> /\ s.asked = <<>>
                /\ k[1] = "direct" => s.peer = k[2]
                /\ k[1] = "socks5" => s.dest = k[2]
    /\ SizeOf(pool) <= Total
==============================================================================
