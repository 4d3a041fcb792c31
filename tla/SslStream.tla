----------------------------- MODULE SslStream ------------------------------
(***************************************************************************)
(* SSL streams (ovs_modified/ovs_sgx/stream-ssl.c) over OpenSSL, or over   *)
(* the TLS enclave that replaces it (untrusted/wrapper_sgx.cpp and         *)
(* trusted/enclave.c), which has one session for the whole program.        *)
(*                                                                         *)
(* The loop that owns a stream runs it, receives once, may send, and then  *)
(* blocks in poll on the events the stream asks for.                       *)
(* A socket holds one record towards the peer.  The session library and    *)
(* the peer are modelled from what the code expects of them; every call on *)
(* a connection that was reset fails.                                      *)
(***************************************************************************)
EXTENDS Integers, Sequences, FiniteSets, SequencesExt

CONSTANTS
    Streams,       \* streams, each with its socket and peer
    SERVER,        \* the streams made by pssl_accept; the others are CLIENTs
    SGX_TLS,       \* TRUE: the enclave's session instead of OpenSSL's
    Renegotiates,  \* TRUE: peers ask to renegotiate (OpenSSL only)
    MaxSize,       \* records in a message given to ssl_send
    MaxSent,       \* records sent on a connection
    MaxIn,         \* records waiting in a socket
    MaxOpen        \* connections opened, together

VARIABLES
    state,     \* of each stream: "closed", "TCP_CONNECTING", ...
    txbuf,     \* records not yet written, <<>> for NULL
    rx_want, tx_want,
    session,   \* library session under each handle
    in, room,  \* sockets: records to read, and whether one can be written
    got,       \* records each peer received
    sent,      \* records given to ssl_send on this connection
    phase,     \* where the owner of the stream is in its loop
    events,    \* what it blocks on
    result,    \* what the last ssl_connect or ssl_recv returned
    spins,     \* history: rounds of the loop since anything happened
    opened

vars == <<state, txbuf, rx_want, tx_want, session, in, room, got, sent, phase, events, result,
          spins, opened>>

NoSession == [live |-> FALSE, hs |-> "none", fd |-> "none"]     \* NULL
NOTHING == "SSL_NOTHING"
READING == "SSL_READING"
WRITING == "SSL_WRITING"
IMMEDIATE == "poll_immediate_wake"

(* The enclave keeps one static ssl, whatever SSL pointer it is called for. *)
Handle(s) == IF SGX_TLS THEN "ssl" ELSE s
Handles == {Handle(s) : s \in Streams}

Init ==
    /\ state = [s \in Streams |-> "closed"]
    /\ txbuf = [s \in Streams |-> <<>>]
    /\ rx_want = [s \in Streams |-> NOTHING] /\ tx_want = rx_want
    /\ session = [h \in Handles |-> NoSession]
    /\ in = [s \in Streams |-> <<>>] /\ room = [s \in Streams |-> TRUE]
    /\ got = [s \in Streams |-> <<>>] /\ sent = [s \in Streams |-> 0]
    /\ phase = [s \in Streams |-> "none"] /\ events = [s \in Streams |-> {}]
    /\ result = [s \in Streams |-> "none"]
    /\ spins = [s \in Streams |-> 0] /\ opened = 0

Set(f, s, v) == [f EXCEPT ![s] = v]

-----------------------------------------------------------------------------
(* The session library.  A call works on x: the handshake, the records to  *)
(* read and whether there is room, and answers with x and a return value.  *)
Seen(h) == LET fd == session[h].fd
           IN  [hs |-> session[h].hs, in |-> in[fd], room |-> room[fd], out |-> <<>>]

First(x) == IF x.in = <<>> THEN "nothing" ELSE Head(x.in)
Reset(x) == First(x) = "reset"

(* Hello is written, the answer read: as far as it goes without blocking.  *)
Greeted(x) == IF x.hs = "hello" /\ x.room THEN [x EXCEPT !.hs = "wait", !.room = FALSE] ELSE x
Answered(x) == IF x.hs = "wait" /\ First(x) = "hs" THEN [x EXCEPT !.hs = "over", !.in = Tail(@)] ELSE x
Handshake(x) == IF Reset(x) THEN x ELSE Answered(Greeted(x))
Blocks(x) == IF x.hs = "hello" THEN WRITING ELSE READING

LibRead(x) ==
    LET y == Handshake(x)
        z == IF y.hs = "over" /\ First(y) = "renegotiate"
             THEN Handshake([y EXCEPT !.hs = "hello", !.in = Tail(@)]) ELSE y
    IN  CASE Reset(z) -> [x |-> z, ret |-> "error"]
          [] ~Reset(z) /\ z.hs # "over" -> [x |-> z, ret |-> Blocks(z)]
          [] z.hs = "over" /\ First(z) = "nothing" -> [x |-> z, ret |-> READING]
          [] z.hs = "over" /\ First(z) = "data" -> [x |-> [z EXCEPT !.in = Tail(@)], ret |-> "data"]
          [] OTHER -> [x |-> z, ret |-> "closed"]

LibWrite(x, record) ==
    LET y == Handshake(x)
    IN  CASE Reset(y) -> [x |-> y, ret |-> "error"]
          [] ~Reset(y) /\ y.hs # "over" -> [x |-> y, ret |-> Blocks(y)]
          [] y.hs = "over" /\ ~y.room -> [x |-> y, ret |-> WRITING]
          [] OTHER -> [x |-> [y EXCEPT !.room = FALSE, !.out = <<record>>], ret |-> "written"]

LibConnect(x) ==
    LET y == Handshake(x)
    IN  [x |-> y, ret |-> CASE Reset(y) -> "error"
                          [] ~Reset(y) /\ y.hs = "over" -> "connected"
                          [] OTHER -> Blocks(y)]

(* What a call leaves in the session, its socket and with its peer.        *)
Store(h, x) ==
    LET fd == session[h].fd
    IN  /\ session' = [session EXCEPT ![h].hs = x.hs]
        /\ in' = Set(in, fd, x.in) /\ room' = Set(room, fd, x.room)
        /\ got' = Set(got, fd, got[fd] \o x.out)
Progress(h, x) == x # Seen(h)

-----------------------------------------------------------------------------
(* new_ssl_stream: SSL_new and SSL_set_fd; in the enclave the new session  *)
(* takes the place of the one before.                                      *)
NewSession(s, st) ==
    /\ session' = Set(session, Handle(s), 
         [live |-> TRUE, hs |-> IF s \in SERVER THEN "wait" ELSE "hello", fd |-> s])
    /\ state' = Set(state, s, st)
    /\ txbuf' = Set(txbuf, s, <<>>)
    /\ rx_want' = Set(rx_want, s, NOTHING) /\ tx_want' = Set(tx_want, s, NOTHING)
    /\ in' = Set(in, s, <<>>) /\ room' = Set(room, s, TRUE)
    /\ got' = Set(got, s, <<>>) /\ sent' = Set(sent, s, 0)
    /\ phase' = Set(phase, s, "connect") /\ events' = Set(events, s, {})
    /\ result' = Set(result, s, "none") /\ spins' = Set(spins, s, 0)

(* ssl_open, with a connection that is made at once or later; pssl_accept. *)
Open(s) ==
    /\ state[s] = "closed" /\ opened < MaxOpen
    /\ opened' = opened + 1
    /\ \/ NewSession(s, "STATE_SSL_CONNECTING")
       \/ s \notin SERVER /\ NewSession(s, "STATE_TCP_CONNECTING")

(* ssl_close: SSL_shutdown and SSL_free; the enclave's ssl becomes NULL,   *)
(* whichever stream it was made for.                                       *)
ssl_close(s) ==
    /\ session' = Set(session, Handle(s), NoSession)
    /\ state' = Set(state, s, "closed") /\ phase' = Set(phase, s, "none")
    /\ txbuf' = Set(txbuf, s, <<>>) /\ events' = Set(events, s, {})
    /\ UNCHANGED <<rx_want, tx_want, in, room, got, sent, opened>>

(* The owner gives up, or an error made it do so.                          *)
Close(s) ==
    /\ state[s] # "closed" /\ phase[s] # "blocked"
    /\ ssl_close(s)
    /\ UNCHANGED result /\ spins' = Set(spins, s, 0)

Fail(s, how) == ssl_close(s) /\ result' = Set(result, s, how) /\ spins' = Set(spins, s, 0)
Settled == <<txbuf, rx_want, tx_want, sent, opened>>
Advance(s, to, ev) == phase' = Set(phase, s, to) /\ events' = Set(events, s, ev)
Spin(s, progress) == spins' = Set(spins, s, IF progress THEN 0 ELSE spins[s] + 1)

(* ecall_ssl_connect returns 1, ecall_ssl_accept what mbedtls returns, 0,  *)
(* on success; ssl_connect takes anything but 1 for an error.              *)
Accepted(s) == ~(SGX_TLS /\ s \in SERVER)

(* ssl_connect, and ssl_wait(STREAM_CONNECT), which calls it again.  The   *)
(* socket of a TCP_CONNECTING stream becomes writable when it is made.     *)
ssl_connect(s) ==
    LET h == Handle(s) IN
    /\ phase[s] = "connect"
    /\ \/ /\ state[s] = "STATE_TCP_CONNECTING"
          /\ \/ state' = Set(state, s, "STATE_SSL_CONNECTING") /\ UNCHANGED <<phase, events>>
             \/ Advance(s, "blocked", {WRITING}) /\ UNCHANGED state
          /\ UNCHANGED <<session, in, room, got, result, spins, Settled>>
       \/ /\ state[s] = "STATE_SSL_CONNECTING" /\ ~session[h].live
          /\ Fail(s, "EPROTO")
       \/ /\ state[s] = "STATE_SSL_CONNECTING" /\ session[h].live
          /\ \E r \in {LibConnect(Seen(h))} :
               \/ /\ r.ret = "error" \/ (r.ret = "connected" /\ ~Accepted(s))
                  /\ Fail(s, "EPROTO")
               \/ /\ r.ret # "error" /\ (r.ret = "connected" => Accepted(s))
                  /\ Store(h, r.x)
                  /\ IF r.ret = "connected"
                     THEN state' = Set(state, s, "connected") /\ Advance(s, "run", {})
                     ELSE UNCHANGED state /\ Advance(s, "blocked", {r.ret})
                  /\ Spin(s, Progress(h, r.x))
                  /\ UNCHANGED <<result, Settled>>

(* ssl_do_tx: records are written until the library wants to wait.  The    *)
(* socket has room for one, so the loop's second call, if any, blocks.     *)
(* want is left as the last call put it.  After an error both callers drop *)
(* what is left, ssl_send with a return value, ssl_run without, and the    *)
(* stream stays open.                                                      *)
Written(x, buf) ==
    LET r == LibWrite(x, Head(buf))
        more == r.ret = "written" /\ Len(buf) > 1
    IN  [x |-> r.x, ret |-> IF more THEN WRITING ELSE r.ret, n |-> IF r.ret = "written" THEN 1 ELSE 0]

Unwritten_All(buf, n) == buf
Unwritten(buf, n) == SubSeq(buf, n + 1, Len(buf))
ssl_do_tx(s, buf) ==
    LET h == Handle(s) IN
    \E w \in {Written(Seen(h), buf)} :
        /\ Store(h, w.x)
        /\ txbuf' = Set(txbuf, s, IF w.ret = "error" THEN <<>> ELSE Unwritten(buf, w.n))
        /\ tx_want' = Set(tx_want, s, IF w.ret \in {"written", "error"} THEN NOTHING ELSE w.ret)
        /\ rx_want' = IF w.x.hs # session[h].hs THEN Set(rx_want, s, NOTHING) ELSE rx_want
        /\ spins' = IF Progress(h, w.x) THEN Set(spins, s, 0) ELSE spins

(* ssl_run, at the start of every round.                                   *)
ssl_run(s) ==
    /\ phase[s] = "run"
    /\ Advance(s, "recv", {})
    /\ IF txbuf[s] = <<>> THEN UNCHANGED <<session, in, room, got, txbuf, rx_want, tx_want, spins>>
       ELSE session[Handle(s)].live /\ ssl_do_tx(s, txbuf[s])
    /\ UNCHANGED <<state, sent, result, opened>>

(* ssl_recv.  OpenSSL reports an orderly close as SSL_ERROR_ZERO_RETURN;   *)
(* from the enclave comes mbedtls's own code, which interpret_ssl_error    *)
(* does not know.                                                          *)
ResetTxWant(s, changed) == IF changed THEN Set(tx_want, s, NOTHING) ELSE tx_want
RxWant_Forgotten(ret) == NOTHING
RxWant_AsReturned(ret) == ret
RxWant(ret) == IF ret = "data" THEN NOTHING ELSE ret
ssl_recv(s) ==
    /\ phase[s] = "recv" /\ session[Handle(s)].live
    /\ LET h == Handle(s) IN
       \E r \in {LibRead(Seen(h))} :
           IF r.ret = "error" THEN Fail(s, "ECONNRESET")
           ELSE IF r.ret = "closed" THEN Fail(s, IF SGX_TLS THEN "EIO" ELSE "EOF")
           ELSE /\ Store(h, r.x)
                /\ tx_want' = ResetTxWant(s, r.x.hs # session[h].hs)
                /\ rx_want' = Set(rx_want, s, RxWant(r.ret))
                /\ Advance(s, "wait", {})
                /\ Spin(s, Progress(h, r.x))
                /\ UNCHANGED <<state, txbuf, sent, result, opened>>

(* ssl_send: a message is taken only if none is left over.                 *)
ssl_send(s) ==
    /\ phase[s] = "wait" /\ session[Handle(s)].live
    /\ txbuf[s] = <<>>
    /\ \E n \in 1 .. MaxSize :
         /\ sent[s] + n <= MaxSent
         /\ sent' = Set(sent, s, sent[s] + n)
         /\ ssl_do_tx(s, [i \in 1 .. n |-> <<s, sent[s] + i>>])
    /\ UNCHANGED <<state, phase, events, result, opened>>

(* ssl_run_wait and ssl_wait(STREAM_RECV), then poll_block.                *)
WaitEvents_RecvOnly(s) == IF rx_want[s] # NOTHING THEN {rx_want[s]} ELSE {IMMEDIATE}
WaitEvents(s) ==
    (IF tx_want[s] # NOTHING THEN {tx_want[s]} ELSE {})
        \cup (IF rx_want[s] # NOTHING THEN {rx_want[s]} ELSE {IMMEDIATE})
ssl_wait(s) ==
    /\ phase[s] = "wait"
    /\ Advance(s, "blocked", WaitEvents(s))
    /\ UNCHANGED <<state, session, in, room, got, result, spins, Settled>>

Ready(s) ==
    \/ IMMEDIATE \in events[s]
    \/ READING \in events[s] /\ in[s] # <<>>
    \/ WRITING \in events[s] /\ room[s]
Wake(s) ==
    /\ phase[s] = "blocked" /\ Ready(s)
    /\ Advance(s, IF state[s] = "connected" THEN "run" ELSE "connect", {})
    /\ UNCHANGED <<state, session, in, room, got, result, spins, Settled>>

-----------------------------------------------------------------------------
(* The peers.                                                              *)
Peer(s, record) ==
    /\ Len(in[s]) < MaxIn
    /\ in' = Set(in, s, Append(in[s], record))
    /\ spins' = Set(spins, s, 0)
    /\ UNCHANGED <<state, session, room, got, phase, events, result, Settled>>
Wired(s) == session[Handle(s)].live /\ session[Handle(s)].fd = s
Over(s) == Wired(s) /\ session[Handle(s)].hs = "over"
Quiet(s) == \A i \in DOMAIN in[s] : in[s][i] = "data"

(* It answers a hello once, and sends data, asks to renegotiate or closes  *)
(* only outside a handshake.                                               *)
PeerAnswers(s) == Wired(s) /\ session[Handle(s)].hs = "wait" /\ in[s] = <<>> /\ Peer(s, "hs")
PeerSends(s) ==
    /\ Over(s) /\ Quiet(s)
    /\ Peer(s, "data") \/ Peer(s, "close") \/ (Renegotiates /\ Peer(s, "renegotiate"))

(* The connection is reset: what it had not read is gone, and the socket   *)
(* is ready for everything.                                                *)
PeerResets(s) ==
    /\ state[s] # "closed" /\ in[s] # <<"reset">>
    /\ in' = Set(in, s, <<"reset">>) /\ room' = Set(room, s, TRUE)
    /\ spins' = Set(spins, s, 0)
    /\ UNCHANGED <<state, session, got, phase, events, result, Settled>>

(* It takes the record in the socket.                                      *)
PeerTakes(s) ==
    /\ state[s] # "closed" /\ ~room[s]
    /\ room' = Set(room, s, TRUE)
    /\ spins' = Set(spins, s, 0)
    /\ UNCHANGED <<state, session, in, got, phase, events, result, Settled>>

-----------------------------------------------------------------------------
Work(s) == ssl_connect(s) \/ ssl_run(s) \/ ssl_recv(s) \/ ssl_wait(s) \/ Wake(s)
Next == \E s \in Streams :
    \/ Open(s) \/ Close(s) \/ Work(s) \/ ssl_send(s)
    \/ PeerAnswers(s) \/ PeerSends(s) \/ PeerResets(s) \/ PeerTakes(s)

Spec == Init /\ [][Next]_vars

(* The owner's loop goes on, and peers read and answer handshakes.         *)
FairSpec == Spec /\ \A s \in Streams :
                      WF_vars(Work(s)) /\ WF_vars(PeerAnswers(s)) /\ WF_vars(PeerTakes(s))

-----------------------------------------------------------------------------
TypeOK ==
    /\ state \in [Streams -> {"closed", "STATE_TCP_CONNECTING", "STATE_SSL_CONNECTING", "connected"}]
    /\ rx_want \in [Streams -> {NOTHING, READING, WRITING}]
    /\ tx_want \in [Streams -> {NOTHING, READING, WRITING}]
    /\ phase \in [Streams -> {"none", "connect", "run", "recv", "wait", "blocked"}]
    /\ \A s \in Streams : events[s] \subseteq {READING, WRITING, IMMEDIATE}

(* The peer of a connection receives the records sent on that connection,  *)
(* each once and in order, and what is in txbuf follows without a gap:     *)
(* through partial writes, blocked writes and renegotiations.  Nothing     *)
(* else is missing unless the connection was reset, when ssl_run drops     *)
(* what it could not write and leaves the stream open (stream-ssl.c:       *)
(* 644-708).                                                               *)
OwnPeer ==
    \A s \in Streams : state[s] = "connected" =>
        LET all == [i \in 1 .. sent[s] |-> <<s, i>>]
        IN  /\ IsPrefix(got[s] \o txbuf[s], all)
            /\ in[s] # <<"reset">> => got[s] \o txbuf[s] = all

CouldRead(s) ==
    LET x == Seen(Handle(s))
    IN  IF state[s] # "connected" THEN LibConnect(x).x # x ELSE LibRead(x).x # x
CouldWrite(s) ==
    LET x == Seen(Handle(s))
    IN  state[s] = "connected" /\ txbuf[s] # <<>> /\ LibWrite(x, Head(txbuf[s])).x # x

(* A stream never sleeps through what it waits for: if it is blocked in    *)
(* poll although SSL_read or the handshake could go on, an event it polls  *)
(* for is ready (the deadlock of the comment at stream-ssl.c:71-142).      *)
ReadsAwake ==
    \A s \in Streams :
        phase[s] = "blocked" /\ Wired(s) /\ CouldRead(s) => Ready(s)

(* The same of SSL_read, the handshake and SSL_write, as long as no peer   *)
(* renegotiates.                                                           *)
NotAsleep ==
    \A s \in Streams :
        phase[s] = "blocked" /\ Wired(s) /\ (CouldRead(s) \/ CouldWrite(s)) => Ready(s)

(* Nor does it run round its loop for nothing: at most once after the last *)
(* thing that happened to it (the livelock of the same comment).           *)
NoLivelock == \A s \in Streams : spins[s] <= 1

(* What ssl_send took is written out, or dropped when the connection has   *)
(* been reset or the stream is closed.                                     *)
Flushed == \A s \in Streams : txbuf[s] # <<>> ~> txbuf[s] = <<>>

(* "some OpenSSL functions assumes 0/1 retval only" (wrapper_sgx.cpp:      *)
(* 330-334): a handshake that the library completed is not an error.       *)
HandshakeAccepted ==
    [][\A s \in Streams : result'[s] = "EPROTO" /\ result[s] # "EPROTO" =>
          ~(Wired(s) /\ LibConnect(Seen(Handle(s))).ret = "connected")]_vars

(* "PolarSSL read/write functions work as OpenSSL analogues"               *)
(* (wrapper_sgx.cpp:365): an orderly close is the end of the stream.       *)
CloseIsEnd == \A s \in Streams : result[s] # "EIO"
=============================================================================
