---------------------------- MODULE SslBootstrap ----------------------------
(***************************************************************************)
(* Bootstrapping the CA certificate (ovs_modified/ovs_sgx/stream-ssl.c,    *)
(* compiled without SGX_TLS): a process that is given the name of a CA     *)
(* certificate file that does not exist yet takes the certificate from the *)
(* first peer it connects to, and writes the file.  Several processes, and *)
(* several streams of each, may do so at the same time.                    *)
(***************************************************************************)
EXTENDS Integers, Sequences

CONSTANTS
    Processes,
    Streams,      \* CLIENT streams of each process
    Roots,        \* CA certificates peers may present
    NonRoots,     \* chains that do not end in a self-signed certificate
    FileFails,    \* TRUE: writing the file, or loading the store from it, may fail
    MaxStreams    \* streams opened, together

(* A certificate is neither the lack of one nor a state of its file.       *)
ASSUME CertificatesAssumption == (Roots \cup NonRoots) \cap {"none", "absent", "empty"} = {}

VARIABLES
    file,               \* the CA certificate file: "absent", "empty" or a root
    ca_cert,            \* ca_cert.read of each process
    trusted,            \* the certificate store of each ctx, "none" when empty
    bootstrap_ca_cert,
    verify_peer_cert,
    conn,               \* the streams: where they are, verify mode, peer's root
    writing,            \* the stream in do_ca_cert_bootstrap of each process
    opened

bootstrapVars == <<file, ca_cert, trusted, bootstrap_ca_cert, verify_peer_cert, conn, writing, opened>>

NoCert == "none"
Closed == [at |-> "closed", verify |-> FALSE, peer |-> NoCert]

BootstrapInit ==
    /\ file = "absent"
    /\ ca_cert = [p \in Processes |-> FALSE]
    /\ trusted = [p \in Processes |-> NoCert]
    /\ bootstrap_ca_cert = [p \in Processes |-> FALSE]
    /\ verify_peer_cert = [p \in Processes |-> TRUE]
    /\ conn = [p \in Processes |-> [s \in Streams |-> Closed]]
    /\ writing = [p \in Processes |-> <<>>]
    /\ opened = 0

Set(f, p, v) == [f EXCEPT ![p] = v]
Running(p) == writing[p] = <<>>     \* a process does one thing at a time

-----------------------------------------------------------------------------
(* read_cert_file fails on a file without a whole certificate.             *)
read_cert_file == file \in Roots

(* stream_ssl_set_ca_cert_file__, once update_ssl_config lets it through.  *)
(* If the new store cannot be loaded it stays empty.                       *)
SetCaCertFile(p, bootstrap) ==
    \/ /\ ca_cert' = Set(ca_cert, p, TRUE)
       /\ IF bootstrap /\ file = "absent"
          THEN bootstrap_ca_cert' = Set(bootstrap_ca_cert, p, TRUE) /\ UNCHANGED trusted
          ELSE IF read_cert_file
          THEN bootstrap_ca_cert' = Set(bootstrap_ca_cert, p, FALSE) /\ trusted' = Set(trusted, p, file)
          ELSE UNCHANGED <<bootstrap_ca_cert, trusted>>
    \/ /\ FileFails /\ read_cert_file
       /\ trusted' = Set(trusted, p, NoCert)
       /\ UNCHANGED <<ca_cert, bootstrap_ca_cert>>

(* stream_ssl_set_ca_cert_file, with the configuration and until it has    *)
(* gone through once; the name "none" turns verification off.  A later     *)
(* change of a file that was read is left out.                             *)
stream_ssl_set_ca_cert_file(p, bootstrap) ==
    /\ Running(p) /\ ~ca_cert[p]
    /\ SetCaCertFile(p, bootstrap)
    /\ UNCHANGED <<file, verify_peer_cert, conn, writing, opened>>
SetNone(p) ==
    /\ Running(p) /\ ~ca_cert[p]
    /\ ca_cert' = Set(ca_cert, p, TRUE)
    /\ verify_peer_cert' = Set(verify_peer_cert, p, FALSE)
    /\ UNCHANGED <<file, trusted, bootstrap_ca_cert, conn, writing, opened>>

(* new_ssl_stream: the verify mode is that of the moment.                  *)
VerifyMode(p) == verify_peer_cert[p] /\ ~bootstrap_ca_cert[p]
new_ssl_stream(p, s, peer) ==
    /\ Running(p) /\ conn[p][s].at = "closed" /\ opened < MaxStreams
    /\ ca_cert[p] \/ ~verify_peer_cert[p] \/ bootstrap_ca_cert[p]
    /\ opened' = opened + 1
    /\ conn' = [conn EXCEPT ![p][s] = [at |-> "connecting", verify |-> VerifyMode(p), peer |-> peer]]
    /\ UNCHANGED <<file, ca_cert, trusted, bootstrap_ca_cert, verify_peer_cert, writing>>

(* ssl_connect after the handshake.  A session that verifies its peer was  *)
(* checked against the store by the library.                               *)
Ends(p, s) == conn' = [conn EXCEPT ![p][s] = Closed]
Established(p, s) == conn' = [conn EXCEPT ![p][s].at = "connected"]

ConnectTail_NoWindow(p, s) == Established(p, s)
ConnectTail(p, s) ==
    IF verify_peer_cert[p] /\ ~conn[p][s].verify THEN Ends(p, s) ELSE Established(p, s)
SelfSigned_Unchecked(peer) == TRUE
SelfSigned(peer) == peer \notin NonRoots
ssl_connect(p, s) ==
    /\ Running(p) /\ conn[p][s].at = "connecting"
    /\ \/ /\ conn[p][s].verify /\ conn[p][s].peer # trusted[p]
          /\ Ends(p, s) /\ UNCHANGED writing
       \/ /\ conn[p][s].verify => conn[p][s].peer = trusted[p]
          /\ IF bootstrap_ca_cert[p]
             THEN IF SelfSigned(conn[p][s].peer)
                  THEN writing' = Set(writing, p, <<"open", s>>) /\ UNCHANGED conn
                  ELSE Ends(p, s) /\ UNCHANGED writing
             ELSE ConnectTail(p, s) /\ UNCHANGED writing
    /\ UNCHANGED <<file, ca_cert, trusted, bootstrap_ca_cert, verify_peer_cert, opened>>

(* do_ca_cert_bootstrap: open with O_EXCL.  If another process was first   *)
(* its file is read, and this connection is given up.  Open may also fail. *)
OpenExclusive_Over(p) ==
    \E s \in Streams : writing[p] = <<"open", s>>
        /\ file' = "empty" /\ writing' = Set(writing, p, <<"write", s>>)
        /\ UNCHANGED <<ca_cert, trusted, bootstrap_ca_cert, verify_peer_cert, conn, opened>>
OpenExclusive(p) ==
    \E s \in Streams : writing[p] = <<"open", s>> /\
      \/ /\ file = "absent"
         /\ file' = "empty" /\ writing' = Set(writing, p, <<"write", s>>)
         /\ UNCHANGED <<ca_cert, trusted, bootstrap_ca_cert, verify_peer_cert, conn, opened>>
      \/ /\ file # "absent"
         /\ SetCaCertFile(p, TRUE)
         /\ Ends(p, s) /\ writing' = Set(writing, p, <<>>)
         /\ UNCHANGED <<file, verify_peer_cert, opened>>
      \/ /\ FileFails
         /\ Ends(p, s) /\ writing' = Set(writing, p, <<>>)
         /\ UNCHANGED <<file, ca_cert, trusted, bootstrap_ca_cert, verify_peer_cert, opened>>

(* The certificate is written and the file closed, or it is unlinked.      *)
(* Either way this connection ends; after success the store holds it,      *)
(* unless loading it fails.                                                *)
WriteCertificate(p) ==
    \E s \in Streams :
      /\ writing[p] = <<"write", s>>
      /\ Ends(p, s) /\ writing' = Set(writing, p, <<>>)
      /\ \/ /\ file' = conn[p][s].peer
            /\ \/ trusted' = Set(trusted, p, conn[p][s].peer)
               \/ FileFails /\ trusted' = Set(trusted, p, NoCert)
            /\ bootstrap_ca_cert' = Set(bootstrap_ca_cert, p, FALSE)
            /\ ca_cert' = Set(ca_cert, p, TRUE)
         \/ /\ FileFails
            /\ file' = "absent"
            /\ UNCHANGED <<trusted, bootstrap_ca_cert, ca_cert>>
      /\ UNCHANGED <<verify_peer_cert, opened>>

Close(p, s) ==
    /\ Running(p) /\ conn[p][s].at = "connected"
    /\ Ends(p, s)
    /\ UNCHANGED <<file, ca_cert, trusted, bootstrap_ca_cert, verify_peer_cert, writing, opened>>

BootstrapNext ==
    \E p \in Processes :
      \/ \E b \in BOOLEAN : stream_ssl_set_ca_cert_file(p, b)
      \/ SetNone(p) \/ OpenExclusive(p) \/ WriteCertificate(p)
      \/ \E s \in Streams : ssl_connect(p, s) \/ Close(p, s)
                            \/ \E peer \in Roots \cup NonRoots : new_ssl_stream(p, s, peer)

BootstrapSpec == BootstrapInit /\ [][BootstrapNext]_bootstrapVars

-----------------------------------------------------------------------------
BootstrapTypeOK ==
    /\ file \in {"absent", "empty"} \cup Roots
    /\ trusted \in [Processes -> Roots \cup {NoCert}]
    /\ ca_cert \in [Processes -> BOOLEAN] /\ bootstrap_ca_cert \in [Processes -> BOOLEAN]
    /\ verify_peer_cert \in [Processes -> BOOLEAN]
    /\ writing \in [Processes -> {<<>>} \cup ({"open", "write"} \X Streams)]
    /\ conn \in [Processes -> [Streams -> [at : {"closed", "connecting", "connected"},
                                           verify : BOOLEAN,
                                           peer : Roots \cup NonRoots \cup {NoCert}]]]

(* Connections that complete while the CA certificate is being             *)
(* bootstrapped are not let in unverified: a connected stream of a process *)
(* that verifies peers has a peer of the CA that the process trusts        *)
(* (stream-ssl.c:474-499, the "bootstrap race window").                    *)
Verified ==
    \A p \in Processes, s \in Streams :
        conn[p][s].at = "connected" /\ verify_peer_cert[p]
            => conn[p][s].peer = trusted[p] /\ trusted[p] # NoCert

(* Processes that bootstrap at the same time, with writes that may fail,   *)
(* end up with one CA certificate: the one in the file                     *)
(* (stream-ssl.c:370-405).                                                 *)
OneCertificate == \A p \in Processes : trusted[p] \in {NoCert, file}

(* What makes these inductive.  A handshake is with a peer; the process    *)
(* that writes the file created it, empty, and is the only one to; and     *)
(* what it will write is the certificate of a CA; and a process trusts     *)
(* nobody until its CA certificate is set.                                 *)
Handshakes ==
    \A p \in Processes, s \in Streams :
        conn[p][s].at = "connecting" => conn[p][s].peer \in Roots \cup NonRoots
OneWriter ==
    /\ \A p \in Processes, s \in Streams : writing[p] = <<"write", s>> => file = "empty"
    /\ \A p, q \in Processes, s, t \in Streams :
          writing[p] = <<"write", s>> /\ writing[q] = <<"write", t>> => p = q
WritesRoots ==
    \A p \in Processes, s \in Streams, k \in {"open", "write"} :
        writing[p] = <<k, s>> => conn[p][s].at = "connecting" /\ conn[p][s].peer \in Roots
Untrusting ==
    \A p \in Processes :
        ~ca_cert[p] \/ bootstrap_ca_cert[p] \/ writing[p] # <<>> => trusted[p] = NoCert
BootstrapInv ==
    /\ BootstrapTypeOK /\ Verified /\ OneCertificate /\ Handshakes /\ OneWriter /\ WritesRoots
    /\ Untrusting

(* A process is not stuck half-way: unless it is bootstrapping or does not *)
(* verify, a configured process has a certificate to trust.  "Whether the  *)
(* file was successfully read" (stream-ssl.c:148) is what read says.       *)
ReadMeansRead ==
    \A p \in Processes : ca_cert[p] /\ verify_peer_cert[p] =>
        bootstrap_ca_cert[p] \/ trusted[p] # NoCert
=============================================================================
