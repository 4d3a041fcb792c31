--------------------------- MODULE ControlProofs ----------------------------
(***************************************************************************)
(* Proofs about the configuration of the connections to controllers: the   *)
(* CA certificate learnt from a peer (SslBootstrap), for any number of     *)
(* processes and streams, any certificates, and with or without writes and *)
(* loads that fail; key files that are read again (SslKeys), for any       *)
(* number of generations; and which controllers there are (Controllers),   *)
(* for any targets, listeners and OpenFlow versions.                       *)
(***************************************************************************)
EXTENDS SslBootstrap, SslKeys, Controllers, TLAPS

(* The bootstrap of the CA certificate.                                    *)
LEMMA BootstrapHolds == BootstrapInit => BootstrapInv
  BY DEF BootstrapInit, BootstrapInv, BootstrapTypeOK, Verified, OneCertificate, Handshakes, OneWriter, WritesRoots,
         Untrusting, Closed, NoCert

(* While the file holds no certificate nobody trusts one.                  *)
LEMMA NobodyTrusts ==
    ASSUME BootstrapInv, file \in {"absent", "empty"}
    PROVE  /\ trusted = [p \in Processes |-> NoCert]
           /\ \A p \in Processes, s \in Streams :
                 ~(conn[p][s].at = "connected" /\ verify_peer_cert[p])
  BY CertificatesAssumption DEF BootstrapInv, BootstrapTypeOK, OneCertificate, Verified, NoCert

(* A process that is not in do_ca_cert_bootstrap may do what it likes with *)
(* its streams: those that are, and the file, are left alone.              *)
LEMMA NoTuple == \A k, s : <<>> # <<k, s>>
  OBVIOUS

LEMMA WritersKept ==
    ASSUME BootstrapInv, NEW p \in Processes, Running(p),
           file' = file, writing' = writing,
           \A q \in Processes \ {p} : conn'[q] = conn[q]
    PROVE  OneWriter' /\ WritesRoots'
<1>1. OneWriter'
  BY DEF BootstrapInv, OneWriter
<1>2. ASSUME NEW q \in Processes, NEW s \in Streams, NEW k \in {"open", "write"},
             writing'[q] = <<k, s>>
      PROVE  conn'[q][s].at = "connecting" /\ conn'[q][s].peer \in Roots
  <2>1. writing[q] = <<k, s>>
    BY <1>2
  <2>2. q # p
    BY <2>1, NoTuple DEF Running
  <2>3. conn[q][s].at = "connecting" /\ conn[q][s].peer \in Roots
    BY <2>1 DEF BootstrapInv, WritesRoots
  <2> QED
    BY <2>2, <2>3
<1>3. WritesRoots'
  BY <1>2 DEF WritesRoots
<1> QED
  BY <1>1, <1>3

(* A process that leaves do_ca_cert_bootstrap, and the file as it is.      *)
LEMMA WriterLeaves ==
    ASSUME BootstrapInv, NEW p \in Processes,
           file' = file, writing' = Set(writing, p, <<>>),
           \A q \in Processes \ {p} : conn'[q] = conn[q]
    PROVE  OneWriter' /\ WritesRoots'
<1>1. ASSUME NEW q \in Processes, NEW s, NEW k, writing'[q] = <<k, s>>
      PROVE  q # p /\ writing[q] = <<k, s>>
  <2>1. writing'[p] = <<>> /\ (q # p => writing'[q] = writing[q])
    BY DEF Set, BootstrapInv, BootstrapTypeOK
  <2> QED
    BY ONLY <2>1, <1>1, NoTuple, ZenonT(30)
<1>2. OneWriter'
  BY <1>1 DEF BootstrapInv, OneWriter
<1>3. ASSUME NEW q \in Processes, NEW s \in Streams, NEW k \in {"open", "write"},
             writing'[q] = <<k, s>>
      PROVE  conn'[q][s].at = "connecting" /\ conn'[q][s].peer \in Roots
  <2>1. conn[q][s].at = "connecting" /\ conn[q][s].peer \in Roots
    BY <1>1, <1>3 DEF BootstrapInv, WritesRoots
  <2> QED
    BY <1>1, <1>3, <2>1, ZenonT(30)
<1>4. WritesRoots'
  BY <1>3, ZenonT(30) DEF WritesRoots
<1> QED
  BY <1>2, <1>4

(* stream_ssl_set_ca_cert_file__ changes only what a process believes: it  *)
(* comes to trust the certificate in the file, which is the one it trusts  *)
(* already if it trusts any, or it fails and goes on trusting nobody.      *)
LEMMA SetCaCertFileStep ==
    ASSUME BootstrapInv, NEW p \in Processes, NEW b \in BOOLEAN, SetCaCertFile(p, b),
           trusted[p] = NoCert
    PROVE  /\ trusted' \in [Processes -> Roots \cup {NoCert}]
           /\ ca_cert' \in [Processes -> BOOLEAN] /\ bootstrap_ca_cert' \in [Processes -> BOOLEAN]
           /\ \A q \in Processes : trusted'[q] \in {NoCert, file}
           /\ \A q \in Processes : trusted[q] # NoCert => trusted'[q] = trusted[q]
           /\ ~ca_cert'[p] \/ bootstrap_ca_cert'[p] => trusted'[p] = NoCert
           /\ \A q \in Processes \ {p} :
                 /\ ca_cert'[q] = ca_cert[q] /\ bootstrap_ca_cert'[q] = bootstrap_ca_cert[q]
                 /\ trusted'[q] = trusted[q]
<1> USE DEF BootstrapInv, BootstrapTypeOK, OneCertificate, Set
<1>1. CASE /\ ca_cert' = Set(ca_cert, p, TRUE) /\ UNCHANGED trusted
           /\ \E v \in BOOLEAN : bootstrap_ca_cert' = Set(bootstrap_ca_cert, p, v)
  BY <1>1, ZenonT(30)
<1>2. CASE /\ ca_cert' = Set(ca_cert, p, TRUE) /\ read_cert_file
           /\ bootstrap_ca_cert' = Set(bootstrap_ca_cert, p, FALSE) /\ trusted' = Set(trusted, p, file)
  BY <1>2, ZenonT(30) DEF read_cert_file
<1>3. CASE ca_cert' = Set(ca_cert, p, TRUE) /\ UNCHANGED <<bootstrap_ca_cert, trusted>>
  BY <1>3, ZenonT(30)
<1>4. CASE trusted' = Set(trusted, p, NoCert) /\ UNCHANGED <<ca_cert, bootstrap_ca_cert>>
  BY <1>4, ZenonT(30)
<1> QED
  BY <1>1, <1>2, <1>3, <1>4, ZenonT(30) DEF SetCaCertFile

-----------------------------------------------------------------------------
(* Configuration.                                                          *)
LEMMA ConfigureStep ==
    ASSUME BootstrapInv, NEW p \in Processes, NEW b \in BOOLEAN,
           stream_ssl_set_ca_cert_file(p, b) \/ SetNone(p)
    PROVE  BootstrapInv'
<1>1. CASE stream_ssl_set_ca_cert_file(p, b)
  <2>0. trusted[p] = NoCert
    BY <1>1 DEF stream_ssl_set_ca_cert_file, BootstrapInv, Untrusting
  <2> USE <1>1, <2>0, SetCaCertFileStep DEF stream_ssl_set_ca_cert_file, BootstrapInv
  <2>1. BootstrapTypeOK'
    BY ZenonT(30) DEF BootstrapTypeOK
  <2>2. Verified' /\ OneCertificate'
    BY ZenonT(30) DEF Verified, OneCertificate
  <2>3. Handshakes'
    BY DEF Handshakes
  <2>4. OneWriter' /\ WritesRoots'
    BY WritersKept, ZenonT(30)
  <2>5. Untrusting'
    BY ZenonT(30) DEF Untrusting, Running
  <2> QED
    BY <2>1, <2>2, <2>3, <2>4, <2>5
<1>2. CASE SetNone(p)
  <2> USE <1>2 DEF SetNone, BootstrapInv, BootstrapTypeOK, Set
  <2>1. BootstrapTypeOK'
    OBVIOUS
  <2>2. Verified' /\ OneCertificate'
    BY DEF Verified, OneCertificate
  <2>3. Handshakes'
    BY ZenonT(30) DEF Handshakes
  <2>4. OneWriter' /\ WritesRoots'
    BY WritersKept, ZenonT(30)
  <2>5. Untrusting'
    BY ZenonT(30) DEF Untrusting
  <2> QED
    BY <2>1, <2>2, <2>3, <2>4, <2>5, ZenonT(30)
<1> QED
  BY <1>1, <1>2

(* A stream is opened, or an established one closed.                       *)
LEMMA OpenCloseStep ==
    ASSUME BootstrapInv, NEW p \in Processes, NEW s \in Streams,
           Close(p, s) \/ \E peer \in Roots \cup NonRoots : new_ssl_stream(p, s, peer)
    PROVE  BootstrapInv'
<1> USE DEF BootstrapInv, BootstrapTypeOK, Running
<1>1. CASE Close(p, s)
  <2> USE <1>1 DEF Close, Ends, Closed
  <2>1. BootstrapTypeOK'
    BY ZenonT(30)
  <2>2. Verified' /\ OneCertificate' /\ Handshakes'
    BY SMTT(60) DEF Verified, OneCertificate, Handshakes
  <2>3. OneWriter' /\ WritesRoots'
    BY WritersKept, SMTT(60)
  <2>4. Untrusting'
    BY ZenonT(30) DEF Untrusting
  <2> QED
    BY <2>1, <2>2, <2>3, <2>4, ZenonT(30)
<1>2. ASSUME NEW peer \in Roots \cup NonRoots, new_ssl_stream(p, s, peer)
      PROVE  BootstrapInv'
  <2> USE <1>2 DEF new_ssl_stream, VerifyMode
  <2>1. BootstrapTypeOK'
    BY ZenonT(30)
  <2>2. Verified' /\ OneCertificate'
    BY SMTT(60) DEF Verified, OneCertificate
  <2>3. Handshakes'
    BY SMTT(60) DEF Handshakes
  <2>4. OneWriter' /\ WritesRoots'
    BY WritersKept, ZenonT(30)
  <2>5. Untrusting'
    BY ZenonT(30) DEF Untrusting
  <2> QED
    BY <2>1, <2>2, <2>3, <2>4, <2>5, ZenonT(30)
<1> QED
  BY <1>1, <1>2, ZenonT(30)

(* The end of the handshake: the stream is given up, is connected with a   *)
(* peer that was verified if the process verifies any, or takes the        *)
(* certificate of a CA to the file.                                        *)
LEMMA ConnectStep ==
    ASSUME BootstrapInv, NEW p \in Processes, NEW s \in Streams, ssl_connect(p, s)
    PROVE  BootstrapInv'
<1> USE DEF BootstrapInv, BootstrapTypeOK, Running
<1>1. CASE Ends(p, s) /\ UNCHANGED writing
  <2> USE <1>1 DEF ssl_connect, Ends, Closed
  <2>1. BootstrapTypeOK'
    BY ZenonT(30)
  <2>2. Verified' /\ OneCertificate' /\ Handshakes'
    BY SMTT(60) DEF Verified, OneCertificate, Handshakes
  <2>3. OneWriter' /\ WritesRoots'
    BY WritersKept, ZenonT(30)
  <2>4. Untrusting'
    BY ZenonT(30) DEF Untrusting
  <2> QED
    BY ONLY <2>1, <2>2, <2>3, <2>4, ZenonT(30) DEF BootstrapInv
<1>2. CASE /\ conn[p][s].verify => conn[p][s].peer = trusted[p]
           /\ ~(verify_peer_cert[p] /\ ~conn[p][s].verify)
           /\ Established(p, s) /\ UNCHANGED writing
  <2> USE <1>2 DEF ssl_connect, Established
  <2>1. BootstrapTypeOK'
    <3>1. conn[p][s] \in [at : {"closed", "connecting", "connected"}, verify : BOOLEAN,
                          peer : Roots \cup NonRoots \cup {NoCert}]
      OBVIOUS
    <3>2. [conn[p][s] EXCEPT !.at = "connected"]
             \in [at : {"closed", "connecting", "connected"}, verify : BOOLEAN,
                  peer : Roots \cup NonRoots \cup {NoCert}]
      BY <3>1, ZenonT(30)
    <3>3. conn' = [conn EXCEPT ![p] = [conn[p] EXCEPT ![s] = [conn[p][s] EXCEPT !.at = "connected"]]]
      OBVIOUS
    <3> QED
      BY <3>2, <3>3, SMTT(60)
  <2>2. conn[p][s].peer # NoCert
    BY CertificatesAssumption, ZenonT(30) DEF Handshakes, NoCert
  <2>3. Verified' /\ OneCertificate' /\ Handshakes'
    BY <2>2 DEF Verified, OneCertificate, Handshakes
  <2>4. OneWriter' /\ WritesRoots'
    BY WritersKept, ZenonT(30)
  <2>5. Untrusting'
    BY ZenonT(30) DEF Untrusting
  <2> QED
    BY ONLY <2>1, <2>3, <2>4, <2>5, ZenonT(30) DEF BootstrapInv
<1>3. CASE /\ bootstrap_ca_cert[p] /\ SelfSigned(conn[p][s].peer)
           /\ writing' = Set(writing, p, <<"open", s>>) /\ UNCHANGED conn
  <2> USE <1>3 DEF ssl_connect, Set
  <2>1. BootstrapTypeOK'
    BY ZenonT(30)
  <2>2. Verified' /\ OneCertificate' /\ Handshakes'
    BY DEF Verified, OneCertificate, Handshakes
  <2>3. conn[p][s].peer \in Roots
    BY ZenonT(30) DEF Handshakes, SelfSigned
  <2>4. ASSUME NEW q \in Processes, NEW t, NEW k, writing'[q] = <<k, t>>
        PROVE  (q = p /\ k = "open" /\ t = s) \/ writing[q] = <<k, t>>
    BY <2>4, ZenonT(30)
  <2>5. OneWriter'
    <3>1. \A q \in Processes, t \in Streams :
             writing'[q] = <<"write", t>> => writing[q] = <<"write", t>>
      BY <2>4, ZenonT(30)
    <3>2. file' = file
      BY ZenonT(30)
    <3>3. OneWriter
      OBVIOUS
    <3> QED
      BY ONLY <3>1, <3>2, <3>3, SMTT(60) DEF OneWriter
  <2>6. WritesRoots'
    BY <2>3, <2>4, ZenonT(60) DEF WritesRoots
  <2>7. Untrusting'
    BY ZenonT(30) DEF Untrusting
  <2> QED
    BY ONLY <2>1, <2>2, <2>5, <2>6, <2>7, ZenonT(30) DEF BootstrapInv
<1> QED
  BY <1>1, <1>2, <1>3, ZenonT(30) DEF ssl_connect, ConnectTail

-----------------------------------------------------------------------------
(* do_ca_cert_bootstrap opens the file: O_EXCL lets one process through.   *)
LEMMA OpenStep ==
    ASSUME BootstrapInv, NEW p \in Processes, OpenExclusive(p)
    PROVE  BootstrapInv'
<1> PICK s \in Streams : writing[p] = <<"open", s>> /\
      \/ /\ file = "absent"
         /\ file' = "empty" /\ writing' = Set(writing, p, <<"write", s>>)
         /\ UNCHANGED <<ca_cert, trusted, bootstrap_ca_cert, verify_peer_cert, conn, opened>>
      \/ /\ file # "absent" /\ SetCaCertFile(p, TRUE)
         /\ Ends(p, s) /\ writing' = Set(writing, p, <<>>)
         /\ UNCHANGED <<file, verify_peer_cert, opened>>
      \/ /\ Ends(p, s) /\ writing' = Set(writing, p, <<>>)
         /\ UNCHANGED <<file, ca_cert, trusted, bootstrap_ca_cert, verify_peer_cert, opened>>
  BY ZenonT(30) DEF OpenExclusive
<1>0. trusted[p] = NoCert
  BY NoTuple DEF BootstrapInv, Untrusting
<1> USE <1>0 DEF BootstrapInv, Set
<1>1. CASE /\ file = "absent"
           /\ file' = "empty" /\ writing' = Set(writing, p, <<"write", s>>)
           /\ UNCHANGED <<ca_cert, trusted, bootstrap_ca_cert, verify_peer_cert, conn, opened>>
  <2> USE <1>1
  <2>1. BootstrapTypeOK'
    BY DEF BootstrapTypeOK
  <2>2. Verified' /\ OneCertificate' /\ Handshakes'
    BY NobodyTrusts, ZenonT(30) DEF Verified, OneCertificate, Handshakes
  <2>3. OneWriter'
    BY ZenonT(30) DEF OneWriter, BootstrapTypeOK
  <2>4. WritesRoots'
    BY SMTT(60) DEF WritesRoots, BootstrapTypeOK
  <2>5. Untrusting'
    BY ZenonT(30) DEF Untrusting, BootstrapTypeOK
  <2> QED
    BY <2>1, <2>2, <2>3, <2>4, <2>5
<1>2. CASE /\ file # "absent" /\ SetCaCertFile(p, TRUE)
           /\ Ends(p, s) /\ writing' = Set(writing, p, <<>>)
           /\ UNCHANGED <<file, verify_peer_cert, opened>>
  <2> USE <1>2, SetCaCertFileStep DEF Ends, Closed
  <2>1. BootstrapTypeOK'
    BY ZenonT(30) DEF BootstrapTypeOK
  <2>2. \A q \in Processes, t \in Streams :
           conn'[q][t] = IF q = p /\ t = s THEN Closed ELSE conn[q][t]
    BY ZenonT(30) DEF BootstrapTypeOK
  <2>3. Verified' /\ OneCertificate' /\ Handshakes'
    <3>1. OneCertificate'
      BY ZenonT(30) DEF OneCertificate
    <3>2. Verified'
      <4>1. \A q \in Processes : trusted[q] # NoCert => trusted'[q] = trusted[q]
        BY ZenonT(30)
      <4>2. Verified /\ verify_peer_cert' = verify_peer_cert
        BY ZenonT(30)
      <4>3. \A q \in Processes, t \in Streams :
               conn'[q][t].at = "connected" => conn'[q][t] = conn[q][t]
        BY ONLY <2>2, SMTT(60)
      <4> QED
        BY ONLY <4>1, <4>2, <4>3 DEF Verified
    <3>3. Handshakes'
      BY <2>2, SMTT(60) DEF Handshakes
    <3> QED
      BY <3>1, <3>2, <3>3
  <2>4. \A q \in Processes \ {p} : conn'[q] = conn[q]
    BY ZenonT(30) DEF BootstrapTypeOK
  <2>5. OneWriter' /\ WritesRoots'
    BY <2>4, WriterLeaves, ZenonT(30)
  <2>6. Untrusting'
    BY ZenonT(30) DEF Untrusting, BootstrapTypeOK
  <2> QED
    BY <2>1, <2>3, <2>5, <2>6
<1>3. CASE /\ Ends(p, s) /\ writing' = Set(writing, p, <<>>)
           /\ UNCHANGED <<file, ca_cert, trusted, bootstrap_ca_cert, verify_peer_cert, opened>>
  <2> USE <1>3 DEF Ends, Closed
  <2>1. BootstrapTypeOK'
    BY ZenonT(30) DEF BootstrapTypeOK
  <2>2. \A q \in Processes, t \in Streams :
           conn'[q][t] = IF q = p /\ t = s THEN Closed ELSE conn[q][t]
    BY ZenonT(30) DEF BootstrapTypeOK
  <2>3. Verified' /\ OneCertificate' /\ Handshakes'
    BY <2>2, SMTT(60) DEF Verified, OneCertificate, Handshakes
  <2>4. \A q \in Processes \ {p} : conn'[q] = conn[q]
    BY DEF BootstrapTypeOK
  <2>5. OneWriter' /\ WritesRoots'
    BY <2>4, WriterLeaves, ZenonT(30)
  <2>6. Untrusting'
    BY ZenonT(30) DEF Untrusting, BootstrapTypeOK
  <2> QED
    BY ONLY <2>1, <2>3, <2>5, <2>6, ZenonT(30) DEF BootstrapInv
<1> QED
  BY <1>1, <1>2, <1>3, ZenonT(30)

(* The one writer fills the file it created, or unlinks it; until then the *)
(* file was empty and nobody trusted anything.                             *)
LEMMA WriteStep ==
    ASSUME BootstrapInv, NEW p \in Processes, WriteCertificate(p)
    PROVE  BootstrapInv'
<1> PICK s \in Streams :
      /\ writing[p] = <<"write", s>>
      /\ Ends(p, s) /\ writing' = Set(writing, p, <<>>)
      /\ \/ /\ file' = conn[p][s].peer
            /\ \/ trusted' = Set(trusted, p, conn[p][s].peer)
               \/ trusted' = Set(trusted, p, NoCert)
            /\ bootstrap_ca_cert' = Set(bootstrap_ca_cert, p, FALSE)
            /\ ca_cert' = Set(ca_cert, p, TRUE)
         \/ /\ file' = "absent"
            /\ UNCHANGED <<trusted, bootstrap_ca_cert, ca_cert>>
      /\ UNCHANGED <<verify_peer_cert, opened>>
  BY ZenonT(30) DEF WriteCertificate
<1> USE DEF BootstrapInv, Set, Ends, Closed
<1>1. file = "empty" /\ conn[p][s].peer \in Roots
  BY DEF OneWriter, WritesRoots
<1>2. BootstrapTypeOK'
  BY <1>1, ZenonT(30) DEF BootstrapTypeOK
<1>3. trusted = [q \in Processes |-> NoCert]
  BY <1>1, NobodyTrusts, ZenonT(30)
<1>4. \A q \in Processes, t \in Streams : ~(conn'[q][t].at = "connected" /\ verify_peer_cert'[q])
  BY <1>1, NobodyTrusts, ZenonT(30) DEF BootstrapTypeOK
<1>5. Verified' /\ OneCertificate' /\ Handshakes'
  BY <1>3, <1>4 DEF Verified, OneCertificate, Handshakes, BootstrapTypeOK
<1>6. \A q \in Processes, t \in Streams : writing'[q] # <<"write", t>>
  BY ZenonT(60) DEF OneWriter, BootstrapTypeOK
<1>7. OneWriter'
  BY <1>6 DEF OneWriter
<1>8. WritesRoots'
  BY ZenonT(30) DEF WritesRoots, BootstrapTypeOK
<1>9. Untrusting'
  BY <1>3, ZenonT(30) DEF Untrusting, BootstrapTypeOK
<1> QED
  BY <1>2, <1>5, <1>7, <1>8, <1>9

-----------------------------------------------------------------------------
(* The invariant of the certificate, its file and the streams is inductive *)
(* (stream-ssl.c:342-499).                                                 *)
THEOREM BootstrapInductive == BootstrapSpec => []BootstrapInv
<1>1. BootstrapInv /\ [BootstrapNext]_bootstrapVars => BootstrapInv'
  <2> SUFFICES ASSUME BootstrapInv, [BootstrapNext]_bootstrapVars PROVE BootstrapInv'
    OBVIOUS
  <2>1. CASE UNCHANGED bootstrapVars
    <3> USE <2>1 DEF bootstrapVars, BootstrapInv
    <3>1. BootstrapTypeOK'
      BY ZenonT(30) DEF BootstrapTypeOK
    <3>2. Verified' /\ OneCertificate'
      BY ZenonT(30) DEF Verified, OneCertificate
    <3>3. Handshakes'
      BY ZenonT(30) DEF Handshakes
    <3>4. OneWriter' /\ WritesRoots'
      BY SMTT(60) DEF OneWriter, WritesRoots
    <3>5. Untrusting'
      BY ZenonT(30) DEF Untrusting
    <3> QED
      BY <3>1, <3>2, <3>3, <3>4, <3>5, ZenonT(30)
  <2>2. CASE BootstrapNext
    BY <2>2, ConfigureStep, OpenCloseStep, ConnectStep, OpenStep, WriteStep, ZenonT(30) DEF BootstrapNext
  <2> QED
    BY <2>1, <2>2
<1> QED
  BY <1>1, BootstrapHolds, PTL DEF BootstrapSpec

(* Processes that bootstrap at the same time end up with one certificate,  *)
(* the one in the file, or with none (stream-ssl.c:370-405).               *)
THEOREM OneCertificateTrusted == BootstrapSpec => []OneCertificate
<1>1. BootstrapInv => OneCertificate
  BY DEF BootstrapInv
<1> QED
  BY <1>1, BootstrapInductive, PTL

(* No connection completes unverified through the bootstrap race window    *)
(* (stream-ssl.c:474-499).                                                 *)
THEOREM PeersVerified == BootstrapSpec => []Verified
<1>1. BootstrapInv => Verified
  BY SMTT(60) DEF BootstrapInv
<1> QED
  BY <1>1, BootstrapInductive, PTL

-----------------------------------------------------------------------------
(* Each step of stream_ssl_set_key_and_cert, and each replacement of a     *)
(* file, keeps what Reread says of the recorded mtimes and the context.    *)
LEMMA RereadStep == ASSUME Reread, [PairNext]_pairVars PROVE Reread'
<1> USE MaxGenAssumption DEF Reread, PairLoaded, PairTypeOK, Fits, Current, Files, Unset, Never
<1>1. ASSUME NEW f \in Files, Replace(f) PROVE Reread'
  BY <1>1 DEF Replace
<1>2. CASE StatKey
  BY <1>2 DEF StatKey, Updated, Recorded
<1>3. CASE StatCertificate
  BY <1>3 DEF StatCertificate, Updated, Recorded
<1>4. CASE ReadCertificate
  BY <1>4 DEF ReadCertificate
<1>5. CASE ReadKey
  BY <1>5, ZenonT(30) DEF ReadKey
<1>6. CASE UNCHANGED pairVars
  BY <1>6 DEF pairVars
<1> QED
  BY <1>1, <1>2, <1>3, <1>4, <1>5, <1>6, ZenonT(30) DEF PairNext, Call

(* So it holds after any history of replacements and calls.                *)
THEOREM RereadInductive == PairSpec => []Reread
<1>1. PairInit => Reread
  BY MaxGenAssumption DEF PairInit, Reread, PairLoaded, PairTypeOK, Files, Fits, Current, Unset, Never
<1> QED
  BY <1>1, RereadStep, PTL DEF PairSpec

(* A call that no replacement disturbs ends with the pair that is on disk  *)
(* in the context, if it is a pair (stream-ssl.c:1138-1148).               *)
THEOREM PairAlwaysLoaded == PairSpec => []PairLoaded
<1>1. Reread => PairLoaded
  BY DEF Reread
<1> QED
  BY <1>1, RereadInductive, PTL

-----------------------------------------------------------------------------
(* The controllers of a bridge.  A controller that reconnects is the same  *)
(* one.                                                                    *)
LEMMA ReconnectKeeps ==
    ASSUME ControlTypeOK, NEW t \in Targets, Reconnect(t)
    PROVE  /\ controllers' \in [Targets -> [versions : Versions, up : BOOLEAN] \cup {None}]
           /\ \A u \in Targets : controllers'[u] # None <=> controllers[u] # None
<1>1. /\ controllers \in [Targets -> [versions : Versions, up : BOOLEAN] \cup {None}]
      /\ controllers[t] # None
  BY DEF ControlTypeOK, Reconnect
<1> PICK c \in [versions : Versions, up : BOOLEAN] : c = controllers[t]
  BY <1>1
<1> DEFINE d == [c EXCEPT !.up = ~@]
<1>2. d \in [versions : Versions, up : BOOLEAN] /\ d # None
  BY VersionsAssumption, ZenonT(30) DEF None
<1>3. controllers' = [controllers EXCEPT ![t] = d]
  BY DEF Reconnect
<1> HIDE DEF d
<1> QED
  BY <1>1, <1>2, <1>3

(* update_fail_open, called with the controllers and the mode that are to  *)
(* hold: the flow of fail-open is there only if both allow it.             *)
LEMMA FailOpenUpdated ==
    ASSUME ControlInv, NEW cs, NEW mode, update_fail_open(cs, mode)
    PROVE  /\ fail_open' = (connmgr_has_controllers(cs) /\ mode = "STANDALONE")
           /\ "fail_open" \in flows' => connmgr_has_controllers(cs) /\ mode = "STANDALONE"
           /\ flows' \subseteq flows /\ flows \subseteq flows' \cup {"fail_open"}
           /\ adding \subseteq flows' \ {"fail_open"}
  BY ZenonT(30) DEF update_fail_open, ControlInv, ControlTypeOK

LEMMA SetControllersStep ==
    ASSUME ControlInv, NEW S \in SUBSET (Targets \cup Listeners), NEW v \in Versions,
           connmgr_set_controllers(S, v)
    PROVE  ControlInv' /\ ("user" \in flows => "user" \in flows')
<1> DEFINE had == connmgr_has_controllers(controllers)
           has == connmgr_has_controllers(controllers')
<1>1. /\ controllers' = [t \in Targets |->
                           IF t \notin S THEN None
                           ELSE IF controllers[t].versions = v THEN controllers[t]
                           ELSE [versions |-> v, up |-> FALSE]]
      /\ services' = [l \in Listeners |-> IF l \in S THEN v ELSE "none"]
      /\ update_in_band_remotes(controllers', extra)
      /\ update_fail_open(controllers', fail_mode)
      /\ state' = IF had # has THEN "FLUSH" ELSE state
      /\ owed' = (owed \/ had # has)
      /\ UNCHANGED <<fail_mode, extra, adding, deleting, clogged>>
  BY ZenonT(30) DEF connmgr_set_controllers, MustFlush
<1>2. ControlTypeOK /\ Standalone /\ owed = (state = "FLUSH")
  BY SMTT(60) DEF ControlInv
<1>3. /\ fail_open' = (has /\ fail_mode = "STANDALONE")
      /\ "fail_open" \in flows' => has /\ fail_mode = "STANDALONE"
      /\ flows' \subseteq flows /\ flows \subseteq flows' \cup {"fail_open"}
      /\ adding \subseteq flows' \ {"fail_open"}
  BY <1>1, FailOpenUpdated, ZenonT(30)
<1>4. had \in BOOLEAN /\ has \in BOOLEAN
  BY ZenonT(30) DEF connmgr_has_controllers
<1>5. controllers' \in [Targets -> [versions : Versions, up : BOOLEAN] \cup {None}]
  BY <1>1, <1>2, ZenonT(30) DEF ControlTypeOK
<1>6. in_band' \in BOOLEAN
  BY <1>1, <1>2, SMTT(60) DEF update_in_band_remotes
<1> HIDE DEF had, has
<1>7. ControlTypeOK'
  BY <1>1, <1>2, <1>3, <1>4, <1>5, <1>6, ZenonT(30) DEF ControlTypeOK
<1>8. owed' = (state' = "FLUSH")
  BY <1>1, <1>2, <1>4, ZenonT(30) DEF ControlTypeOK
<1>9. Standalone'
  <2>1. (state # "FLUSH" => ("normal" \in flows <=> ~had /\ fail_mode = "STANDALONE"))
    BY <1>2, SMTT(60) DEF Standalone, had
  <2>2. /\ state' # "FLUSH" => ("normal" \in flows' <=> ~has /\ fail_mode = "STANDALONE")
        /\ "fail_open" \in flows' => has /\ fail_mode = "STANDALONE"
    BY ONLY <1>1, <1>3, <2>1, ZenonT(30)
  <2> QED
    BY <1>1, <2>2, ZenonT(30) DEF Standalone, has
<1> QED
  BY <1>1, <1>3, <1>7, <1>8, <1>9, ZenonT(30) DEF ControlInv, has

LEMMA SetFailModeStep ==
    ASSUME ControlInv, NEW mode \in {"SECURE", "STANDALONE"}, connmgr_set_fail_mode(mode)
    PROVE  ControlInv' /\ ("user" \in flows => "user" \in flows')
<1> DEFINE has == connmgr_has_controllers(controllers)
<1>1. /\ fail_mode' = mode
      /\ update_fail_open(controllers, mode)
      /\ state' = IF ~has THEN "FLUSH" ELSE state
      /\ owed' = (owed \/ ~has)
      /\ UNCHANGED <<controllers, services, extra, remotes, in_band, adding, deleting, clogged>>
  BY DEF connmgr_set_fail_mode
<1>2. ControlTypeOK /\ Standalone /\ owed = (state = "FLUSH") /\ has \in BOOLEAN
  BY ZenonT(30) DEF ControlInv, connmgr_has_controllers
<1>3. /\ fail_open' = (has /\ mode = "STANDALONE")
      /\ "fail_open" \in flows' => has /\ mode = "STANDALONE"
      /\ flows' \subseteq flows /\ flows \subseteq flows' \cup {"fail_open"}
      /\ adding \subseteq flows' \ {"fail_open"}
  BY <1>1, FailOpenUpdated
<1>4. connmgr_has_controllers(controllers') = has
  BY <1>1, ZenonT(30)
<1> HIDE DEF has
<1>5. ControlTypeOK'
  BY <1>1, <1>2, <1>3 DEF ControlTypeOK
<1>6. owed' = (state' = "FLUSH")
  BY <1>1, <1>2, ZenonT(30) DEF ControlTypeOK
<1>7. Standalone'
  <2>1. (state # "FLUSH" => ("normal" \in flows <=> ~has /\ fail_mode = "STANDALONE"))
    BY <1>2 DEF Standalone, has
  <2>2. /\ state' # "FLUSH" => ("normal" \in flows' <=> ~has /\ mode = "STANDALONE")
        /\ "fail_open" \in flows' => has /\ mode = "STANDALONE"
    BY <1>1, <1>3, <2>1
  <2> QED
    BY <1>1, <1>4, <2>2 DEF Standalone
<1> QED
  BY ONLY <1>1, <1>3, <1>4, <1>5, <1>6, <1>7, ZenonT(30) DEF ControlInv

(* Steps that leave the configuration alone.                               *)
LEMMA ConfigurationKept ==
    ASSUME ControlInv, UNCHANGED <<controllers, fail_mode, fail_open>>,
           ControlTypeOK', owed' = (state' = "FLUSH"),
           "fail_open" \in flows' => fail_open,
           state' # "FLUSH" =>
              ("normal" \in flows' <=> ~connmgr_has_controllers(controllers) /\ fail_mode = "STANDALONE")
    PROVE  ControlInv'
<1>1. connmgr_has_controllers(controllers') = connmgr_has_controllers(controllers)
  OBVIOUS
<1> QED
  BY <1>1, ZenonT(30) DEF ControlInv, Standalone

LEMMA FlushStep ==
    ASSUME ControlInv, Flush
    PROVE  ControlInv'
<1> DEFINE left == IF clogged THEN flows \cap adding ELSE {}
           deleted == clogged /\ (deleting \/ flows # left)
           alone == ~connmgr_has_controllers(controllers)
<1>1. /\ state = "FLUSH" /\ deleting' = deleted /\ UNCHANGED <<manager, clogged>>
      /\ \/ /\ flows' = Restored /\ adding' = IF clogged THEN Restored \cap {"normal"} ELSE {}
            /\ state' = "OPENFLOW" /\ owed' = FALSE
         \/ flows' = left /\ adding' = left /\ UNCHANGED <<state, owed>>
  BY DEF Flush
<1>2. ControlTypeOK /\ Standalone /\ owed = (state = "FLUSH")
  BY ZenonT(30) DEF ControlInv
<1>3. deleted \in BOOLEAN /\ left \subseteq adding /\ left \subseteq flows
  BY <1>2 DEF ControlTypeOK
<1>4. Restored = (IF alone /\ fail_mode = "STANDALONE" THEN {"normal"} ELSE {})
                 \cup (IF fail_open /\ ~Connected THEN {"fail_open"} ELSE {})
  BY DEF Restored
<1> HIDE DEF left, deleted, alone
<1>5. CASE /\ flows' = Restored /\ adding' = IF clogged THEN Restored \cap {"normal"} ELSE {}
           /\ state' = "OPENFLOW" /\ owed' = FALSE
  <2>1. ControlTypeOK'
    BY <1>1, <1>2, <1>3, <1>4, <1>5, ZenonT(30) DEF ControlTypeOK, manager
  <2>2. /\ "fail_open" \in flows' => fail_open
        /\ "normal" \in flows' <=> alone /\ fail_mode = "STANDALONE"
    BY ONLY <1>4, <1>5, ZenonT(30)
  <2> QED
    BY <1>1, <1>5, <2>1, <2>2, ConfigurationKept, ZenonT(30) DEF manager, alone
<1>6. CASE flows' = left /\ adding' = left /\ UNCHANGED <<state, owed>>
  <2>1. ControlTypeOK'
    BY <1>1, <1>2, <1>3, <1>6 DEF ControlTypeOK, manager
  <2>2. "fail_open" \notin flows'
    BY <1>2, <1>3, <1>6, SMTT(60) DEF ControlTypeOK
  <2> QED
    BY <1>1, <1>2, <1>6, <2>1, <2>2, ConfigurationKept, ZenonT(30) DEF manager
<1> QED
  BY <1>1, <1>5, <1>6, ZenonT(30)

LEMMA EvictStep ==
    ASSUME ControlInv, Evict
    PROVE  ControlInv'
<1>1. /\ state = "EVICT" /\ UNCHANGED <<manager, clogged, owed>>
      /\ flows' = flows \ ofproto_evict
      /\ deleting' = (clogged /\ (deleting \/ ofproto_evict # {}))
      /\ adding' = IF clogged THEN adding ELSE {}
      /\ state' \in {"OPENFLOW", state}
  BY DEF Evict
<1>2. ControlTypeOK /\ Standalone /\ owed = (state = "FLUSH")
  BY DEF ControlInv
<1>3. ofproto_evict \subseteq {"user"} /\ (clogged => ofproto_evict \cap adding = {})
  BY ONLY TRUE, ZenonT(30) DEF ofproto_evict
<1>4. ControlTypeOK'
  BY <1>1, <1>2, <1>3 DEF ControlTypeOK, manager
<1>5. /\ "fail_open" \in flows' => "fail_open" \in flows
      /\ "normal" \in flows' <=> "normal" \in flows
  BY <1>1, <1>3
<1>6. "fail_open" \in flows => fail_open
  BY ZenonT(30) DEF ControlInv, Standalone
<1> QED
  BY <1>1, <1>2, <1>4, <1>5, <1>6, ConfigurationKept DEF manager, Standalone

(* The other steps of the main loop.                                       *)
LEMMA MainLoopStep ==
    ASSUME ControlInv, in_band_run \/ in_band_done \/ fail_open_run \/ handle_flow_mod
    PROVE  ControlInv' /\ ("user" \in flows => "user" \in flows')
<1>1. ControlTypeOK /\ Standalone /\ owed = (state = "FLUSH")
  BY ZenonT(30) DEF ControlInv
<1>2. /\ UNCHANGED <<controllers, services, fail_mode, fail_open, extra, remotes, state, clogged, owed>>
      /\ state = "OPENFLOW" /\ in_band' \in BOOLEAN /\ deleting' \in BOOLEAN
      /\ flows' \subseteq flows \cup {"in_band", "user"} \cup (IF fail_open THEN {"fail_open"} ELSE {})
      /\ flows \subseteq flows' \cup {"in_band", "fail_open"}
      /\ adding' \subseteq flows' \ {"fail_open"}
  <2>1. CASE in_band_run
    BY <1>1, <2>1, ZenonT(30) DEF in_band_run, Added, ControlTypeOK, manager
  <2>2. CASE in_band_done
    BY <1>1, <2>2, ZenonT(30) DEF in_band_done, ControlTypeOK, manager
  <2>3. CASE fail_open_run
    BY ONLY <1>1, <2>3, ZenonT(30) DEF fail_open_run, ControlTypeOK, manager
  <2>4. CASE handle_flow_mod
    BY <1>1, <2>4, ZenonT(30) DEF handle_flow_mod, Added, ControlTypeOK, manager
  <2> QED
    BY <2>1, <2>2, <2>3, <2>4, SMTT(60)
<1>3. ControlTypeOK'
  BY <1>1, <1>2 DEF ControlTypeOK
<1>4. "fail_open" \in flows' => fail_open
  BY <1>2, ZenonT(30) DEF ControlInv, Standalone
<1>5. "normal" \in flows' <=> "normal" \in flows
  BY <1>2, ZenonT(30)
<1> QED
  BY <1>1, <1>2, <1>3, <1>4, <1>5, ConfigurationKept DEF Standalone

LEMMA ControlKeeps ==
    ASSUME ControlInv, [ControlNext]_controlVars
    PROVE  ControlInv' /\ [LosesOnlyWhenDue]_controlVars
<1>1. ControlTypeOK /\ Standalone /\ owed = (state = "FLUSH")
  BY DEF ControlInv
<1>2. ASSUME ControlInv', "user" \in flows => "user" \in flows' PROVE ControlInv' /\ LosesOnlyWhenDue
  BY <1>2 DEF LosesOnlyWhenDue
<1>3. ASSUME NEW S \in SUBSET (Targets \cup Listeners), NEW v \in Versions, connmgr_set_controllers(S, v)
      PROVE  ControlInv' /\ LosesOnlyWhenDue
  BY <1>2, <1>3, SetControllersStep
<1>4. ASSUME NEW mode \in {"SECURE", "STANDALONE"}, connmgr_set_fail_mode(mode)
      PROVE  ControlInv' /\ LosesOnlyWhenDue
  BY <1>2, <1>4, SetFailModeStep
<1>5. CASE in_band_run \/ in_band_done \/ fail_open_run \/ handle_flow_mod
  BY <1>2, <1>5, MainLoopStep
<1>6. CASE Flush
  <2>1. owed
    BY <1>1, <1>6, ZenonT(30) DEF Flush
  <2> QED
    BY <1>6, <2>1, FlushStep DEF LosesOnlyWhenDue
<1>7. CASE Evict
  BY <1>7, EvictStep DEF LosesOnlyWhenDue, Evict
<1>8. ASSUME NEW t \in Targets, Reconnect(t) PROVE ControlInv' /\ LosesOnlyWhenDue
  <2>1. connmgr_has_controllers(controllers') = connmgr_has_controllers(controllers)
    BY <1>1, <1>8, ReconnectKeeps DEF connmgr_has_controllers
  <2>2. ControlTypeOK'
    BY <1>1, <1>8, ReconnectKeeps, ZenonT(30) DEF ControlTypeOK, Reconnect
  <2>3. ControlInv'
    BY <1>8, <2>1, <2>2, ZenonT(30) DEF Reconnect, ControlInv, Standalone
  <2> QED
    BY <1>2, <1>8, <2>3, ZenonT(30) DEF Reconnect
<1>9. CASE ofproto_configure_table
  <2>1. ControlTypeOK' /\ owed' = (state' = "FLUSH")
    BY <1>1, <1>9 DEF ofproto_configure_table, ControlTypeOK, manager
  <2>2. /\ UNCHANGED <<controllers, fail_mode, fail_open, flows>> /\ (state' = "FLUSH" <=> state = "FLUSH")
    BY <1>1, <1>9, ZenonT(30) DEF ofproto_configure_table, manager
  <2> QED
    BY <1>1, <1>2, <2>1, <2>2, ConfigurationKept, ZenonT(30) DEF ControlInv, Standalone
<1>10. ASSUME UNCHANGED <<controllers, fail_mode, fail_open, state, flows, owed>>, ControlTypeOK'
       PROVE  ControlInv' /\ LosesOnlyWhenDue
  BY <1>1, <1>2, <1>10, ConfigurationKept, ZenonT(30) DEF ControlInv, Standalone
<1>11. CASE \/ \E x \in BOOLEAN : connmgr_set_extra_in_band_remotes(x)
            \/ complete_operations \/ Clog \/ UNCHANGED controlVars
  <2>1. UNCHANGED <<controllers, services, fail_mode, fail_open, state, flows, owed>>
    BY <1>11 DEF connmgr_set_extra_in_band_remotes, complete_operations, Clog, controlVars, manager
  <2>2. {extra', in_band', deleting', clogged'} \subseteq BOOLEAN /\ adding' \subseteq adding
    BY <1>1, <1>11, ZenonT(30)
       DEF connmgr_set_extra_in_band_remotes, update_in_band_remotes, complete_operations, Clog,
           controlVars, manager, ControlTypeOK
  <2>3. ControlTypeOK'
    BY <1>1, <2>1, <2>2, ZenonT(30) DEF ControlTypeOK
  <2> QED
    BY ONLY <1>10, <2>1, <2>3, ZenonT(30)
<1> QED
  BY <1>3, <1>4, <1>5, <1>6, <1>7, <1>8, <1>9, <1>11 DEF ControlNext

(* The switch has its standalone flow and the flow of fail-open just when  *)
(* the configuration allows them, however the configuration changes while  *)
(* flows are flushed or evicted (connmgr.c:1662-1694, ofproto.c:1049-1057, *)
(* 1348-1356).                                                             *)
THEOREM ControlInductive == ControlSpec => []ControlInv
<1>1. ControlInit => ControlInv
  BY ZenonT(30) DEF ControlInit, ControlInv, ControlTypeOK, Standalone, connmgr_has_controllers, None
<1>2. ControlInv /\ [ControlNext]_controlVars => ControlInv'
  BY ControlKeeps
<1> QED
  BY <1>1, <1>2, PTL DEF ControlSpec

(* A controller's flows go only by eviction or by a flush that the         *)
(* configuration called for (connmgr.c:599-601, 1515-1517).                *)
THEOREM FlowsKept == ControlSpec => NoNeedlessFlush
<1>1. ControlInv /\ [ControlNext]_controlVars => [LosesOnlyWhenDue]_controlVars
  BY ControlKeeps
<1> QED
  BY <1>1, ControlInductive, PTL DEF ControlSpec, NoNeedlessFlush
=============================================================================
