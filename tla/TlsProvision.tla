---------------------------- MODULE TlsProvision ----------------------------
(***************************************************************************)
(* How a program of TLSonSGX gets its key and certificate.                 *)
(*                                                                         *)
(* SSL_library_init (untrusted/wrapper_sgx.cpp) reads three sealed files.  *)
(* If all are there the enclave unseals them; otherwise it makes a key,    *)
(* has CA_server.c sign it, and the three files are written one after the  *)
(* other (trusted/enclave.c).  Programs and the server may be killed at    *)
(* any step and started again; what is on disk stays.                      *)
(*                                                                         *)
(* A key is its number, a certificate the number of the key it is for.     *)
(* Sealing and the server's call of openssl do not fail.                   *)
(***************************************************************************)
EXTENDS Integers, Sequences

CONSTANTS
    Programs,  \* the programs with files of their own (ovs-vswitchd, ...)
    Trusted,   \* those whose measurement the server accepts
    Faults,    \* what may go wrong, "crash", "ca", "seed", "open", "write", "parse"
    MaxKeys    \* keys generated, together

VARIABLES
    files,     \* the sealed file of each program and resource
    rs,        \* the array rs of SSL_library_init, in the same form
    pc,        \* where each program is
    enclave,   \* key, cert and cacert of each program's enclave
    backlog,   \* connections the server has not accepted yet
    ca,        \* the server: where it is, its client, the request it received
    request,   \* a signing request on its way to the server, 0 for none
    sc_cert,   \* the file sc-cert.crt in the server's directory
    keys       \* number of keys generated so far

provisionVars == <<files, rs, pc, enclave, backlog, ca, request, sc_cert, keys>>

NONE == 0
SSL_RESOURCE_CA_CERT == 0
SSL_RESOURCE_CERT == 1
SSL_RESOURCE_PK == 2
Resources == 0 .. 2     \* N_SSL_RESOURCES

(* A file is absent, empty (opened for writing, nothing flushed), cut off, *)
(* or whole; of is the key it is, or is about.                             *)
File == [is : {"absent", "empty", "cut", "whole"}, of : 0 .. MaxKeys]
Absent == [is |-> "absent", of |-> NONE]
Whole(k) == [is |-> "whole", of |-> k]

Fresh == [key |-> NONE, cert |-> NONE, cacert |-> NONE]
Reads == [i \in Resources |-> <<"read", i>>]     \* before read_ssl_resource(i)
Opens == [i \in Resources |-> <<"open", i>>]     \* before fopen of file i
Flushes == [i \in Resources |-> <<"flush", i>>]  \* file i open, nothing on disk
At(p, label) == pc[p] = <<label>>
Gone(p) == At(p, "off")

ProvisionInit ==
    /\ files = [p \in Programs |-> [r \in Resources |-> Absent]]
    /\ rs = files
    /\ pc = [p \in Programs |-> <<"off">>]
    /\ enclave = [p \in Programs |-> Fresh]
    /\ backlog = <<>>
    /\ ca = [at |-> "accept", client |-> "none", req |-> NONE]
    /\ request = NONE /\ sc_cert = NONE
    /\ keys = 0

Goto(p, next) == pc' = [pc EXCEPT ![p] = next]
Server == <<backlog, ca, request, sc_cert>>
Disk == <<files, rs>>

-----------------------------------------------------------------------------
(* ssl_init calls SSL_library_init once in the life of a process.          *)
Start(p) ==
    /\ Gone(p)
    /\ Goto(p, Reads[0])
    /\ UNCHANGED <<Disk, enclave, Server, keys>>

(* The connection of a program that is killed is reset.                    *)
Waits(conns, p) == \E i \in 1 .. Len(conns) : conns[i] = p
Without(conns, i) == [j \in 1 .. Len(conns) - 1 |-> conns[IF j < i THEN j ELSE j + 1]]
Reset(conns, p) ==
    IF Waits(conns, p) THEN Without(conns, CHOOSE i \in DOMAIN conns : conns[i] = p) ELSE conns

(* A killed program loses its enclave; a request it sent may still arrive. *)
Killed(p) ==
    /\ Goto(p, <<"off">>)
    /\ enclave' = [enclave EXCEPT ![p] = Fresh]
    /\ rs' = [rs EXCEPT ![p] = [r \in Resources |-> Absent]]
    /\ backlog' = Reset(backlog, p)
    /\ UNCHANGED <<files, ca, request, sc_cert, keys>>

Crash(p) == "crash" \in Faults /\ ~Gone(p) /\ Killed(p)

(* read_ssl_resource: "assert(n == 1)" ends the program if a file exists   *)
(* but holds no type byte.                                                 *)
read_ssl_resource(p, i) ==
    /\ pc[p] = Reads[i]
    /\ IF files[p][i].is = "empty" THEN Killed(p)
       ELSE /\ rs' = [rs EXCEPT ![p][i] = files[p][i]]
            /\ Goto(p, IF i = SSL_RESOURCE_PK THEN <<"init">> ELSE Reads[i + 1])
            /\ UNCHANGED <<files, enclave, Server, keys>>

all_ssl_resources_exist(p) == \A r \in Resources : rs[p][r].is # "absent"

Unsealed(file) == IF file.is = "whole" THEN file.of ELSE NONE

(* Failures to unseal are printed and leave the enclave without that part. *)
load_sealed_ssl_resources(p) ==
    /\ all_ssl_resources_exist(p)
    /\ enclave' = [enclave EXCEPT ![p] = [key    |-> Unsealed(rs[p][SSL_RESOURCE_PK]),
                                          cert   |-> Unsealed(rs[p][SSL_RESOURCE_CERT]),
                                          cacert |-> Unsealed(rs[p][SSL_RESOURCE_CA_CERT])]]
    /\ Goto(p, <<"ctx">>)
    /\ UNCHANGED <<rs, backlog, keys>>

(* generate_keys up to the handshake: the key is sealed into rs before     *)
(* anything is known of the server.                                        *)
GenerateKey(p) ==
    /\ ~all_ssl_resources_exist(p) /\ keys < MaxKeys
    /\ keys' = keys + 1
    /\ enclave' = [enclave EXCEPT ![p].key = keys']
    /\ rs' = [rs EXCEPT ![p][SSL_RESOURCE_PK] = Whole(keys')]
    /\ backlog' = IF ca.at = "down" THEN backlog ELSE Append(backlog, p)
    /\ Goto(p, <<"handshake">>)

(* ecall_ssl_library_init; without a seed, or a key, it returns at once    *)
(* and SSL_library_init returns 1 all the same.                            *)
ecall_ssl_library_init(p) ==
    /\ At(p, "init")
    /\ \/ load_sealed_ssl_resources(p)
       \/ GenerateKey(p)
       \/ "seed" \in Faults /\ Goto(p, <<"ctx">>) /\ UNCHANGED <<rs, enclave, backlog, keys>>
    /\ UNCHANGED <<files, ca, request, sc_cert>>

(* Every early return of generate_keys ends in SSL_library_init returning  *)
(* 1 with write_resources_to_disk still false.                             *)
Unprovisioned_WriteEarly(p) == Goto(p, Opens[0])
Unprovisioned(p) == Goto(p, <<"ctx">>)

(* mbedtls_ssl_handshake fails when the connection was refused or reset.   *)
HandshakeFails(p) ==
    /\ At(p, "handshake") /\ ~Waits(backlog, p)
    /\ Unprovisioned(p)
    /\ UNCHANGED <<Disk, enclave, Server, keys>>

(* The verdict that send_recv returned is "MOK": the request is sent.      *)
SendRequest(p) ==
    /\ At(p, "MOK")
    /\ Goto(p, <<"certificate">>)
    /\ request' = IF ca.client = p THEN enclave[p].key ELSE request
    /\ UNCHANGED <<Disk, enclave, backlog, ca, sc_cert, keys>>

(* send_recv when the connection ends: it breaks out of its loop.  Without *)
(* a verdict generate_keys returns; without a certificate strstr finds     *)
(* nothing and memcpy reads from a null pointer.                           *)
ReadFails_NoBreak(p) == FALSE /\ UNCHANGED provisionVars
ReadFails(p) ==
    /\ ca.client # p
    /\ \/ At(p, "verdict") /\ Unprovisioned(p) /\ UNCHANGED <<Disk, enclave, Server, keys>>
       \/ At(p, "certificate") /\ Killed(p)

(* The certificate parses: it and the server's are sealed and              *)
(* write_resources_to_disk is set.  cacert keeps pointing at the           *)
(* certificate of the session that is freed at the end (enclave.c:277);    *)
(* only which certificate it was is modelled.                              *)
Provisioned(p, k) ==
    \/ /\ enclave' = [enclave EXCEPT ![p].cert = k, ![p].cacert = k]
       /\ rs' = [rs EXCEPT ![p][SSL_RESOURCE_CERT] = Whole(k), ![p][SSL_RESOURCE_CA_CERT] = Whole(k)]
       /\ Goto(p, Opens[0])
    \/ "parse" \in Faults /\ Unprovisioned(p) /\ UNCHANGED <<enclave, rs>>

-----------------------------------------------------------------------------
(* The three files, in the order of rs.                                    *)
AfterFile_Late(i) == IF i > SSL_RESOURCE_PK THEN <<"ctx">> ELSE <<"open", i + 1>>
AfterFile(i) == IF i = SSL_RESOURCE_PK THEN <<"ctx">> ELSE Opens[i + 1]

(* fopen truncates; a file that cannot be opened is passed over.           *)
OpenFile(p, i) ==
    /\ pc[p] = Opens[i]
    /\ \/ /\ files' = [files EXCEPT ![p][i] = [is |-> "empty", of |-> NONE]]
          /\ Goto(p, Flushes[i])
       \/ "open" \in Faults /\ Goto(p, AfterFile(i)) /\ UNCHANGED files
    /\ UNCHANGED <<rs, enclave, Server, keys>>

(* fwrite and fclose: all of it reaches the disk, or a first part does     *)
(* before the rest, or the write fails and the loop is left.               *)
WriteFile(p, i) ==
    /\ pc[p] = Flushes[i]
    /\ \/ /\ files' = [files EXCEPT ![p][i] = rs[p][i]]
          /\ Goto(p, AfterFile(i))
       \/ /\ files[p][i].is = "empty"
          /\ files' = [files EXCEPT ![p][i] = [rs[p][i] EXCEPT !.is = "cut"]]
          /\ UNCHANGED pc
       \/ /\ "write" \in Faults
          /\ files' = [files EXCEPT ![p][i] = [rs[p][i] EXCEPT !.is = "cut"]]
          /\ Goto(p, <<"ctx">>)
    /\ UNCHANGED <<rs, enclave, Server, keys>>

(* do_ssl_init goes on to SSL_CTX_new, which copies *cacert and *cert:     *)
(* null pointers end the program.                                          *)
ecall_ssl_ctx_new(p) ==
    /\ At(p, "ctx")
    /\ IF NONE \in {enclave[p].cert, enclave[p].cacert} THEN Killed(p)
       ELSE Goto(p, <<"serving">>) /\ UNCHANGED <<Disk, enclave, Server, keys>>

-----------------------------------------------------------------------------
(* The loop of CA_server.c, one connection at a time.                      *)
Programmes == <<files, enclave, rs, keys>>
Accepting == [at |-> "accept", client |-> "none", req |-> NONE]

(* SSL_accept with the oldest connection.                                  *)
Accept ==
    /\ ca.at = "accept" /\ backlog # <<>>
    /\ ca' = [ca EXCEPT !.at = "measure", !.client = Head(backlog)]
    /\ backlog' = Tail(backlog)
    /\ Goto(Head(backlog), <<"verdict">>)
    /\ request' = NONE
    /\ UNCHANGED <<Programmes, sc_cert>>

(* A bad measurement, or none because the client is gone, is answered NOK. *)
Measure ==
    /\ ca.at = "measure"
    /\ IF At(ca.client, "verdict") /\ ca.client \in Trusted
       THEN Goto(ca.client, <<"MOK">>) /\ ca' = [ca EXCEPT !.at = "request"]
       ELSE /\ ca' = Accepting
            /\ IF At(ca.client, "verdict") THEN Unprovisioned(ca.client) ELSE UNCHANGED pc
    /\ UNCHANGED <<Programmes, backlog, request, sc_cert>>

(* The loop that reads until the buffer is not empty.  Of a client that is *)
(* gone it reads the empty string again and again.                         *)
ReadRequest ==
    /\ ca.at = "request" /\ request # NONE
    /\ ca' = [ca EXCEPT !.at = "sign", !.req = request]
    /\ request' = NONE
    /\ UNCHANGED <<Programmes, pc, backlog, sc_cert>>

(* openssl writes sc-cert.crt over what a killed server left there.        *)
Sign ==
    /\ ca.at = "sign"
    /\ sc_cert' = ca.req
    /\ ca' = [ca EXCEPT !.at = "reply"]
    /\ UNCHANGED <<Programmes, pc, backlog, request>>

(* The certificate is sent, the file removed and the connection closed.    *)
Reply ==
    /\ ca.at = "reply"
    /\ ca' = Accepting
    /\ sc_cert' = NONE
    /\ IF At(ca.client, "certificate") THEN Provisioned(ca.client, sc_cert)
                                       ELSE UNCHANGED <<pc, enclave, rs>>
    /\ UNCHANGED <<files, backlog, request, keys>>

CACrash ==
    /\ "ca" \in Faults /\ ca.at # "down"
    /\ ca' = [Accepting EXCEPT !.at = "down"]
    /\ request' = NONE /\ backlog' = <<>>
    /\ UNCHANGED <<Programmes, pc, sc_cert>>

CAStart ==
    /\ ca.at = "down"
    /\ ca' = Accepting
    /\ UNCHANGED <<Programmes, pc, backlog, request, sc_cert>>

-----------------------------------------------------------------------------
Step(p) ==
    \/ ecall_ssl_library_init(p) \/ HandshakeFails(p) \/ SendRequest(p) \/ ReadFails(p)
    \/ ecall_ssl_ctx_new(p)
    \/ \E i \in Resources : read_ssl_resource(p, i) \/ OpenFile(p, i) \/ WriteFile(p, i)
CAStep == Accept \/ Measure \/ ReadRequest \/ Sign \/ Reply

ProvisionNext ==
    \/ \E p \in Programs : Start(p) \/ Step(p) \/ Crash(p)
    \/ CAStep \/ CACrash \/ CAStart

ProvisionSpec == ProvisionInit /\ [][ProvisionNext]_provisionVars

(* A process that runs takes its next step, and so does the server.  No    *)
(* one has to start a program, or the server, again.                       *)
FairSpec == ProvisionSpec /\ (\A p \in Programs : WF_provisionVars(Step(p))) /\ WF_provisionVars(CAStep)

-----------------------------------------------------------------------------
Positions ==
    {<<"off">>, <<"init">>, <<"handshake">>, <<"verdict">>, <<"MOK">>, <<"certificate">>,
     <<"ctx">>, <<"serving">>} \cup ({"read", "open", "flush"} \X Resources)
ProvisionTypeOK ==
    /\ files \in [Programs -> [Resources -> File]]
    /\ rs \in [Programs -> [Resources -> File]]
    /\ pc \in [Programs -> Positions]
    /\ enclave \in [Programs -> [key : 0 .. MaxKeys, cert : 0 .. MaxKeys, cacert : 0 .. MaxKeys]]
    /\ backlog \in Seq(Programs)
    /\ ca \in [at : {"accept", "measure", "request", "sign", "reply", "down"},
              client : Programs \cup {"none"}, req : 0 .. MaxKeys]
    /\ request \in 0 .. MaxKeys /\ sc_cert \in 0 .. MaxKeys /\ keys \in 0 .. MaxKeys

(* A program that serves connections has a certificate, and a private key, *)
(* if it has one, that the certificate is for: whichever of the three      *)
(* files a crash left behind, those that are loaded together were made     *)
(* together (enclave.c:125-279, wrapper_sgx.cpp:174-210).                  *)
ServesOwnKey ==
    \A p \in Programs : At(p, "serving") =>
        /\ enclave[p].cert # NONE /\ enclave[p].cacert # NONE
        /\ enclave[p].key \in {NONE, enclave[p].cert}

(* Why it holds, as long as fopen can open the files.  The key is written  *)
(* last: once its file exists all three do, the certificate in them is for *)
(* that key, and no other key is ever made.                                *)
Asking == {<<"handshake">>, <<"verdict">>, <<"MOK">>, <<"certificate">>}
KeyLast(p) ==
    /\ files[p][SSL_RESOURCE_PK].is # "absent" => \A r \in Resources : files[p][r].is # "absent"
    /\ files[p][SSL_RESOURCE_PK].is = "whole" /\ files[p][SSL_RESOURCE_CERT].is = "whole"
          => files[p][SSL_RESOURCE_PK].of = files[p][SSL_RESOURCE_CERT].of
    /\ pc[p] \in Asking => files[p][SSL_RESOURCE_PK].is = "absent"
(* What a program has read, and what it is about to write.                 *)
ReadSoFar(p) ==
    /\ \A i \in Resources : pc[p] = Reads[i] => \A j \in 0 .. i - 1 : rs[p][j] = files[p][j]
    /\ At(p, "init") => rs[p] = files[p]
WrittenSoFar(p) ==
    \A i \in Resources :
        /\ pc[p] \in {Opens[i], Flushes[i]} =>
              /\ \A j \in 0 .. i - 1 : files[p][j] = Whole(enclave[p].key)
              /\ \A r \in Resources : rs[p][r] = Whole(enclave[p].key)
        /\ pc[p] = Opens[i] => files[p][SSL_RESOURCE_PK].is = "absent"
        /\ pc[p] = Flushes[i] =>
              /\ files[p][i].is \in {"empty", "cut"}
              /\ i # SSL_RESOURCE_PK => files[p][SSL_RESOURCE_PK].is = "absent"
(* What the enclave holds: nothing, a key, and then the certificate for it.*)
Holds(p) ==
    /\ pc[p] = <<"off">> \/ pc[p] = <<"init">> \/ pc[p][1] = "read" => enclave[p] = Fresh
    /\ pc[p] \in Asking => enclave[p].cert = NONE /\ enclave[p].key # NONE
                           /\ rs[p][SSL_RESOURCE_PK] = Whole(enclave[p].key)
    /\ pc[p][1] \in {"open", "flush"} => enclave[p].cert = enclave[p].key
    /\ At(p, "ctx") => enclave[p].cert = NONE \/ enclave[p].key \in {NONE, enclave[p].cert}
(* The server signs the request of the program that waits for it, also     *)
(* when an earlier life of that program left a request behind.             *)
Served(p) ==
    /\ Waits(backlog, p) => At(p, "handshake")
    /\ ca.client = p /\ At(p, "verdict") => ca.at = "measure"
    /\ ca.client = p /\ At(p, "MOK") => ca.at = "request" /\ request = NONE
    /\ ca.client = p /\ At(p, "certificate") =>
          \/ ca.at = "request" /\ request = enclave[p].key
          \/ ca.at = "sign" /\ ca.req = enclave[p].key
          \/ ca.at = "reply" /\ sc_cert = enclave[p].key
ServerInv ==
    /\ ca.at = "measure" => request = NONE
    /\ ca.at \in {"measure", "request", "sign", "reply"} => ca.client \in Programs
    /\ \A i, j \in DOMAIN backlog : backlog[i] = backlog[j] => i = j
Local(p) == KeyLast(p) /\ ReadSoFar(p) /\ WrittenSoFar(p) /\ Holds(p)
KeysInv ==
    /\ ProvisionTypeOK /\ ServesOwnKey /\ ServerInv
    /\ \A p \in Programs : Local(p) /\ Served(p)

(* A program that was started serves connections, or has ended: it is not  *)
(* left waiting for the server, whatever its measurement and also if the   *)
(* server is killed in between (enclave.c:67-100, CA_server.c:103-199).    *)
StartEnds == \A p \in Programs : pc[p] = Reads[0] ~> At(p, "serving") \/ Gone(p)

(* "assert(n == 1);" (wrapper_sgx.cpp:100): a resource that exists has a    *)
(* type byte.                                                              *)
TypeByteRead ==
    \A p \in Programs, i \in Resources : pc[p] = Reads[i] => files[p][i].is # "empty"

(* "Successfully wrote all resource to disk." (wrapper_sgx.cpp:208) is     *)
(* printed after the last file: then all three are on disk as sealed.      *)
AllWritten ==
    [][\A p \in Programs :
         pc[p] \in {Opens[SSL_RESOURCE_PK], Flushes[SSL_RESOURCE_PK]} /\ pc'[p] = <<"ctx">>
             => files'[p] = rs'[p]]_provisionVars

(* "Private key and certificate are within the enclave" (wrapper_sgx.cpp:  *)
(* 451), and SSL_CTX_check_private_key returns 1: a serving program has a  *)
(* private key for its certificate.                                        *)
PrivateKeyWithin ==
    \A p \in Programs : At(p, "serving") => enclave[p].key = enclave[p].cert /\ enclave[p].key # NONE

(* "Handle connections" (CA_server.c:99) : a client that waits for the     *)
(* handshake is accepted, or is gone, or the server is not running.        *)
ConnectionsHandled ==
    \A p \in Programs : At(p, "handshake") ~> ~At(p, "handshake")
=============================================================================
