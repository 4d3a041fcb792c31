------------------------------ MODULE SslKeys -------------------------------
(***************************************************************************)
(* Reading the private key and the certificate again when their files      *)
(* change (stream_ssl_set_key_and_cert in ovs_modified/ovs_sgx/            *)
(* stream-ssl.c, compiled without SGX_TLS).                                *)
(*                                                                         *)
(* Someone replaces the two files, one after the other in either order,    *)
(* while the main loop of the program calls the function again and again.  *)
(* Key and certificate of one generation belong together.                  *)
(***************************************************************************)
EXTENDS Integers, Sequences

CONSTANT MaxGen     \* generations of key and certificate

ASSUME MaxGenAssumption == MaxGen \in Nat \ {0}

VARIABLES
    disk,     \* generation of each file; its mtime changes with it
    config,   \* mtime recorded for each file, Never before the first time
    ctx,      \* key and certificate in the SSL context, Unset for none
    at,       \* the step of stream_ssl_set_key_and_cert the program is in
    replaced   \* history: a file was replaced since the last call began

pairVars == <<disk, config, ctx, at, replaced>>

Files == {"private_key", "certificate"}
Unset == 0
Never == 0

PairInit ==
    /\ disk = [f \in Files |-> 1]
    /\ config = [f \in Files |-> Never]
    /\ ctx = [f \in Files |-> Unset]
    /\ at = "out" /\ replaced = TRUE

(* A new generation is put in place.                                       *)
Replace(f) ==
    /\ disk[f] < MaxGen
    /\ disk' = [disk EXCEPT ![f] = @ + 1]
    /\ replaced' = TRUE
    /\ UNCHANGED <<config, ctx, at>>

(* update_ssl_config: the mtime is recorded before the file is read.       *)
Updated(f) == config[f] # disk[f]
Recorded(f) == [config EXCEPT ![f] = disk[f]]

(* The call begins with update_ssl_config(&private_key): if that says yes, *)
(* the certificate's is not asked.                                         *)
StatKey ==
    /\ at = "out"
    /\ at' = IF Updated("private_key") THEN "read" ELSE "stat"
    /\ config' = Recorded("private_key")
    /\ replaced' = FALSE
    /\ UNCHANGED <<disk, ctx>>
StatCertificate ==
    /\ at = "stat"
    /\ at' = IF Updated("certificate") THEN "read" ELSE "out"
    /\ config' = Recorded("certificate")
    /\ UNCHANGED <<disk, ctx, replaced>>

(* SSL_CTX_use_certificate_chain_file: a key that does not fit is dropped. *)
ReadCertificate_Alone ==
    /\ at = "read"
    /\ ctx' = [certificate |-> disk["certificate"],
               private_key |-> IF ctx["private_key"] = disk["certificate"] THEN disk["certificate"]
                               ELSE Unset]
    /\ at' = IF ctx["certificate"] = disk["certificate"] THEN "key" ELSE "out"
    /\ UNCHANGED <<disk, config, replaced>>
ReadCertificate ==
    /\ at = "read"
    /\ ctx' = [certificate |-> disk["certificate"],
               private_key |-> IF ctx["private_key"] = disk["certificate"] THEN disk["certificate"]
                               ELSE Unset]
    /\ at' = "key"
    /\ UNCHANGED <<disk, config, replaced>>

(* SSL_CTX_use_PrivateKey_file: a key that does not fit is refused.        *)
ReadKey ==
    /\ at = "key"
    /\ ctx' = IF disk["private_key"] = ctx["certificate"]
              THEN [ctx EXCEPT !["private_key"] = disk["private_key"]] ELSE ctx
    /\ at' = "out"
    /\ UNCHANGED <<disk, config, replaced>>

Call == StatKey \/ StatCertificate \/ ReadCertificate \/ ReadKey
PairNext == Call \/ \E f \in Files : Replace(f)
PairSpec == PairInit /\ [][PairNext]_pairVars

-----------------------------------------------------------------------------
PairTypeOK ==
    /\ disk \in [Files -> 1 .. MaxGen]
    /\ config \in [Files -> 0 .. MaxGen]
    /\ ctx \in [Files -> 0 .. MaxGen]
    /\ at \in {"out", "stat", "read", "key"}

Fits == disk["private_key"] = disk["certificate"]
Current(f) == config[f] = disk[f]

(* After a call during which no file was replaced, the context holds the   *)
(* key and the certificate on disk if they fit, however the replacements   *)
(* and earlier calls interleaved: "avoids both problems by, whenever       *)
(* either the certificate or the private key file changes, re-reading both *)
(* of them, in the correct order" (stream-ssl.c:1135-1136).                *)
PairLoaded ==
    at = "out" /\ ~replaced /\ Fits => ctx = disk

(* What a call in progress, and the one before, have left: if the recorded *)
(* mtimes are those of the files, nothing is left to read.                 *)
Reread ==
    /\ PairTypeOK
    /\ \A f \in Files : config[f] <= disk[f]
    /\ ~replaced => Current("private_key")
    /\ at = "key" /\ (Current("certificate") \/ ~replaced) => ctx["certificate"] = disk["certificate"]
    /\ at \in {"out", "stat"} /\ Current("private_key") /\ Current("certificate") /\ Fits => ctx = disk
    /\ PairLoaded
=============================================================================
