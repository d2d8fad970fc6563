------------------------------- MODULE Pki -----------------------------------
(***************************************************************************)
(* The hybrid PKI of src/keysas_lib/src/pki.rs as its caller uses it.      *)
(* create_pki_dir and generate_root (184-214, 318-373) write the root CA:  *)
(* generate_root generates the Ed25519 and Dilithium5 key pairs with their *)
(* self-signed certificates, then writes four files in turn: the two       *)
(* PKCS#8 key files (store_keypair, 497-543) and the two PEM certificates. *)
(* Any step may fail and returns Err with `?`, leaving what was written.   *)
(* A file is Absent, or holds the output of call g, whole or truncated.    *)
(* The caller holds a CA key pair (the hk generate_root returned, or the   *)
(* two halves it loads with load_keys) and issues leaf key pairs with      *)
(* generate_signed_keypair.  A key is <<algorithm, "root" or "leaf", n>>;  *)
(* a certificate is the key it certifies, the key that signed it and the   *)
(* OID of its outer signature_algorithm.                                   *)
(***************************************************************************)
EXTENDS Naturals, Sequences, FiniteSets

CONSTANTS
    MaxCalls,     \* calls of create_pki_dir / generate_root
    MaxLeaves,    \* calls of generate_signed_keypair
    MaxSigns,     \* calls of message_sign
    CheckAlgs,    \* algorithms whose signatures IssuedVerifies checks
    FailPoints,   \* failures that may happen: SUBSET {"mkdir", "keygen", "before", "after"}
    ValidityInputs, \* validity strings the caller passes, as the numbers (< 2^31) they spell
    OverflowChecks, \* the build's overflow-checks setting (on in dev, off in release)
    Absent        \* model value: no file

\* create_pki_dir's directories, in the order it creates them (203-211).
DirOrder == <<"CA", "CA/root", "CA/st", "CA/usb", "CRL", "CERT">>

\* generate_root's files under CA/, in the order it writes them (343-370).
FileOrder == <<"root-priv-cl.p8", "root-priv-pq.p8", "root-cert-cl.pem", "root-cert-pq.pem">>

Files == {FileOrder[i] : i \in 1..Len(FileOrder)}
Calls == 1..MaxCalls
FileState == {Absent} \cup (Calls \X {"empty", "whole"})

Algs == {"cl", "pq"}
\* ED25519_OID and DILITHIUM5_OID (pki.rs:150), as each half's CSR states it.
Oid == [a \in Algs |-> IF a = "cl" THEN "ed25519" ELSE "dilithium5"]
KeyFile == [a \in Algs |-> IF a = "cl" THEN "root-priv-cl.p8" ELSE "root-priv-pq.p8"]
CertFile == [a \in Algs |-> IF a = "cl" THEN "root-cert-cl.pem" ELSE "root-cert-pq.pem"]
Keys == Algs \X {"root"} \X Calls \cup Algs \X {"leaf"} \X (1..MaxLeaves)

(* Durations are counted in units of 128 s: 60 * 60 * 24 = 128 * 675 and *)
(* 2^32 = 128 * 2^25, so a u32 number of seconds that is a whole number of *)
(* days is 128 * (d * 675 % 2^25), and the numbers stay below TLC's 2^31.  *)
UnitsPerDay == 675
U32Units == 2^25

(* validate_input_cert_fields (158-182): validity.parse::<u32>() accepts   *)
(* every number below 2^31; the country is checked and cut to two letters, *)
(* which no property tells apart.  CertificateFields are the values it     *)
(* returns Ok with.                                                        *)
CertificateFields == {[validity |-> v] : v \in ValidityInputs}

(* construct_tbs_certificate (216-221): infos.validity * 60 * 60 * 24 is a *)
(* u32 product.  Past u32::MAX it panics when overflow checks are on and   *)
(* wraps modulo 2^32 when they are off.                                    *)
Overflows(infos) == infos.validity * UnitsPerDay >= U32Units
TbsPanics(infos) == OverflowChecks /\ Overflows(infos)
DurUnits(infos) == (infos.validity * UnitsPerDay) % U32Units

(* message_sign (652-657, 777-782): the Ed25519 half signs a SHA-512      *)
(* prehash (sign_prehashed, Ed25519ph); the Dilithium5 half signs the     *)
(* message itself.                                                         *)
SignScheme == [a \in Algs |-> IF a = "cl" THEN "ed25519ph" ELSE "dilithium5"]

(* message_verify (659-665, 784-799): the Ed25519 half calls              *)
(* Keypair::verify, plain Ed25519 over the message; the Dilithium5 half    *)
(* calls the scheme's verify.  A signature verifies under the key that     *)
(* made it, in the scheme the verifier uses.                               *)
VerifyScheme == [a \in Algs |-> IF a = "cl" THEN "ed25519" ELSE "dilithium5"]
MessageVerify(k, s) == s.key = k /\ s.scheme = VerifyScheme[k[1]]

Signature == [key : Keys, scheme : {SignScheme[a] : a \in Algs}]

Cert == [key : Keys, signer : Keys, sigOid : {Oid[a] : a \in Algs},
         days : ValidityInputs, window : 0..(U32Units - 1)]

VARIABLES
    dirs,    \* directories of the PKI tree that exist
    files,   \* [Files -> FileState]
    pc,      \* "idle", "mkdir" (in create_pki_dir), "write" (in generate_root)
    idx,     \* the directory or file the call is at
    calls,   \* calls made so far; the current one is number calls
    op,      \* the last call: "none", "dir", "root"
    result,  \* what it returned: "none", "ok", "err"
    ca,      \* [Algs -> Keys \cup {Absent}]: the CA key pair the caller holds
    leaves,  \* calls of generate_signed_keypair so far
    issued,  \* history: the certificates generate_signed_keypair returned
    signed   \* history: the message signatures message_sign returned

vars == <<dirs, files, pc, idx, calls, op, result, ca, leaves, issued, signed>>

Init ==
    /\ dirs = {}
    /\ files = [f \in Files |-> Absent]
    /\ pc = "idle"
    /\ idx = 0
    /\ calls = 0
    /\ op = "none"
    /\ result = "none"
    /\ ca = [a \in Algs |-> Absent]
    /\ leaves = 0
    /\ issued = {}
    /\ signed = {}

\* Returning Err through `?`.
Fail == pc' = "idle" /\ result' = "err"

\* A panic ends the call before it returns.
Panic == pc' = "idle" /\ result' = "panic"

(* create_pki_dir (199-214): a pki_dir argument that does not name a     *)
(* directory is an Err before anything is created.                         *)
CreatePkiDir ==
    /\ pc = "idle"
    /\ calls < MaxCalls
    /\ calls' = calls + 1
    /\ op' = "dir"
    /\ \E isDir \in BOOLEAN :
       IF isDir
       THEN pc' = "mkdir" /\ idx' = 1 /\ result' = "none"
       ELSE Fail /\ UNCHANGED idx
    /\ UNCHANGED <<dirs, files, ca, leaves, issued, signed>>

(* create_dir_if_not_exist (184-189): skip an existing directory, else     *)
(* fs::create_dir(path)?.                                                  *)
MkDir ==
    /\ pc = "mkdir"
    /\ idx <= Len(DirOrder)
    /\ \/ /\ dirs' = dirs \cup {DirOrder[idx]}
          /\ idx' = idx + 1
          /\ UNCHANGED <<pc, result>>
       \/ /\ "mkdir" \in FailPoints
          /\ DirOrder[idx] \notin dirs
          /\ Fail
          /\ UNCHANGED <<dirs, idx>>
    /\ UNCHANGED <<files, calls, op, ca, leaves, issued, signed>>

\* Mutant: the directory loop steps once more after the last directory.
MkDirDoneOverrun ==
    /\ pc = "mkdir"
    /\ idx = Len(DirOrder) + 1
    /\ pc' = "idle"
    /\ result' = "ok"
    /\ idx' = idx + 1
    /\ UNCHANGED <<dirs, files, calls, op, ca, leaves, issued, signed>>

\* Every directory exists: Ok(()) (213).
MkDirDone ==
    /\ pc = "mkdir"
    /\ idx = Len(DirOrder) + 1
    /\ pc' = "idle"
    /\ result' = "ok"
    /\ UNCHANGED <<dirs, files, idx, calls, op, ca, leaves, issued, signed>>

(* generate_root (318-341): generate_root_ed25519 (254-287) builds its   *)
(* TBS certificate first, so an overflowing validity panics before        *)
(* anything else; then it and generate_root_dilithium (289-316) may fail  *)
(* before any file is written.                                             *)
GenerateRoot ==
    /\ pc = "idle"
    /\ calls < MaxCalls
    /\ calls' = calls + 1
    /\ op' = "root"
    /\ \E infos \in CertificateFields :
       \/ TbsPanics(infos) /\ Panic /\ UNCHANGED idx
       \/ /\ ~TbsPanics(infos)
          /\ \/ pc' = "write" /\ idx' = 1 /\ result' = "none"
             \/ "keygen" \in FailPoints /\ Fail /\ UNCHANGED idx
    /\ UNCHANGED <<dirs, files, ca, leaves, issued, signed>>

\* Mutant: generate_root returns Ok before the PQ certificate is written.
WriteDoneEarly ==
    /\ pc = "write"
    /\ idx = Len(FileOrder)
    /\ pc' = "idle"
    /\ result' = "ok"
    /\ ca' = [a \in Algs |-> <<a, "root", calls>>]
    /\ UNCHANGED <<dirs, files, idx, calls, op, leaves, issued, signed>>

(* Write the next file (343-370).  Creating it fails when CA/ is missing.  *)
(* A key file is encrypted (store_keypair) before write_der_file creates   *)
(* and truncates it; a certificate file is created before to_pem and       *)
(* write!.  So a failure leaves the file as it was ("before") or truncated *)
(* ("after").                                                              *)
WriteFile ==
    /\ pc = "write"
    /\ idx <= Len(FileOrder)
    /\ LET f == FileOrder[idx] IN
       \/ /\ "CA" \in dirs
          /\ files' = [files EXCEPT ![f] = <<calls, "whole">>]
          /\ idx' = idx + 1
          /\ UNCHANGED <<pc, result>>
       \/ /\ "CA" \notin dirs \/ "before" \in FailPoints
          /\ Fail
          /\ UNCHANGED <<files, idx>>
       \/ /\ "CA" \in dirs
          /\ "after" \in FailPoints
          /\ files' = [files EXCEPT ![f] = <<calls, "empty">>]
          /\ Fail
          /\ UNCHANGED idx
    /\ UNCHANGED <<dirs, calls, op, ca, leaves, issued, signed>>

\* Every file is written: Ok(hk) (372), and the caller holds hk.
WriteDone ==
    /\ pc = "write"
    /\ idx = Len(FileOrder) + 1
    /\ pc' = "idle"
    /\ result' = "ok"
    /\ ca' = [a \in Algs |-> <<a, "root", calls>>]
    /\ UNCHANGED <<dirs, files, idx, calls, op, leaves, issued, signed>>

(* load_keys (558-600 for Ed25519, 668-728 for Dilithium5): fs::read,     *)
(* parse the EncryptedPrivateKeyInfo, decrypt, decode; the classical key  *)
(* must be 32 bytes, the PQ one must carry its public key.  A whole file   *)
(* of call g gives the key of call g; a missing or truncated file is an   *)
(* Err, and the caller holds no key of that algorithm.                     *)
Load(alg) ==
    /\ pc = "idle"
    /\ op' = "load"
    /\ LET f == files[KeyFile[alg]] IN
       IF f \in Calls \X {"whole"}
       THEN ca' = [ca EXCEPT ![alg] = <<alg, "root", f[1]>>] /\ result' = "ok"
       ELSE ca' = [ca EXCEPT ![alg] = Absent] /\ result' = "err"
    /\ UNCHANGED <<dirs, files, pc, idx, calls, leaves, issued, signed>>

LoadClassic == Load("cl")
LoadPq == Load("pq")

\* generate_csr (614-650, 742-775): the key's OID and public key, signed by it.
Csr(k) == [oid |-> Oid[k[1]], key |-> k]

(* generate_cert_from_csr (417-494): the CSR's signature and subject are  *)
(* not checked (the TODOs at 423-430); its key OID picks the branch.  The *)
(* Ed25519 branch signs with the CA's classical key and labels the        *)
(* signature_algorithm DILITHIUM5_OID (462); the Dilithium branch signs   *)
(* with the CA's PQ key.  The third branch (no known OID) is not reached  *)
(* from generate_signed_keypair, whose CSRs come from generate_csr.        *)
(* The validity window is the duration construct_tbs_certificate computed *)
(* for pki_info.                                                           *)
CertFromCsr(hk, csr, infos) ==
    [key |-> csr.key,
     signer |-> IF csr.oid = Oid["cl"] THEN hk["cl"] ELSE hk["pq"],
     sigOid |-> Oid["pq"],
     days |-> infos.validity,
     window |-> DurUnits(infos)]

(* generate_signed_keypair (375-415): a fresh Ed25519 pair, its CSR and   *)
(* certificate, then a fresh Dilithium5 pair, its CSR and certificate,    *)
(* all under the CA pair the caller holds.  Sig::new, keypair or sign may *)
(* fail with `?`; nothing is written to disk either way.  The first      *)
(* certificate's construct_tbs_certificate panics on an overflowing        *)
(* validity.                                                               *)
GenerateSignedKeypair ==
    /\ pc = "idle"
    /\ leaves < MaxLeaves
    /\ \A a \in Algs : ca[a] # Absent
    /\ leaves' = leaves + 1
    /\ op' = "leaf"
    /\ \E infos \in CertificateFields :
       \/ /\ ~TbsPanics(infos)
          /\ issued' = issued \cup
                {CertFromCsr(ca, Csr(<<a, "leaf", leaves + 1>>), infos) : a \in Algs}
          /\ result' = "ok"
       \/ /\ "keygen" \in FailPoints
          /\ result' = "err"
          /\ UNCHANGED issued
       \/ /\ TbsPanics(infos)
          /\ result' = "panic"
          /\ UNCHANGED issued
    /\ UNCHANGED <<dirs, files, pc, idx, calls, ca, signed>>

(* message_sign with a half of the CA pair the caller holds, over one     *)
(* message; Sig::new and sign may fail with `?`.                           *)
MessageSign(alg) ==
    /\ pc = "idle"
    /\ ca[alg] # Absent
    /\ Cardinality(signed) < MaxSigns
    /\ op' = "sign"
    /\ \/ /\ signed' = signed \cup {[key |-> ca[alg], scheme |-> SignScheme[alg]]}
          /\ result' = "ok"
       \/ /\ "keygen" \in FailPoints
          /\ result' = "err"
          /\ UNCHANGED signed
    /\ UNCHANGED <<dirs, files, pc, idx, calls, ca, leaves, issued>>

MessageSignClassic == MessageSign("cl")
MessageSignPq == MessageSign("pq")

Next ==
    \/ CreatePkiDir \/ MkDir \/ MkDirDone
    \/ GenerateRoot \/ WriteFile \/ WriteDone
    \/ LoadClassic \/ LoadPq \/ GenerateSignedKeypair
    \/ MessageSignClassic \/ MessageSignPq

Spec == Init /\ [][Next]_vars

-----------------------------------------------------------------------------
TypeOK ==
    /\ dirs \subseteq {DirOrder[i] : i \in 1..Len(DirOrder)}
    /\ files \in [Files -> FileState]
    /\ pc \in {"idle", "mkdir", "write"}
    /\ idx \in 0..(Len(DirOrder) + 1)
    /\ calls \in 0..MaxCalls
    /\ op \in {"none", "dir", "root", "load", "leaf", "sign"}
    /\ result \in {"none", "ok", "err", "panic"}
    /\ ca \in [Algs -> Keys \cup {Absent}]
    /\ leaves \in 0..MaxLeaves
    /\ issued \subseteq Cert
    /\ signed \subseteq Signature

(* When generate_root has returned Ok, the two key files and the two      *)
(* certificates on disk are all whole and all from that call, whatever     *)
(* earlier calls failed half way and left behind (spec 3: a HybridKeyPair  *)
(* on disk is two sibling files that belong together).                     *)
OkIsComplete ==
    pc = "idle" /\ op = "root" /\ result = "ok" =>
        \A f \in Files : files[f] = <<calls, "whole">>

(* Every signature the library produces verifies when it is produced     *)
(* (spec 4.D, 54 and 215), for the algorithms in CheckAlgs:                *)
(*  - a certificate generate_signed_keypair returns verifies as the        *)
(*    verifier of a signed USB key checks it: the outer signature_algorithm *)
(*    OID selects the root certificate of that algorithm on disk, and the   *)
(*    signature verifies only under the key that certificate holds;        *)
(*  - a message signature message_sign returns verifies with               *)
(*    message_verify under the same key.                                   *)
Verifies(c) ==
    LET a == CHOOSE x \in Algs : Oid[x] = c.sigOid
        f == files[CertFile[a]]
    IN  f \in Calls \X {"whole"} /\ c.signer = <<a, "root", f[1]>>

IssuedVerifies ==
    [][/\ \A c \in issued' \ issued : c.key[1] \in CheckAlgs => Verifies(c)
       /\ \A s \in signed' \ signed : s.key[1] \in CheckAlgs => MessageVerify(s.key, s)]_vars

(* Every certificate generate_signed_keypair returns is valid for the     *)
(* validity_days of the CertificateFields it was given: its window is     *)
(* now .. now + validity days (spec 3 and 75), as construct_tbs_certificate *)
(* computes it from infos.validity.                                        *)
ValidityWindow == \A c \in issued : c.window = c.days * UnitsPerDay
=============================================================================
