------------------------------ MODULE HitmCerts ------------------------------
(***************************************************************************)
(* Certificates of hitm.  For every TLS handshake EnsureCert reads or      *)
(* makes the key and the certificate of the host, in two files, under a    *)
(* lock of the host's name.  Handshakes run concurrently; file operations  *)
(* are separate steps, writes may fail silently (the error of pem.Encode   *)
(* is dropped), a file that cannot be read, for whatever reason, is taken  *)
(* for one that is not there, and the process may end between any two.     *)
(*                                                                         *)
(* File names are host names after `clean', which maps a dot and a hyphen  *)
(* to the same character: hosts may share their files, though not their    *)
(* lock.  The root certificate is made by main before any handshake.       *)
(***************************************************************************)
EXTENDS Integers, FiniteSets

CONSTANTS
    Hosts,
    Files,
    clean,      \* the file of a host
    Shakes,     \* concurrent handshakes
    None,       \* no file, nobody
    Torn,       \* a file without a whole PEM block
    MaxMade     \* bound on the keys and certificates made, for model checking

ASSUME CleanAssumption == clean \in [Hosts -> Files] /\ MaxMade \in Nat

VARIABLES
    keyFile, certFile,
    lock,       \* CertLocks
    shake,      \* what each handshake is at
    made,       \* number of keys and certificates made: the next one's name
    answers,    \* history: what was answered: <<host, key, certificate>>
    rekeyed,    \* history: files in which a key was replaced
    spoiled     \* history: files whose certificate could not be written or read

certVars == <<keyFile, certFile, lock, shake, made, answers, rekeyed, spoiled>>

NoShake == [at |-> "idle", host |-> None, key |-> 0, cert |-> None]
Cert == [host : Hosts, key : 1..MaxMade, serial : 1..MaxMade]

ASSUME NoneAssumption ==
    /\ None # Torn /\ None \notin Shakes
    /\ {None, Torn} \cap (1..MaxMade) = {} /\ {None, Torn} \cap Cert = {}

CertsInit ==
    /\ keyFile = [f \in Files |-> None] /\ certFile = [f \in Files |-> None]
    /\ lock = [h \in Hosts |-> None]
    /\ shake = [s \in Shakes |-> NoShake]
    /\ made = 0 /\ answers = {} /\ rekeyed = {} /\ spoiled = {}

File(s) == clean[shake[s].host]
End(s) ==
    /\ shake' = [shake EXCEPT ![s] = NoShake]
    /\ lock' = [lock EXCEPT ![shake[s].host] = None]

-----------------------------------------------------------------------------
(* HandleConnect: a handshake for a host ... *)
GetCertificate(s, h) ==
    /\ shake[s].at = "idle"
    /\ shake' = [shake EXCEPT ![s] = [at |-> "lock", host |-> h, key |-> 0, cert |-> None]]
    /\ UNCHANGED <<keyFile, certFile, lock, made, answers, rekeyed, spoiled>>

(* ... and EnsureCert: the lock, *)
LockAnyway(s) ==
    /\ shake[s].at = "lock"
    /\ shake' = [shake EXCEPT ![s].at = "key"]
    /\ UNCHANGED <<keyFile, certFile, lock, made, answers, rekeyed, spoiled>>

Lock(s) ==
    /\ shake[s].at = "lock" /\ lock[shake[s].host] = None
    /\ lock' = [lock EXCEPT ![shake[s].host] = s]
    /\ shake' = [shake EXCEPT ![s].at = "key"]
    /\ UNCHANGED <<keyFile, certFile, made, answers, rekeyed, spoiled>>

(* GenOrReadPrivKey: the key in the file, an error if there is none in it,  *)
(* or, if it cannot be read or is not there, a new key and an empty file,   *)
ReadKey(s) ==
    /\ shake[s].at = "key" /\ keyFile[File(s)] # None
    /\ IF keyFile[File(s)] = Torn THEN End(s)
       ELSE /\ shake' = [shake EXCEPT ![s].at = "cert", ![s].key = keyFile[File(s)]]
            /\ UNCHANGED lock
    /\ UNCHANGED <<keyFile, certFile, made, answers, rekeyed, spoiled>>

NoKey(s) ==
    /\ shake[s].at = "key"
    /\ shake' = [shake EXCEPT ![s].at = "generate"]
    /\ UNCHANGED <<keyFile, certFile, lock, made, answers, rekeyed, spoiled>>

GenKey(s) ==
    /\ shake[s].at = "generate" /\ made < MaxMade
    /\ made' = made + 1
    /\ keyFile' = [keyFile EXCEPT ![File(s)] = Torn]
    /\ rekeyed' = IF keyFile[File(s)] = None THEN rekeyed ELSE rekeyed \cup {File(s)}
    /\ shake' = [shake EXCEPT ![s].at = "writeKey", ![s].key = made']
    /\ UNCHANGED <<certFile, lock, answers, spoiled>>

(* in which the key is written, perhaps,                                    *)
WriteKey(s, ok) ==
    /\ shake[s].at = "writeKey"
    /\ keyFile' = IF ok THEN [keyFile EXCEPT ![File(s)] = shake[s].key] ELSE keyFile
    /\ shake' = [shake EXCEPT ![s].at = "cert"]
    /\ UNCHANGED <<certFile, lock, made, answers, rekeyed, spoiled>>

(* the certificate in the file,                                             *)
ReadCert(s) ==
    /\ shake[s].at = "cert" /\ certFile[File(s)] \in Cert
    /\ shake' = [shake EXCEPT ![s].at = "answer", ![s].cert = certFile[File(s)]]
    /\ UNCHANGED <<keyFile, certFile, lock, made, answers, rekeyed, spoiled>>

(* or a new one if there is no whole one that can be read,                  *)
MakeCert(s) ==
    /\ shake[s].at = "cert" /\ made < MaxMade
    /\ spoiled' = IF certFile[File(s)] \in Cert THEN spoiled \cup {File(s)} ELSE spoiled
    /\ made' = made + 1
    /\ certFile' = [certFile EXCEPT ![File(s)] = Torn]
    /\ shake' = [shake EXCEPT ![s].at = "writeCert",
         ![s].cert = [host |-> shake[s].host, key |-> shake[s].key, serial |-> made']]
    /\ UNCHANGED <<keyFile, lock, answers, rekeyed>>

WriteCert(s, ok) ==
    /\ shake[s].at = "writeCert"
    /\ certFile' = IF ok THEN [certFile EXCEPT ![File(s)] = shake[s].cert] ELSE certFile
    /\ spoiled' = IF ok THEN spoiled ELSE spoiled \cup {File(s)}
    /\ shake' = [shake EXCEPT ![s].at = "answer"]
    /\ UNCHANGED <<keyFile, lock, made, answers, rekeyed>>

(* and the answer. *)
EnsureCert(s) ==
    /\ shake[s].at = "answer"
    /\ answers' = answers \cup {<<shake[s].host, shake[s].key, shake[s].cert>>}
    /\ End(s)
    /\ UNCHANGED <<keyFile, certFile, made, rekeyed, spoiled>>

(* A file cannot be opened or created. *)
OpenFails(s) ==
    /\ shake[s].at \in {"generate", "cert"}
    /\ End(s)
    /\ UNCHANGED <<keyFile, certFile, made, answers, rekeyed, spoiled>>

ProcessEnds ==
    /\ \E s \in Shakes : shake[s] # NoShake
    /\ shake' = [s \in Shakes |-> NoShake]
    /\ lock' = [h \in Hosts |-> None]
    /\ UNCHANGED <<keyFile, certFile, made, answers, rekeyed, spoiled>>

CertsNext ==
    \/ ProcessEnds
    \/ \E s \in Shakes :
         \/ Lock(s) \/ ReadKey(s) \/ NoKey(s) \/ GenKey(s)
         \/ ReadCert(s) \/ MakeCert(s) \/ EnsureCert(s)
         \/ OpenFails(s)
         \/ \E ok \in BOOLEAN : WriteKey(s, ok) \/ WriteCert(s, ok)
         \/ \E h \in Hosts : GetCertificate(s, h)

CertsSpec == CertsInit /\ [][CertsNext]_certVars

-----------------------------------------------------------------------------
(* Hosts whose files are their own. *)
Alone == {h \in Hosts : \A g \in Hosts \ {h} : clean[g] # clean[h]}

(* Type invariant. *)
CertsTypeOK ==
    /\ keyFile \in [Files -> {None, Torn} \cup 1..MaxMade]
    /\ \A f \in Files : certFile[f] \in {None, Torn} \cup Cert
    /\ lock \in [Hosts -> Shakes \cup {None}]
    /\ \A s \in Shakes : shake[s].key \in 0..MaxMade
    /\ made \in 0..MaxMade /\ rekeyed \cup spoiled \subseteq Files

(* Every handshake is answered with a certificate for its host and for the  *)
(* key that goes with it, whatever other handshakes do to the files, and    *)
(* whenever the process ended: for hosts that do not share their files and  *)
(* whose key was not replaced because it could not be read.                 *)
CertFits ==
    \A a \in answers : a[1] \in Alone =>
        /\ a[3].host = a[1]
        /\ clean[a[1]] \notin rekeyed => a[3].key = a[2]

(* A host shows one certificate, across handshakes and restarts, unless it  *)
(* could not be written, or read.                                           *)
OneCertPerHost ==
    \A a, b \in answers :
        a[1] = b[1] /\ a[1] \in Alone /\ clean[a[1]] \notin spoiled => a[3] = b[3]

-----------------------------------------------------------------------------
(* Handshakes of a host are answered with one certificate that fits its     *)
(* key, up to failures of its files.                                        *)
CertsMatch ==
    /\ CertsTypeOK
    /\ CertFits
    /\ OneCertPerHost
=============================================================================
