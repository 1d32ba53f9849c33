--------------------------- MODULE CertificateFiles ---------------------------
(***************************************************************************)
(* UObjectDelivererCertificateGenerator: a certificate, its private key    *)
(* and a note of its public key, written to files of a directory.  Calls   *)
(* may run on several threads, each for files of its own; the umask under  *)
(* which a key file is created is that of the whole process.               *)
(*                                                                         *)
(* A key pair is the number of its generation.  A write that fails leaves  *)
(* the file as it was or only a part of it; a delete does not fail.        *)
(***************************************************************************)
EXTENDS Naturals

CONSTANTS
    CertNames,       \* the names for which certificates are generated
    NoFile,          \* stands for a file that does not exist
    Torn,            \* stands for a file that was written in part
    MaxPairs         \* bound: key pairs generated

(* The content of a certificate: its key pair, whose certificate it names  *)
(* as its issuer's, and whose key signed it.                               *)
CertificateContent == [pair : Nat, issuer : Nat, signer : Nat]

ASSUME CertificateAssumption ==
    /\ MaxPairs \in Nat
    /\ {NoFile, Torn} \cap (Nat \union CertificateContent) = {}

VARIABLES
    crtFile,        \* per name the .crt file
    keyFile,         \* per name the .key file
    keyAccess,       \* per name the access of the .key file, given at its creation
    noteFile,        \* per name the .pubkey.txt file
    umask,           \* of the process: "all" may read new files, or the "owner"
    umaskHeld,       \* whether GCertificateGeneratorUmaskCriticalSection is held
    generating,      \* per name the call that is running
    generated,       \* per name what the last call returned
    pairs            \* the number of key pairs generated

certificateFiles == <<crtFile, keyFile, keyAccess, noteFile>>
certificateVars  == <<certificateFiles, umask, umaskHeld, generating, generated, pairs>>

(* A call: where it is, what it makes, whether the certificate was saved   *)
(* and the umask to restore.                                               *)
NotGenerating == [at |-> "idle"]

CertificateInit ==
    /\ crtFile = [n \in CertNames |-> NoFile] /\ keyFile = [n \in CertNames |-> NoFile]
    /\ noteFile = [n \in CertNames |-> NoFile] /\ keyAccess = [n \in CertNames |-> "owner"]
    /\ umask = "all" /\ umaskHeld = FALSE /\ pairs = 0
    /\ generating = [n \in CertNames |-> NotGenerating]
    /\ generated  = [n \in CertNames |-> FALSE]

Whole(f) == f \notin {NoFile, Torn}

At(n, step) == generating[n].at = step

Goto(n, step) == generating' = [generating EXCEPT ![n].at = step]

Return(n, success) ==
    /\ generating' = [generating EXCEPT ![n] = NotGenerating]
    /\ generated'  = [generated EXCEPT ![n] = success]

-----------------------------------------------------------------------------
(* What is to be written.                                                  *)

GenerateSelfSigned(n) ==
    /\ At(n, "idle") /\ pairs < MaxPairs
    /\ pairs' = pairs + 1
    /\ generating' = [generating EXCEPT ![n] =
           [at |-> "save", own |-> TRUE, saved |-> FALSE, restore |-> umask,
            cert |-> [pair |-> pairs', issuer |-> pairs', signer |-> pairs']]]
    /\ UNCHANGED <<certificateFiles, umask, umaskHeld, generated>>

(* The authority's certificate is read, then its key; that of another      *)
(* call may be written between the two.                                    *)
ReadAuthority(n, ca) ==
    /\ At(n, "idle") /\ ca # n
    /\ IF keyFile[ca] # NoFile /\ Whole(crtFile[ca])
       THEN /\ generating' = [generating EXCEPT ![n] =
                   [at |-> "authority", ca |-> ca, issuer |-> crtFile[ca].pair]]
            /\ UNCHANGED generated
       ELSE Return(n, FALSE)
    /\ UNCHANGED <<certificateFiles, umask, umaskHeld, pairs>>

KeyOfAuthority(n, key) == Whole(key) /\ key = generating[n].issuer

GenerateSignedByAuthority(n) ==
    /\ At(n, "authority") /\ pairs < MaxPairs
    /\ LET key == keyFile[generating[n].ca] IN
       IF KeyOfAuthority(n, key)
       THEN /\ pairs' = pairs + 1
            /\ generating' = [generating EXCEPT ![n] =
                   [at |-> "save", own |-> FALSE, saved |-> FALSE, restore |-> umask,
                    cert |-> [pair |-> pairs', issuer |-> generating[n].issuer,
                              signer |-> key]]]
            /\ UNCHANGED generated
       ELSE Return(n, FALSE) /\ UNCHANGED pairs
    /\ UNCHANGED <<certificateFiles, umask, umaskHeld>>

(* No directory, no key pair or no certificate could be made.              *)
CannotGenerate(n) ==
    /\ At(n, "idle") \/ At(n, "authority")
    /\ Return(n, FALSE)
    /\ UNCHANGED <<certificateFiles, umask, umaskHeld, pairs>>

-----------------------------------------------------------------------------
(* The certificate.  A self-signed one that is not written ends the call.  *)

SaveCertificate(n) ==
    /\ At(n, "save")
    /\ crtFile' = [crtFile EXCEPT ![n] = generating[n].cert]
    /\ generating' = [generating EXCEPT ![n].at = "umask", ![n].saved = TRUE]
    /\ UNCHANGED <<keyFile, keyAccess, noteFile, umask, umaskHeld, generated, pairs>>

CertificateNotSaved(n) ==
    /\ At(n, "save")
    /\ \E left \in {crtFile[n], Torn} : crtFile' = [crtFile EXCEPT ![n] = left]
    /\ IF generating[n].own THEN Return(n, FALSE) ELSE Goto(n, "umask") /\ UNCHANGED generated
    /\ UNCHANGED <<keyFile, keyAccess, noteFile, umask, umaskHeld, pairs>>

-----------------------------------------------------------------------------
(* The key, under a umask that keeps a new file to its owner.              *)

(* Mutant: without the critical section. *)
NarrowUmaskUnlocked(n) ==
    /\ At(n, "umask")
    /\ umaskHeld' = TRUE /\ umask' = "owner"
    /\ generating' = [generating EXCEPT ![n].at = "key", ![n].restore = umask]
    /\ UNCHANGED <<certificateFiles, generated, pairs>>

NarrowUmask(n) ==
    /\ At(n, "umask") /\ ~umaskHeld
    /\ umaskHeld' = TRUE /\ umask' = "owner"
    /\ generating' = [generating EXCEPT ![n].at = "key", ![n].restore = umask]
    /\ UNCHANGED <<certificateFiles, generated, pairs>>

(* A file that exists keeps the access it was created with.                *)
Written(n, content) ==
    /\ keyFile' = [keyFile EXCEPT ![n] = content]
    /\ keyAccess' = [keyAccess EXCEPT ![n] = IF keyFile[n] = NoFile THEN umask ELSE @]

SaveKey(n) ==
    /\ At(n, "key")
    /\ Written(n, generating[n].cert.pair)
    /\ Goto(n, IF generating[n].saved THEN "saved" ELSE "key only")
    /\ UNCHANGED <<crtFile, noteFile, umask, umaskHeld, generated, pairs>>

KeyNotSaved(n) ==
    /\ At(n, "key")
    /\ \/ Written(n, Torn)
       \/ UNCHANGED <<keyFile, keyAccess>>
    /\ Goto(n, IF generating[n].saved THEN "certificate only" ELSE "nothing")
    /\ UNCHANGED <<crtFile, noteFile, umask, umaskHeld, generated, pairs>>

RestoreUmask(n) == umask' = generating[n].restore /\ umaskHeld' = FALSE

(* Of a certificate and its key of which one was not written the other     *)
(* does not stay.                                                          *)
RemoveTheOther(n) ==
    /\ crtFile' = [crtFile EXCEPT ![n] = IF At(n, "certificate only") THEN NoFile ELSE @]
    /\ keyFile'  = [keyFile EXCEPT ![n] = IF At(n, "key only") THEN NoFile ELSE @]

EndGeneration(n) ==
    /\ generating[n].at \in {"saved", "key only", "certificate only", "nothing"}
    /\ RestoreUmask(n)
    /\ RemoveTheOther(n)
    /\ IF At(n, "saved") /\ generating[n].own
       THEN Goto(n, "note") /\ UNCHANGED generated
       ELSE Return(n, At(n, "saved"))
    /\ UNCHANGED <<keyAccess, noteFile, pairs>>

(* The key that a hash is made of, if the file can be read as a            *)
(* certificate.                                                            *)
PublicKeyHash(file) == IF Whole(file) THEN {file.pair} ELSE {}

(* What may become of the note: with no hash or no file it stays as it is. *)
ExtractPublicKeyHash(n) ==
    {noteFile[n]} \union
    IF PublicKeyHash(crtFile[n]) = {} THEN {} ELSE PublicKeyHash(crtFile[n]) \union {Torn}

(* The note is made from the file; the call succeeds without it.           *)
SaveNote(n) ==
    /\ At(n, "note")
    /\ \E note \in ExtractPublicKeyHash(n) : noteFile' = [noteFile EXCEPT ![n] = note]
    /\ Return(n, TRUE)
    /\ UNCHANGED <<crtFile, keyFile, keyAccess, umask, umaskHeld, pairs>>

-----------------------------------------------------------------------------

CertificateNext ==
    \E n \in CertNames :
        \/ GenerateSelfSigned(n) \/ (\E ca \in CertNames : ReadAuthority(n, ca))
        \/ GenerateSignedByAuthority(n) \/ CannotGenerate(n)
        \/ SaveCertificate(n) \/ CertificateNotSaved(n)
        \/ NarrowUmask(n) \/ SaveKey(n) \/ KeyNotSaved(n)
        \/ EndGeneration(n) \/ SaveNote(n)

CertificateSpec == CertificateInit /\ [][CertificateNext]_certificateVars

-----------------------------------------------------------------------------

(* Between two calls a certificate and a key that are whole belong         *)
(* together, and after a call that succeeded there are both.               *)
PairsMatch ==
    \A n \in CertNames : At(n, "idle") =>
        /\ Whole(crtFile[n]) /\ Whole(keyFile[n]) => crtFile[n].pair = keyFile[n]
        /\ generated[n] => Whole(crtFile[n]) /\ Whole(keyFile[n])

(* No key file may be read by others than its owner.                       *)
KeysAreKept == \A n \in CertNames : keyFile[n] # NoFile => keyAccess[n] = "owner"

(* A certificate was signed with the key of the issuer it names, even if   *)
(* the authority's files were being replaced.                              *)
SignedByIssuer ==
    \A n \in CertNames : Whole(crtFile[n]) => crtFile[n].signer = crtFile[n].issuer

(* Certificates and keys match whichever writes failed, and the process's  *)
(* umask is what it was once no key is being written.                      *)
CertificatesAreSound ==
    /\ PairsMatch /\ KeysAreKept /\ SignedByIssuer
    /\ ~umaskHeld => umask = "all"

=============================================================================
