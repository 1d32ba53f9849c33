-------------------------- MODULE SafetyOnlyProofs --------------------------
(***************************************************************************)
(* Theorems about the components that only promise safety.                 *)
(*                                                                         *)
(* Certificates and keys match, for any set of names and any number of     *)
(* calls whose writes fail.  CertificatesAreSound speaks of a name between *)
(* two calls; CallInv says what holds at each step of a call, and UmaskInv *)
(* that the umask is narrowed by one call at a time, which restores it to  *)
(* what it was.                                                            *)
(*                                                                         *)
(* The UDP receiver reports the packets of the datagrams it took since     *)
(* Start, for any senders and datagrams.  BufferInv says how what is       *)
(* buffered of an end point, the state of its rule and what was reported   *)
(* go together, and SessionInv which FSocket the thread holds.             *)
(*                                                                         *)
(* TLS connections come about as asked, for any keys, authorities and      *)
(* names and any number of calls.  PolicyInv says that each member of the  *)
(* client is what the last call that speaks of it left there.              *)
(*                                                                         *)
(* Objects arrive as JSON, whatever they refer to.  What is read of each   *)
(* property is what was written, then of each object if the nodes that its *)
(* references lead to are read right, and so of all, since a node has a    *)
(* rank, the number of objects it does not lie within, and what it refers  *)
(* to has a lower one.  JsonInv says that the message is what was written, *)
(* but for the value exchanged.                                            *)
(***************************************************************************)
EXTENDS CertificateFiles, UdpReceiver, TlsPolicy, JsonBox, Integers, TLAPS,
        FiniteSetTheorems, WellFoundedInduction

-----------------------------------------------------------------------------
(* The files of the certificate generator.                                 *)

Steps == {"save", "umask", "key", "saved", "key only", "certificate only", "nothing", "note"}

(* While a key is being written the umask is narrow. *)
Narrow == {"key", "saved", "key only", "certificate only", "nothing"}

SavingCalls ==
    [at : Steps, own : BOOLEAN, saved : BOOLEAN, restore : {"all", "owner"},
     cert : CertificateContent]

Calls ==
    [at : {"idle"}] \union [at : {"authority"}, ca : CertNames, issuer : Nat] \union SavingCalls

FileTypes ==
    /\ crtFile \in [CertNames -> CertificateContent \union {NoFile, Torn}]
    /\ keyFile \in [CertNames -> Nat \union {NoFile, Torn}]
    /\ keyAccess \in [CertNames -> {"all", "owner"}]
    /\ umask \in {"all", "owner"} /\ umaskHeld \in BOOLEAN
    /\ generating \in [CertNames -> Calls]
    /\ generated \in [CertNames -> BOOLEAN]
    /\ pairs \in Nat

Match(n) == Whole(crtFile[n]) /\ Whole(keyFile[n]) => crtFile[n].pair = keyFile[n]

Saved(n) == crtFile[n] = generating[n].cert

KeySaved(n) == keyFile[n] = generating[n].cert.pair

(* What the files of a call hold at each of its steps. *)
CallAt(n) ==
    /\ generating[n].at \in Steps => generating[n].cert.signer = generating[n].cert.issuer
    /\ generating[n].at \in {"idle", "authority", "save", "nothing"} => Match(n)
    /\ generating[n].at \in {"umask", "key"} => IF generating[n].saved THEN Saved(n) ELSE Match(n)
    /\ generating[n].at = "save" => ~generating[n].saved
    /\ generating[n].at = "certificate only" => Saved(n)
    /\ generating[n].at = "key only" => KeySaved(n)
    /\ generating[n].at \in {"saved", "note"} => Saved(n) /\ KeySaved(n)
    /\ generating[n].at = "idle" /\ generated[n] => Whole(crtFile[n]) /\ Whole(keyFile[n])

CallInv == \A n \in CertNames : CallAt(n)

UmaskInv ==
    /\ \A n \in CertNames : generating[n].at \in Narrow =>
          /\ umaskHeld /\ umask = "owner" /\ generating[n].restore = "all"
          /\ \A m \in CertNames : generating[m].at \in Narrow => m = n
    /\ ~umaskHeld => umask = "all"

CertificateInv == FileTypes /\ CallInv /\ UmaskInv /\ KeysAreKept /\ SignedByIssuer

(* No call runs and no file exists. *)
LEMMA CertificateInvInit == CertificateInit => CertificateInv
<1> SUFFICES ASSUME CertificateInit PROVE CertificateInv
  OBVIOUS
<1>1. NotGenerating \in Calls /\ NotGenerating.at = "idle"
  BY DEF NotGenerating, Calls
<1>2. FileTypes
  BY <1>1 DEF CertificateInit, FileTypes
<1> QED
  BY <1>1, <1>2 DEF CertificateInit, CertificateInv, CallInv, CallAt, UmaskInv, KeysAreKept,
                    SignedByIssuer, Match, Whole, Steps, Narrow

(* What is known of a call by its step. *)
LEMMA Shape ==
    ASSUME NEW c \in Calls
    PROVE  /\ c.at \in {"idle", "authority"} \union Steps
           /\ c.at = "authority" => c.ca \in CertNames /\ c.issuer \in Nat
           /\ c.at \in Steps => /\ c \in SavingCalls /\ c.cert \in CertificateContent
                               /\ c.restore \in {"all", "owner"}
                               /\ c.own \in BOOLEAN /\ c.saved \in BOOLEAN
  BY DEF Calls, SavingCalls, Steps

(* A call that goes on to another step keeps what it makes. *)
LEMMA GoesOn ==
    ASSUME NEW c \in SavingCalls, NEW step \in Steps, NEW d, d = [c EXCEPT !.at = step]
    PROVE  /\ d \in Calls /\ d.at = step /\ d.cert = c.cert
           /\ d.saved = c.saved /\ d.own = c.own /\ d.restore = c.restore
  BY DEF Calls, SavingCalls, Steps

(* A call that has ended. *)
LEMMA Ended == NotGenerating \in Calls /\ NotGenerating.at = "idle"
  BY DEF NotGenerating, Calls

(* A step that changes nothing but the call of one name and what it        *)
(* returned preserves the invariant, if the files match afterwards. *)
LEMMA OtherCallsStay ==
    ASSUME CertificateInv, NEW n \in CertNames, NEW d \in Calls,
           generating' = [generating EXCEPT ![n] = d],
           UNCHANGED <<crtFile, keyFile, keyAccess, umask, umaskHeld>>,
           generated' \in [CertNames -> BOOLEAN], pairs' \in Nat,
           \A m \in CertNames \ {n} : generated'[m] = generated[m],
           d.at \in Steps => d.at = "save" /\ ~d.saved /\ d.cert.signer = d.cert.issuer,
           Match(n), generating[n].at \notin Narrow,
           d.at = "idle" /\ generated'[n] => Whole(crtFile[n]) /\ Whole(keyFile[n])
    PROVE  CertificateInv'
<1>1. FileTypes'
  BY DEF CertificateInv, FileTypes
<1>2. CallInv'
  BY DEF CertificateInv, FileTypes, CallInv, CallAt, Match, Saved, KeySaved, Whole, Steps
<1>3. UmaskInv' /\ KeysAreKept' /\ SignedByIssuer'
  BY DEF CertificateInv, FileTypes, UmaskInv, KeysAreKept, SignedByIssuer, Narrow, Steps, Whole
<1> QED BY <1>1, <1>2, <1>3 DEF CertificateInv

(* A call that begins, reads the authority's files or ends early writes no *)
(* file. *)
LEMMA MakingKeepsInv ==
    ASSUME CertificateInv, NEW n \in CertNames,
           \/ GenerateSelfSigned(n) \/ (\E ca \in CertNames : ReadAuthority(n, ca))
           \/ GenerateSignedByAuthority(n) \/ CannotGenerate(n)
    PROVE  CertificateInv'
<1>1. /\ generating[n] \in Calls /\ pairs \in Nat /\ umask \in {"all", "owner"}
      /\ generated \in [CertNames -> BOOLEAN] /\ generating \in [CertNames -> Calls]
  BY DEF CertificateInv, FileTypes
<1>2. ASSUME generating[n].at \in {"idle", "authority"}
      PROVE  Match(n) /\ generating[n].at \notin Narrow
  BY <1>2 DEF CertificateInv, CallInv, CallAt, Narrow
<1>3. ASSUME Return(n, FALSE), generating[n].at \in {"idle", "authority"},
             UNCHANGED <<certificateFiles, umask, umaskHeld, pairs>>
      PROVE  CertificateInv'
  <2>1. /\ generating' = [generating EXCEPT ![n] = NotGenerating]
        /\ generated' = [generated EXCEPT ![n] = FALSE]
    BY <1>3 DEF Return
  <2>2. ~generated'[n] /\ \A m \in CertNames \ {n} : generated'[m] = generated[m]
    BY <1>1, <2>1
  <2>3. generated' \in [CertNames -> BOOLEAN]
    BY <1>1, <2>1
  <2> QED BY <1>1, <1>2, <1>3, <2>1, <2>2, <2>3, Ended, OtherCallsStay DEF certificateFiles, Steps
<1>4. ASSUME NEW d \in SavingCalls, d.at = "save", ~d.saved, d.cert.signer = d.cert.issuer,
             generating[n].at \in {"idle", "authority"},
             generating' = [generating EXCEPT ![n] = d], pairs' \in Nat,
             UNCHANGED <<certificateFiles, umask, umaskHeld, generated>>
      PROVE  CertificateInv'
  <2>1. d \in Calls
    BY DEF Calls
  <2> QED BY <1>1, <1>2, <1>4, <2>1, OtherCallsStay DEF certificateFiles
<1>5. CASE GenerateSelfSigned(n)
  <2> DEFINE d == [at |-> "save", own |-> TRUE, saved |-> FALSE, restore |-> umask,
                   cert |-> [pair |-> pairs', issuer |-> pairs', signer |-> pairs']]
  <2>1. pairs' \in Nat
    BY <1>1, <1>5 DEF GenerateSelfSigned
  <2>2. d \in SavingCalls /\ d.at = "save" /\ ~d.saved /\ d.cert.signer = d.cert.issuer
    BY <1>1, <2>1 DEF SavingCalls, Steps, CertificateContent
  <2>3. /\ generating' = [generating EXCEPT ![n] = d] /\ generating[n].at = "idle"
        /\ UNCHANGED <<certificateFiles, umask, umaskHeld, generated>>
    BY <1>5 DEF GenerateSelfSigned, At
  <2> HIDE DEF d
  <2> QED BY <1>4, <2>1, <2>2, <2>3
<1>6. CASE CannotGenerate(n)
  BY <1>3, <1>6 DEF CannotGenerate, At
<1>7. ASSUME NEW ca \in CertNames, ReadAuthority(n, ca) PROVE CertificateInv'
  <2>1. generating[n].at = "idle" /\ UNCHANGED <<certificateFiles, umask, umaskHeld, pairs>>
    BY <1>7 DEF ReadAuthority, At
  <2>2. CASE Return(n, FALSE)
    BY <1>3, <2>1, <2>2
  <2>3. CASE ~Return(n, FALSE)
    <3> DEFINE d == [at |-> "authority", ca |-> ca, issuer |-> crtFile[ca].pair]
    <3>1. /\ Whole(crtFile[ca]) /\ UNCHANGED generated
          /\ generating' = [generating EXCEPT ![n] = d]
      BY <1>7, <2>3 DEF ReadAuthority
    <3>2. crtFile[ca].pair \in Nat
      BY <3>1 DEF CertificateInv, FileTypes, Whole, CertificateContent
    <3>3. d \in Calls /\ d.at = "authority"
      BY <3>2 DEF Calls
    <3> HIDE DEF d
    <3> QED BY <1>1, <1>2, <2>1, <3>1, <3>3, OtherCallsStay DEF certificateFiles, Steps
  <2> QED BY <2>2, <2>3
<1>8. CASE GenerateSignedByAuthority(n)
  <2>1. generating[n].at = "authority" /\ UNCHANGED <<certificateFiles, umask, umaskHeld>>
    BY <1>8 DEF GenerateSignedByAuthority, At
  <2> DEFINE key == keyFile[generating[n].ca]
  <2>2. CASE ~KeyOfAuthority(n, key)
    BY <1>3, <1>8, <2>1, <2>2 DEF GenerateSignedByAuthority
  <2>3. CASE KeyOfAuthority(n, key)
    <3> DEFINE d == [at |-> "save", own |-> FALSE, saved |-> FALSE, restore |-> umask,
                     cert |-> [pair |-> pairs', issuer |-> generating[n].issuer,
                               signer |-> key]]
    <3>1. /\ pairs' = pairs + 1 /\ UNCHANGED generated
          /\ generating' = [generating EXCEPT ![n] = d]
      BY <1>8, <2>3 DEF GenerateSignedByAuthority
    <3>2. key = generating[n].issuer /\ generating[n].issuer \in Nat /\ pairs' \in Nat
      BY <1>1, <2>1, <2>3, <3>1, Shape DEF KeyOfAuthority
    <3>3. d \in SavingCalls /\ d.at = "save" /\ ~d.saved /\ d.cert.signer = d.cert.issuer
      BY <1>1, <3>2 DEF SavingCalls, Steps, CertificateContent
    <3> HIDE DEF d, key
    <3> QED BY <1>4, <2>1, <3>1, <3>2, <3>3
  <2> QED BY <2>2, <2>3
<1> QED BY <1>5, <1>6, <1>7, <1>8

(* What a call writes does not touch the files of another. *)
LEMMA Elsewhere ==
    ASSUME CertificateInv, NEW n \in CertNames, NEW d, NEW crt, NEW key, NEW success,
           generating' = [generating EXCEPT ![n] = d],
           crtFile' = [crtFile EXCEPT ![n] = crt], keyFile' = [keyFile EXCEPT ![n] = key],
           generated' = [generated EXCEPT ![n] = success],
           NEW m \in CertNames, m # n
    PROVE  CallAt(m)'
<1>1. /\ generating'[m] = generating[m] /\ crtFile'[m] = crtFile[m]
      /\ keyFile'[m] = keyFile[m] /\ generated'[m] = generated[m]
  BY DEF CertificateInv, FileTypes
<1> QED BY <1>1 DEF CertificateInv, CallInv, CallAt, Match, Saved, KeySaved, Whole

(* The certificate of a call is written or not, before any key. *)
LEMMA SavingKeepsInv ==
    ASSUME CertificateInv, NEW n \in CertNames, SaveCertificate(n) \/ CertificateNotSaved(n)
    PROVE  CertificateInv'
<1> DEFINE c == generating[n]
<1>1. /\ c.at = "save" /\ UNCHANGED <<keyFile, keyAccess, noteFile, umask, umaskHeld, pairs>>
  BY DEF SaveCertificate, CertificateNotSaved, At
<1>2. c \in SavingCalls /\ c.cert \in CertificateContent /\ c.own \in BOOLEAN
  BY <1>1, Shape DEF CertificateInv, FileTypes, Steps
<1>3. c.cert.signer = c.cert.issuer /\ Match(n)
  BY <1>1 DEF CertificateInv, CallInv, CallAt, Steps
<1>4. keyFile' = [keyFile EXCEPT ![n] = keyFile[n]]
  BY <1>1 DEF CertificateInv, FileTypes
<1>5. ASSUME NEW d \in Calls, NEW crt \in CertificateContent \union {NoFile, Torn},
             NEW success \in BOOLEAN,
             generating' = [generating EXCEPT ![n] = d], crtFile' = [crtFile EXCEPT ![n] = crt],
             generated' = [generated EXCEPT ![n] = success], d.at \notin Narrow,
             crt \in {c.cert, crtFile[n], Torn}, CallAt(n)'
      PROVE  CertificateInv'
  <2>1. FileTypes'
    BY <1>1, <1>5 DEF CertificateInv, FileTypes
  <2>2. CallInv'
    BY <1>4, <1>5, Elsewhere DEF CallInv
  <2>3. UmaskInv'
    BY <1>1, <1>5 DEF CertificateInv, FileTypes, UmaskInv, Narrow
  <2>4. KeysAreKept' /\ SignedByIssuer'
    BY <1>1, <1>3, <1>5 DEF CertificateInv, FileTypes, KeysAreKept, SignedByIssuer, Whole
  <2> QED BY <2>1, <2>2, <2>3, <2>4 DEF CertificateInv
<1>6. CASE SaveCertificate(n)
  <2> DEFINE d == [c EXCEPT !.at = "umask", !.saved = TRUE]
  <2>1. /\ d \in Calls /\ d.at = "umask" /\ d.saved = TRUE /\ d.cert = c.cert
    BY <1>2 DEF Calls, SavingCalls, Steps
  <2>2. /\ generating' = [generating EXCEPT ![n] = d] /\ crtFile' = [crtFile EXCEPT ![n] = c.cert]
        /\ generated' = [generated EXCEPT ![n] = generated[n]] /\ generated[n] \in BOOLEAN
    BY <1>6 DEF SaveCertificate, CertificateInv, FileTypes
  <2> HIDE DEF d
  <2>3. generating'[n] = d /\ crtFile'[n] = c.cert
    BY <2>2 DEF CertificateInv, FileTypes
  <2>4. CallAt(n)'
    BY <1>3, <2>1, <2>3 DEF CallAt, Saved, Steps
  <2> QED BY <1>2, <1>5, <2>1, <2>2, <2>4 DEF Narrow
<1>7. CASE CertificateNotSaved(n)
  <2>1. PICK left \in {crtFile[n], Torn} : crtFile' = [crtFile EXCEPT ![n] = left]
    BY <1>7 DEF CertificateNotSaved
  <2>2. left \in CertificateContent \union {NoFile, Torn} /\ crtFile'[n] = left
    BY <2>1 DEF CertificateInv, FileTypes
  <2>3. Match(n)'
    BY <1>1, <1>3, <2>1, <2>2 DEF Match, Whole
  <2>4. CASE c.own
    <3>1. /\ generating' = [generating EXCEPT ![n] = NotGenerating]
          /\ generated' = [generated EXCEPT ![n] = FALSE]
      BY <1>7, <2>4 DEF CertificateNotSaved, Return
    <3>2. generating'[n].at = "idle" /\ ~generated'[n]
      BY <3>1, Ended DEF CertificateInv, FileTypes
    <3>3. CallAt(n)'
      BY <2>3, <3>2 DEF CallAt, Steps
    <3> QED BY <1>5, <2>1, <2>2, <3>1, <3>3, Ended DEF Narrow
  <2>5. CASE ~c.own
    <3> DEFINE d == [c EXCEPT !.at = "umask"]
    <3>1. d \in Calls /\ d.at = "umask" /\ d.cert = c.cert /\ d.saved = c.saved
      <4>1. c \in SavingCalls /\ "umask" \in Steps /\ d = [c EXCEPT !.at = "umask"]
        BY <1>2 DEF Steps
      <4> HIDE DEF c, d
      <4> QED BY <4>1, GoesOn
    <3>2. /\ generating' = [generating EXCEPT ![n] = d]
          /\ generated' = [generated EXCEPT ![n] = generated[n]] /\ generated[n] \in BOOLEAN
      BY <1>7, <2>5 DEF CertificateNotSaved, Goto, CertificateInv, FileTypes
    <3>3. ~c.saved
      BY <1>1 DEF CertificateInv, CallInv, CallAt
    <3> HIDE DEF d
    <3>4. CallAt(n)'
      BY <1>3, <2>3, <3>1, <3>2, <3>3 DEF CallAt, Steps, CertificateInv, FileTypes
    <3> QED BY <1>5, <2>1, <2>2, <3>1, <3>2, <3>4 DEF Narrow
  <2> QED BY <2>4, <2>5
<1> QED BY <1>6, <1>7

(* One call at a time narrows the umask. *)
LEMMA NarrowKeepsInv ==
    ASSUME CertificateInv, NEW n \in CertNames, NarrowUmask(n)
    PROVE  CertificateInv'
<1> DEFINE c == generating[n]
           d == [c EXCEPT !.at = "key", !.restore = umask]
<1>1. /\ c.at = "umask" /\ ~umaskHeld /\ umask = "all"
      /\ UNCHANGED <<crtFile, keyFile, keyAccess, generated, pairs>>
      /\ umaskHeld' = TRUE /\ umask' = "owner" /\ generating' = [generating EXCEPT ![n] = d]
  BY DEF NarrowUmask, At, CertificateInv, UmaskInv, certificateFiles
<1>2. c \in SavingCalls
  BY <1>1, Shape DEF CertificateInv, FileTypes, Steps
<1>3. /\ d \in Calls /\ d.at = "key" /\ d.restore = "all" /\ d.cert = c.cert
      /\ d.saved = c.saved
  BY <1>1, <1>2 DEF Calls, SavingCalls, Steps
<1> HIDE DEF d
<1>4. FileTypes'
  BY <1>1, <1>3 DEF CertificateInv, FileTypes
<1>5. \A m \in CertNames : generating'[m] = IF m = n THEN d ELSE generating[m]
  BY <1>1 DEF CertificateInv, FileTypes
<1>6. CallInv'
  <2>1. CallAt(n)
    BY DEF CertificateInv, CallInv
  <2>2. CallAt(n)'
    BY <1>1, <1>3, <1>5, <2>1 DEF CallAt, Match, Saved, Whole, Steps
  <2>3. ASSUME NEW m \in CertNames, m # n PROVE CallAt(m)'
    <3>1. /\ generating'[m] = generating[m] /\ crtFile'[m] = crtFile[m]
          /\ keyFile'[m] = keyFile[m] /\ generated'[m] = generated[m]
      BY <1>1, <1>5, <2>3
    <3>2. CallAt(m)
      BY DEF CertificateInv, CallInv
    <3> QED BY <3>1, <3>2 DEF CallAt, Match, Saved, KeySaved, Whole
  <2> QED BY <2>2, <2>3 DEF CallInv
<1>7. UmaskInv'
  <2>1. \A m \in CertNames : generating[m].at \notin Narrow
    BY <1>1 DEF CertificateInv, UmaskInv
  <2>2. umask' = "owner" /\ umaskHeld' /\ d.restore = "all"
    BY <1>1, <1>3
  <2>3. \A m \in CertNames : generating'[m].at \in Narrow => m = n
    BY <1>5, <2>1
  <2>4. generating'[n] = d
    BY <1>5
  <2> QED BY <2>2, <2>3, <2>4 DEF UmaskInv
<1> QED BY <1>1, <1>4, <1>6, <1>7 DEF CertificateInv, KeysAreKept, SignedByIssuer, Whole

(* A key file that is made is made under the narrow umask. *)
LEMMA KeyKeepsInv ==
    ASSUME CertificateInv, NEW n \in CertNames, SaveKey(n) \/ KeyNotSaved(n)
    PROVE  CertificateInv'
<1> DEFINE c == generating[n]
<1>1. /\ c.at = "key" /\ UNCHANGED <<crtFile, umask, umaskHeld, generated, pairs>>
  BY DEF SaveKey, KeyNotSaved, At
<1>2. c \in SavingCalls /\ c.cert.pair \in Nat
  BY <1>1, Shape DEF CertificateInv, FileTypes, Steps, CertificateContent
<1>3. /\ c.cert.signer = c.cert.issuer /\ IF c.saved THEN Saved(n) ELSE Match(n)
  BY <1>1 DEF CertificateInv, CallInv, CallAt, Steps
<1>4. umask = "owner" /\ umaskHeld
  BY <1>1 DEF CertificateInv, UmaskInv, Narrow
<1>5. PICK step \in Narrow, key \in Nat \union {NoFile, Torn} :
         /\ generating' = [generating EXCEPT ![n].at = step]
         /\ keyFile' = [keyFile EXCEPT ![n] = key]
         /\ step \in {"saved", "key only"} => key = c.cert.pair
         /\ step \in {"certificate only", "nothing"} => key \in {keyFile[n], Torn}
         /\ step \in {"saved", "certificate only"} <=> c.saved
         /\ step # "key"
         /\ \/ UNCHANGED <<keyFile, keyAccess>>
            \/ Written(n, key)
  <2>1. CASE SaveKey(n)
    BY <1>2, <2>1 DEF SaveKey, Written, Goto, Narrow
  <2>2. CASE KeyNotSaved(n) /\ Written(n, Torn)
    BY <2>2 DEF KeyNotSaved, Written, Goto, Narrow
  <2>3. CASE KeyNotSaved(n) /\ UNCHANGED <<keyFile, keyAccess>>
    <3>1. keyFile' = [keyFile EXCEPT ![n] = keyFile[n]] /\ keyFile[n] \in Nat \union {NoFile, Torn}
      BY <2>3 DEF CertificateInv, FileTypes
    <3> QED BY <2>3, <3>1 DEF KeyNotSaved, Goto, Narrow
  <2> QED BY <2>1, <2>2, <2>3 DEF KeyNotSaved
<1> DEFINE d == [c EXCEPT !.at = step]
<1>6. /\ d \in Calls /\ d.at = step /\ d.cert = c.cert
      /\ d.saved = c.saved /\ d.restore = c.restore
  <2>1. c \in SavingCalls /\ step \in Steps /\ d = [c EXCEPT !.at = step]
    BY <1>2 DEF Steps, Narrow
  <2> HIDE DEF c, d
  <2> QED BY <2>1, GoesOn
<1>7. generating' = [generating EXCEPT ![n] = d]
  BY <1>5
<1> HIDE DEF d
<1>8. \A m \in CertNames : /\ generating'[m] = IF m = n THEN d ELSE generating[m]
                          /\ keyFile'[m] = IF m = n THEN key ELSE keyFile[m]
  BY <1>5, <1>7 DEF CertificateInv, FileTypes
<1>9. keyAccess' \in [CertNames -> {"all", "owner"}]
  BY <1>4, <1>5 DEF Written, CertificateInv, FileTypes
<1>10. FileTypes'
  BY <1>1, <1>5, <1>6, <1>7, <1>9 DEF CertificateInv, FileTypes
<1>11. CallInv'
  <2>1. Match(n)' \/ step \notin {"nothing"}
    BY <1>1, <1>3, <1>5, <1>8 DEF Match, Whole, Narrow
  <2>2. CallAt(n)'
    BY <1>1, <1>3, <1>5, <1>6, <1>8, <2>1 DEF CallAt, Saved, KeySaved, Narrow
  <2>3. ASSUME NEW m \in CertNames, m # n PROVE CallAt(m)'
    BY <1>1, <1>8, <2>3 DEF CertificateInv, CallInv, CallAt, Match, Saved, KeySaved, Whole
  <2> QED BY <2>2, <2>3 DEF CallInv
<1>12. UmaskInv'
  <2>1. c.restore = "all" /\ \A m \in CertNames : generating[m].at \in Narrow => m = n
    BY <1>1 DEF CertificateInv, UmaskInv, Narrow
  <2>2. umask' = "owner" /\ umaskHeld' /\ generating'[n].restore = "all"
    BY <1>1, <1>4, <1>6, <1>8, <2>1
  <2>3. \A m \in CertNames : generating'[m].at \in Narrow => m = n
    BY <1>8, <2>1
  <2> QED BY <2>2, <2>3 DEF UmaskInv
<1>13. KeysAreKept'
  BY <1>4, <1>5, <1>8 DEF CertificateInv, FileTypes, KeysAreKept, Written
<1> QED BY <1>1, <1>10, <1>11, <1>12, <1>13 DEF CertificateInv, SignedByIssuer, Whole

(* A call restores the umask, and does not leave one of a certificate and  *)
(* its key without the other. *)
LEMMA EndingKeepsInv ==
    ASSUME CertificateInv, NEW n \in CertNames, EndGeneration(n)
    PROVE  CertificateInv'
<1> DEFINE c == generating[n]
<1>1. /\ c.at \in Narrow \ {"key"} /\ UNCHANGED <<keyAccess, pairs>>
      /\ umask' = c.restore /\ umaskHeld' = FALSE
  BY DEF EndGeneration, RestoreUmask, Narrow
<1>2. c \in SavingCalls /\ c.cert \in CertificateContent /\ c.cert.pair \in Nat
  BY <1>1, Shape DEF CertificateInv, FileTypes, Steps, Narrow, CertificateContent
<1>3. umask' = "all" /\ \A m \in CertNames : generating[m].at \in Narrow => m = n
  BY <1>1 DEF CertificateInv, UmaskInv, Narrow
<1>4. CallAt(n) /\ c.cert.signer = c.cert.issuer
  BY <1>1 DEF CertificateInv, CallInv, CallAt, Steps, Narrow
<1>5. PICK crt \in {crtFile[n], NoFile}, key \in {keyFile[n], NoFile} :
         /\ crtFile' = [crtFile EXCEPT ![n] = crt] /\ keyFile' = [keyFile EXCEPT ![n] = key]
         /\ c.at = "certificate only" => crt = NoFile
         /\ c.at = "key only" => key = NoFile
         /\ c.at \in {"saved", "nothing"} => crt = crtFile[n] /\ key = keyFile[n]
  BY <1>1 DEF EndGeneration, RemoveTheOther, At, Narrow
<1>6. /\ crt \in CertificateContent \union {NoFile, Torn} /\ key \in Nat \union {NoFile, Torn}
      /\ crtFile'[n] = crt /\ keyFile'[n] = key
      /\ \A m \in CertNames \ {n} : crtFile'[m] = crtFile[m] /\ keyFile'[m] = keyFile[m]
  BY <1>5 DEF CertificateInv, FileTypes
<1>7. c.at = "saved" => Whole(crt) /\ Whole(key) /\ crt = c.cert /\ key = c.cert.pair
  BY <1>2, <1>4, <1>5, CertificateAssumption DEF CallAt, Saved, KeySaved, Whole
<1>8. c.at # "saved" => (Whole(crt) /\ Whole(key) => crt.pair = key)
  BY <1>1, <1>4, <1>5 DEF CallAt, Match, Whole, Narrow
<1>9. PICK d \in Calls, success \in BOOLEAN :
         /\ generating' = [generating EXCEPT ![n] = d]
         /\ generated' = [generated EXCEPT ![n] = success]
         /\ \/ d.at = "note" /\ d.cert = c.cert /\ c.at = "saved"
            \/ d.at = "idle" /\ (success => c.at = "saved")
  <2>1. CASE c.at = "saved" /\ c.own
    <3> DEFINE d == [c EXCEPT !.at = "note"]
    <3>1. d \in Calls /\ d.at = "note" /\ d.cert = c.cert
      <4>1. c \in SavingCalls /\ "note" \in Steps /\ d = [c EXCEPT !.at = "note"]
        BY <1>2 DEF Steps
      <4> HIDE DEF c, d
      <4> QED BY <4>1, GoesOn
    <3>2. generating' = [generating EXCEPT ![n] = d] /\ UNCHANGED generated
      BY <2>1 DEF EndGeneration, At, Goto
    <3>3. generated' = [generated EXCEPT ![n] = generated[n]] /\ generated[n] \in BOOLEAN
      BY <3>2 DEF CertificateInv, FileTypes
    <3> HIDE DEF d
    <3> QED BY <2>1, <3>1, <3>2, <3>3
  <2>2. CASE ~(c.at = "saved" /\ c.own)
    <3>1. /\ generating' = [generating EXCEPT ![n] = NotGenerating]
          /\ generated' = [generated EXCEPT ![n] = (c.at = "saved")]
      BY <2>2 DEF EndGeneration, At, Return
    <3> QED BY <3>1, Ended
  <2> QED BY <2>1, <2>2
<1>10. generating'[n] = d /\ generated'[n] = success
  BY <1>9 DEF CertificateInv, FileTypes
<1>11. FileTypes'
  BY <1>1, <1>3, <1>5, <1>6, <1>9 DEF CertificateInv, FileTypes
<1>12. CallInv'
  <2>1. CallAt(n)'
    BY <1>4, <1>6, <1>7, <1>8, <1>9, <1>10 DEF CallAt, Match, Saved, KeySaved, Whole, Steps
  <2> QED BY <1>5, <1>9, <2>1, Elsewhere DEF CallInv
<1>13. UmaskInv'
  <2>1. \A m \in CertNames : generating'[m].at \notin Narrow
    BY <1>3, <1>9, <1>10 DEF CertificateInv, FileTypes, Narrow
  <2> QED BY <1>3, <2>1 DEF UmaskInv
<1>14. KeysAreKept' /\ SignedByIssuer'
  BY <1>1, <1>5, <1>6 DEF CertificateInv, KeysAreKept, SignedByIssuer, Whole
<1> QED BY <1>11, <1>12, <1>13, <1>14 DEF CertificateInv

(* The note is no part of what must match. *)
LEMMA NoteKeepsInv ==
    ASSUME CertificateInv, NEW n \in CertNames, SaveNote(n)
    PROVE  CertificateInv'
<1>1. /\ generating[n].at = "note" /\ UNCHANGED <<crtFile, keyFile, keyAccess, umask, umaskHeld, pairs>>
      /\ generating' = [generating EXCEPT ![n] = NotGenerating]
      /\ generated' = [generated EXCEPT ![n] = TRUE]
  BY DEF SaveNote, Return, At
<1>2. Saved(n) /\ KeySaved(n)
  BY <1>1 DEF CertificateInv, CallInv, CallAt
<1>3. generating[n].cert \in CertificateContent /\ generating[n].cert.pair \in Nat
  BY <1>1, Shape DEF CertificateInv, FileTypes, Steps, CertificateContent
<1>4. Match(n) /\ Whole(crtFile[n]) /\ Whole(keyFile[n])
  BY <1>2, <1>3, CertificateAssumption DEF Match, Saved, KeySaved, Whole
<1>5. generated' \in [CertNames -> BOOLEAN] /\ pairs' \in Nat
  BY <1>1 DEF CertificateInv, FileTypes
<1>6. \A m \in CertNames \ {n} : generated'[m] = generated[m]
  BY <1>1 DEF CertificateInv, FileTypes
<1> QED
  BY <1>1, <1>4, <1>5, <1>6, Ended, OtherCallsStay DEF Narrow, Steps

(* No step of any call breaks the invariant. *)
LEMMA CertificateInvStep == CertificateInv /\ [CertificateNext]_certificateVars => CertificateInv'
<1> SUFFICES ASSUME CertificateInv, [CertificateNext]_certificateVars PROVE CertificateInv'
  OBVIOUS
<1>1. CASE UNCHANGED certificateVars
  BY <1>1 DEF certificateVars, certificateFiles, CertificateInv, FileTypes, CallInv, CallAt, Match,
              Saved, KeySaved, UmaskInv, KeysAreKept, SignedByIssuer, Whole
<1>2. CASE CertificateNext
  BY <1>2, MakingKeepsInv, SavingKeepsInv, NarrowKeepsInv, KeyKeepsInv, EndingKeepsInv,
     NoteKeepsInv DEF CertificateNext
<1> QED BY <1>1, <1>2

(* Certificates and keys match whichever writes fail and however calls     *)
(* overlap, no key is readable by others, and the umask is restored. *)
THEOREM CertificateSafety == CertificateSpec => []CertificatesAreSound
<1>1. CertificateInv => CertificatesAreSound
  BY DEF CertificateInv, CallInv, CallAt, Match, UmaskInv, CertificatesAreSound, PairsMatch, At
<1> QED BY <1>1, CertificateInvInit, CertificateInvStep, PTL DEF CertificateSpec

-----------------------------------------------------------------------------
(* The UDP receiver.                                                        *)

Parts == [part : {"header", "body"}, of : Datagrams]

(* What is buffered of an end point goes on where its rule stands: a body  *)
(* follows every header, the last is complete, and all is of datagrams of  *)
(* that end point out of ds.                                               *)
Framed(e, c, ds) ==
    /\ c.mode = IF c.buffer # <<>> /\ c.buffer[1].part = "body" THEN "Body" ELSE "Size"
    /\ c.buffer # <<>> => c.buffer[Len(c.buffer)].part = "body"
    /\ \A i \in 1 .. Len(c.buffer) - 1 : c.buffer[i].part # c.buffer[i + 1].part
    /\ \A i \in 1 .. Len(c.buffer) :
          c.buffer[i].of.sender = e /\ c.buffer[i].of \in ds

Boxes == [buffer : Seq(Parts), mode : {"Size", "Body"}]

BodyPart(d) == [part |-> "body", of |-> d]

(* The body of d is in what the thread is handling. *)
UnderWay(d) ==
    reader = "notify" /\ \E i \in 1 .. Len(clients[from].buffer) : clients[from].buffer[i] = BodyPart(d)

BufferInv ==
    /\ received \subseteq Datagrams
    /\ from \in Senders
    /\ DOMAIN clients \subseteq Senders /\ clients \in [DOMAIN clients -> Boxes]
    /\ \A e \in DOMAIN clients : Framed(e, clients[e], received)
    /\ reader = "notify" => from \in DOMAIN clients
    /\ reports \subseteq {Report(d) : d \in received}
    /\ \A d \in received : Report(d) \in reports \/ UnderWay(d)

(* At most one FSocket exists, the one in InnerSocket, and the thread has  *)
(* a copy of it.                                                           *)
SessionInv ==
    /\ udpStarts \in Nat /\ udpSocket \in Nat
    /\ udpClosing \in BOOLEAN /\ udpSelfClose \in BOOLEAN
    /\ reader \in {"none", "turn", "wait", "notify", "exited"}
    /\ udpUser \in {"idle", "join"}
    /\ udpSessions = IF udpSocket = NoFSocket THEN {} ELSE {udpSocket}
    /\ reader \in {"wait", "notify"} => copied = udpSocket /\ udpSocket # NoFSocket
    /\ udpUser = "join" => udpClosing
    /\ (udpUser = "idle" /\ udpClosing) \/ udpStarts = 0 =>
          reader \in {"none", "exited"} /\ udpSocket = NoFSocket

UdpInv == BufferInv /\ SessionInv

(* A sequence without elements is the empty one. *)
LEMMA EmptyIsShort == \A t \in Seq(Parts) : t = <<>> <=> Len(t) = 0
  OBVIOUS

(* What is in a box. *)
LEMMA InBox ==
    ASSUME NEW c \in Boxes
    PROVE  /\ c = [buffer |-> c.buffer, mode |-> c.mode]
           /\ c.buffer \in Seq(Parts) /\ Len(c.buffer) \in Nat /\ c.mode \in {"Size", "Body"}
           /\ c.buffer = <<>> <=> Len(c.buffer) = 0
           /\ \A i \in 1 .. Len(c.buffer) :
                 /\ c.buffer[i] \in Parts /\ c.buffer[i].part \in {"header", "body"}
                 /\ c.buffer[i].of \in Datagrams
<1>1. c = [buffer |-> c.buffer, mode |-> c.mode] /\ c.buffer \in Seq(Parts) /\ c.mode \in {"Size", "Body"}
  BY DEF Boxes
<1>2. \A x \in Parts : x.part \in {"header", "body"} /\ x.of \in Datagrams
  BY DEF Parts
<1>3. \A i \in 1 .. Len(c.buffer) : c.buffer[i] \in Parts
  BY <1>1
<1> QED BY <1>1, <1>2, <1>3, EmptyIsShort

(* The record with another buffer. *)
LEMMA Extended ==
    ASSUME NEW S, NEW M, NEW c \in [buffer : S, mode : M], NEW p
    PROVE  [c EXCEPT !.buffer = p] = [buffer |-> p, mode |-> c.mode]
  OBVIOUS

(* A packet that is appended keeps a box framed. *)
LEMMA PacketKeepsFrame ==
    ASSUME NEW e, NEW ds, NEW c \in Boxes, Framed(e, c, ds), NEW d \in Datagrams, d.sender = e
    PROVE  LET packet == <<[part |-> "header", of |-> d], [part |-> "body", of |-> d]>>
               n == [c EXCEPT !.buffer = @ \o packet]
           IN  /\ n \in Boxes /\ Framed(e, n, ds \cup {d})
               /\ Len(n.buffer) \in 1 .. Len(n.buffer) /\ n.buffer[Len(n.buffer)] = BodyPart(d)
<1> DEFINE packet == <<[part |-> "header", of |-> d], [part |-> "body", of |-> d]>>
           n == [c EXCEPT !.buffer = @ \o packet]
           old == Len(c.buffer)
<1>1. packet \in Seq(Parts) /\ Len(packet) = 2
  BY DEF Parts
<1>2. n = [buffer |-> c.buffer \o packet, mode |-> c.mode] /\ n \in Boxes
  <2> HIDE DEF packet
  <2>1. c.buffer \o packet \in Seq(Parts)
    BY <1>1, InBox
  <2>2. n = [buffer |-> c.buffer \o packet, mode |-> c.mode]
    BY Extended DEF Boxes
  <2> QED BY <2>1, <2>2, InBox DEF Boxes
<1>3. old \in Nat /\ Len(n.buffer) = old + 2
  BY <1>1, <1>2 DEF Boxes
<1>4. /\ \A i \in 1 .. old : n.buffer[i] = c.buffer[i]
      /\ n.buffer[old + 1] = packet[1] /\ n.buffer[old + 2] = packet[2]
  BY <1>1, <1>2, <1>3 DEF Boxes
<1>5. n.buffer # <<>> /\ (c.buffer = <<>> <=> old = 0)
  BY <1>1, <1>2, <1>3 DEF Boxes
<1>6. n.buffer[old + 1].part = "header" /\ n.buffer[old + 2].part = "body"
      /\ n.buffer[old + 1].of = d /\ n.buffer[old + 2].of = d
  BY <1>4
<1>7. n.mode = IF n.buffer # <<>> /\ n.buffer[1].part = "body" THEN "Body" ELSE "Size"
  BY <1>2, <1>3, <1>4, <1>5, <1>6 DEF Framed
<1>8. \A i \in 1 .. Len(n.buffer) - 1 : n.buffer[i].part # n.buffer[i + 1].part
  <2>4. 1 .. Len(n.buffer) - 1 = 1 .. old + 1
    <3> HIDE DEF n, old
    <3> QED BY <1>3
  <2> SUFFICES ASSUME NEW i \in 1 .. old + 1 PROVE n.buffer[i].part # n.buffer[i + 1].part
    BY <2>4
  <2>1. CASE i < old
    BY <2>1, <1>3, <1>4 DEF Framed
  <2>2. CASE i = old
    BY <2>2, <1>3, <1>4, <1>5, <1>6 DEF Framed
  <2>3. CASE i = old + 1
    BY <2>3, <1>3, <1>6
  <2> QED BY <1>3, <2>1, <2>2, <2>3
<1>9. \A i \in 1 .. Len(n.buffer) :
         n.buffer[i].of.sender = e /\ n.buffer[i].of \in ds \cup {d}
  BY <1>3, <1>4, <1>6 DEF Framed
<1>10. Len(n.buffer) \in 1 .. Len(n.buffer) /\ n.buffer[Len(n.buffer)] = BodyPart(d)
  BY <1>3, <1>4 DEF BodyPart
<1> QED BY <1>2, <1>3, <1>6, <1>7, <1>8, <1>9, <1>10 DEF Framed

(* One turn of NotifyReceived takes a part off and changes the mode. *)
LEMMA TurnKeepsFrame ==
    ASSUME NEW e, NEW ds, NEW c \in Boxes, Framed(e, c, ds), c.buffer # <<>>
    PROVE  LET n == [buffer |-> Tail(c.buffer),
                     mode |-> IF c.mode = "Size" THEN "Body" ELSE "Size"]
           IN  /\ n \in Boxes /\ Framed(e, n, ds)
               /\ Head(c.buffer) \in Parts /\ Head(c.buffer).of.sender = e
               /\ Head(c.buffer).of \in ds
               /\ c.mode = "Body" <=> Head(c.buffer).part = "body"
               /\ \A i \in 1 .. Len(c.buffer) :
                     \/ i = 1 /\ c.buffer[i] = Head(c.buffer)
                     \/ i - 1 \in 1 .. Len(n.buffer) /\ n.buffer[i - 1] = c.buffer[i]
<1> DEFINE n == [buffer |-> Tail(c.buffer),
                 mode |-> IF c.mode = "Size" THEN "Body" ELSE "Size"]
           old == Len(c.buffer)
<1>1. old \in Nat \ {0} /\ n \in Boxes /\ Head(c.buffer) = c.buffer[1] /\ c.buffer[1] \in Parts
  BY DEF Boxes
<1>2. Len(n.buffer) = old - 1 /\ \A i \in 1 .. old - 1 : n.buffer[i] = c.buffer[i + 1]
  BY <1>1 DEF Boxes
<1>3. n.buffer = <<>> <=> old = 1
  <2>1. Tail(c.buffer) \in Seq(Parts) /\ n.buffer = Tail(c.buffer)
    BY <1>1, InBox
  <2>2. Len(n.buffer) = old - 1
    BY <1>2
  <2>3. n.buffer = <<>> <=> Len(n.buffer) = 0
    BY <2>1, EmptyIsShort
  <2> HIDE DEF n, old
  <2> QED BY <2>2, <2>3, <1>1
<1>4. c.buffer[1].part \in {"header", "body"}
  BY <1>1 DEF Parts
<1>5. n.mode = IF n.buffer # <<>> /\ n.buffer[1].part = "body" THEN "Body" ELSE "Size"
  <2>1. CASE old = 1
    <3>1. c.mode = "Body"
      BY <2>1 DEF Framed
    <3> QED BY <2>1, <3>1, <1>3
  <2>2. CASE old > 1
    <3>1. n.buffer[1] = c.buffer[2] /\ c.buffer[1].part # c.buffer[2].part
      BY <2>2, <1>1, <1>2 DEF Framed
    <3>2. 2 \in 1 .. Len(c.buffer)
      BY <2>2, <1>1
    <3>4. c.buffer[2].part \in {"header", "body"}
      BY <3>2, InBox
    <3>3. c.mode = IF c.buffer[1].part = "body" THEN "Body" ELSE "Size"
      BY DEF Framed
    <3>5. n.mode = IF c.mode = "Size" THEN "Body" ELSE "Size"
      OBVIOUS
    <3> HIDE DEF n, old
    <3> QED BY <2>2, <3>1, <3>3, <3>4, <3>5, <1>1, <1>3, <1>4
  <2>3. old = 1 \/ old > 1
    <3>1. old \in Nat /\ old # 0
      BY <1>1
    <3> HIDE DEF old
    <3> QED BY <3>1
  <2> QED BY <2>1, <2>2, <2>3
<1>6. n.buffer # <<>> => n.buffer[Len(n.buffer)].part = "body"
  BY <1>1, <1>2, <1>3 DEF Framed
<1>7. \A i \in 1 .. Len(n.buffer) - 1 : n.buffer[i].part # n.buffer[i + 1].part
  BY <1>1, <1>2 DEF Framed
<1>8. \A i \in 1 .. Len(n.buffer) :
         n.buffer[i].of.sender = e /\ n.buffer[i].of \in ds
  BY <1>1, <1>2 DEF Framed
<1>9. \A i \in 1 .. Len(c.buffer) :
         \/ i = 1 /\ c.buffer[i] = Head(c.buffer)
         \/ i - 1 \in 1 .. Len(n.buffer) /\ n.buffer[i - 1] = c.buffer[i]
  <2> SUFFICES ASSUME NEW i \in 1 .. old, i # 1
               PROVE  i - 1 \in 1 .. Len(n.buffer) /\ n.buffer[i - 1] = c.buffer[i]
    BY <1>1
  <2>1. i - 1 \in 1 .. old - 1 /\ (i - 1) + 1 = i
    BY <1>1
  <2> QED BY <2>1, <1>2
<1>10. c.mode = "Body" <=> Head(c.buffer).part = "body"
  BY <1>1 DEF Framed
<1>11. Head(c.buffer).of.sender = e /\ Head(c.buffer).of \in ds
  BY <1>1 DEF Framed
<1> QED BY <1>1, <1>5, <1>6, <1>7, <1>8, <1>9, <1>10, <1>11 DEF Framed

(* Nothing is buffered or reported before the first datagram. *)
LEMMA UdpInvInit == UdpInit => UdpInv
<1>1. DOMAIN << >> = {}
  OBVIOUS
<1>2. <<>> \in [{} -> Boxes]
  BY <1>1
<1> SUFFICES ASSUME UdpInit PROVE UdpInv
  OBVIOUS
<1>3. clients \in [DOMAIN clients -> Boxes] /\ DOMAIN clients = {}
  BY <1>1, <1>2 DEF UdpInit
<1>4. BufferInv
  BY <1>3 DEF UdpInit, BufferInv
<1> QED BY <1>4 DEF UdpInit, UdpInv, SessionInv, NoFSocket

(* What is sent, doubled or lost concerns neither the thread nor the user. *)
LEMMA NetworkKeepsUdp ==
    ASSUME UdpInv,
           \/ \E e \in Senders : UdpSends(e)
           \/ \E d \in Datagrams : UdpDuplicates(d)
           \/ \E d \in flight : UdpLoses(d)
    PROVE  UdpInv'
<1>1. UNCHANGED <<readerVars, udpUserVars, udpSockets>>
  BY DEF UdpSends, UdpDuplicates, UdpLoses
<1> QED
  BY <1>1 DEF UdpInv, BufferInv, SessionInv, UnderWay, readerVars, udpUserVars, udpSockets

(* A datagram is appended to the box of its sender, old or new. *)
LEMMA DatagramKeepsUdp ==
    ASSUME UdpInv, NEW d \in Datagrams, NEW copy \in 1 .. 2, ReadDatagram(d, copy)
    PROVE  UdpInv'
<1> DEFINE e == d.sender
           known == IF e \in DOMAIN clients THEN clients[e] ELSE [buffer |-> <<>>, mode |-> "Size"]
           packet == <<[part |-> "header", of |-> d], [part |-> "body", of |-> d]>>
           n == [known EXCEPT !.buffer = @ \o packet]
<1>1. e \in Senders /\ received' = received \cup {d} /\ reports' = reports
  BY DEF ReadDatagram, Datagrams
<1>2. known \in Boxes /\ Framed(e, known, received)
  <2>1. CASE e \in DOMAIN clients
    BY <2>1 DEF UdpInv, BufferInv
  <2>2. CASE e \notin DOMAIN clients
    BY <2>2 DEF Boxes, Framed
  <2> QED BY <2>1, <2>2
<1>3. /\ n \in Boxes /\ Framed(e, n, received \cup {d})
      /\ Len(n.buffer) \in 1 .. Len(n.buffer) /\ n.buffer[Len(n.buffer)] = BodyPart(d)
  <2> HIDE DEF known
  <2> QED BY <1>2, PacketKeepsFrame, Zenon
<1>4. clients' = [x \in DOMAIN clients \cup {e} |-> IF x = e THEN n ELSE clients[x]]
  BY DEF ReadDatagram
<1> HIDE DEF n, known
<1>5. DOMAIN clients' = DOMAIN clients \cup {e} /\ clients'[e] = n
      /\ \A x \in DOMAIN clients \ {e} : clients'[x] = clients[x]
  BY <1>4
<1>6. /\ DOMAIN clients' \subseteq Senders
      /\ clients' \in [DOMAIN clients' -> Boxes]
  BY <1>1, <1>3, <1>4, <1>5 DEF UdpInv, BufferInv
<1>7. \A x \in DOMAIN clients' : Framed(x, clients'[x], received')
  BY <1>1, <1>3, <1>5 DEF UdpInv, BufferInv, Framed
<1>8. reader = "wait" /\ reader' = "notify" /\ from' = e
  BY DEF ReadDatagram
<1>9. BufferInv'
  <2>1. UnderWay(d)'
    BY <1>3, <1>5, <1>8 DEF UnderWay, BodyPart
  <2>2. \A x \in received : Report(x) \in reports
    BY <1>8 DEF UdpInv, BufferInv, UnderWay
  <2> QED
    BY <2>1, <2>2, <1>1, <1>5, <1>6, <1>7, <1>8 DEF UdpInv, BufferInv
<1> QED
  BY <1>9 DEF UdpInv, SessionInv, ReadDatagram, udpUserVars, udpSockets

(* The rule takes one part of what it has, and reports a body. *)
LEMMA NotifyKeepsUdp == ASSUME UdpInv, NotifyReceived PROVE UdpInv'
<1> DEFINE c == clients[from]
           n == [buffer |-> Tail(c.buffer), mode |-> IF c.mode = "Size" THEN "Body" ELSE "Size"]
<1>1. /\ from \in DOMAIN clients /\ from \in Senders /\ c \in Boxes /\ c.buffer # <<>>
      /\ Framed(from, c, received)
  BY DEF UdpInv, BufferInv, NotifyReceived
<1>2. /\ n \in Boxes /\ Framed(from, n, received) /\ Head(c.buffer) \in Parts
      /\ Head(c.buffer).of.sender = from /\ Head(c.buffer).of \in received
      /\ c.mode = "Body" <=> Head(c.buffer).part = "body"
      /\ \A i \in 1 .. Len(c.buffer) :
            \/ i = 1 /\ c.buffer[i] = Head(c.buffer)
            \/ i - 1 \in 1 .. Len(n.buffer) /\ n.buffer[i - 1] = c.buffer[i]
  BY <1>1, TurnKeepsFrame
<1>3. clients' = [clients EXCEPT ![from] = n]
  BY DEF NotifyReceived
<1>4. reports' = IF c.mode = "Body" THEN reports \cup {[client |-> from, data |-> Head(c.buffer)]}
                 ELSE reports
  BY DEF NotifyReceived
<1>5. UNCHANGED <<received, from, copied, udpSocket, udpSessions, udpUser, udpClosing,
                  udpSelfClose, udpStarts>> /\ reader = "notify" /\ reader' = "notify"
  BY DEF NotifyReceived, ReaderAt, networkVars, udpUserVars, udpSockets
<1> HIDE DEF n
<1>6. /\ DOMAIN clients' = DOMAIN clients /\ clients' \in [DOMAIN clients' -> Boxes]
      /\ clients'[from] = n
      /\ \A x \in DOMAIN clients' : Framed(x, clients'[x], received)
  BY <1>1, <1>2, <1>3 DEF UdpInv, BufferInv
<1>7. /\ reports' \subseteq {Report(d) : d \in received}
      /\ c.mode = "Body" => Report(Head(c.buffer).of) \in reports' /\ Head(c.buffer) = BodyPart(Head(c.buffer).of)
      /\ reports \subseteq reports'
  <2>1. Head(c.buffer) = [part |-> Head(c.buffer).part, of |-> Head(c.buffer).of]
    BY <1>2 DEF Parts
  <2>2. c.mode = "Body" =>
           /\ Head(c.buffer) = BodyPart(Head(c.buffer).of)
           /\ Report(Head(c.buffer).of) = [client |-> from, data |-> Head(c.buffer)]
    BY <1>2, <2>1 DEF BodyPart, Report
  <2> QED BY <1>2, <1>4, <2>2 DEF UdpInv, BufferInv
<1>8. ASSUME NEW d \in received PROVE Report(d) \in reports' \/ UnderWay(d)'
  <2>1. CASE Report(d) \in reports
    BY <2>1, <1>7
  <2>2. CASE UnderWay(d)
    <3>1. PICK i \in 1 .. Len(c.buffer) : c.buffer[i] = BodyPart(d)
      BY <2>2 DEF UnderWay
    <3>2. CASE i - 1 \in 1 .. Len(n.buffer) /\ n.buffer[i - 1] = c.buffer[i]
      BY <3>1, <3>2, <1>5, <1>6 DEF UnderWay, BodyPart
    <3>3. CASE c.buffer[i] = Head(c.buffer)
      <4>1. Head(c.buffer).part = "body" /\ Head(c.buffer).of = d
        BY <3>1, <3>3 DEF BodyPart
      <4> QED BY <4>1, <1>2, <1>7
    <3> QED BY <3>2, <3>3, <1>2
  <2> QED BY <2>1, <2>2 DEF UdpInv, BufferInv
<1>9. BufferInv'
  BY <1>1, <1>5, <1>6, <1>7, <1>8 DEF UdpInv, BufferInv
<1> QED BY <1>5, <1>9 DEF UdpInv, SessionInv

(* The other steps of the thread touch neither boxes nor reports. *)
LEMMA ThreadKeepsUdp ==
    ASSUME UdpInv, ReadTurn \/ ReadNone \/ ReadNext \/ ReadFails
    PROVE  UdpInv'
<1>1. BufferInv'
  <2>1. /\ UNCHANGED <<received, from, clients, reports>> /\ reader' # "notify"
        /\ reader = "notify" => clients[from].buffer = <<>>
    BY DEF ReadTurn, ReadNone, ReadNext, ReadFails, ReaderAt
  <2>2. \A d : ~UnderWay(d)
    BY <2>1 DEF UnderWay
  <2> QED BY <2>1, <2>2 DEF UdpInv, BufferInv
<1>2. SessionInv'
  BY DEF UdpInv, SessionInv, ReadTurn, ReadNone, ReadNext, ReadFails, ReaderAt, udpUserVars,
         udpSockets, NoFSocket
<1> QED BY <1>1, <1>2 DEF UdpInv

(* Start finds no thread and no socket, and Close leaves none. *)
LEMMA UserKeepsUdp ==
    ASSUME UdpInv, StartUdp \/ BeginUdpClose \/ EndUdpClose
    PROVE  UdpInv'
<1>1. /\ UNCHANGED <<from, copied>>
      /\ \/ UNCHANGED <<received, reports>>
         \/ received' = {} /\ reports' = {} /\ clients' = <<>>
  <2>1. CASE StartUdp
    BY <2>1 DEF StartUdp
  <2>2. CASE BeginUdpClose
    BY <2>2 DEF BeginUdpClose, readerVars
  <2>3. CASE EndUdpClose
    BY <2>3 DEF EndUdpClose
  <2> QED BY <2>1, <2>2, <2>3
<1>2. SessionInv'
  <2>1. CASE StartUdp
    <3>1. /\ udpStarts' = udpStarts + 1 /\ udpStarts \in Nat /\ udpUser' = udpUser
          /\ udpUser = "idle" /\ copied' = copied
      BY <2>1 DEF UdpInv, SessionInv, StartUdp
    <3>2. ~udpClosing' /\ udpClosing' \in BOOLEAN /\ udpSelfClose' \in BOOLEAN
      BY <2>1 DEF StartUdp
    <3>3. reader \in {"none", "exited"} /\ udpSocket = NoFSocket /\ udpSessions = {}
      BY <2>1, Zenon DEF UdpInv, SessionInv, StartUdp
    <3>4. \/ udpSocket' = udpStarts + 1 /\ udpSessions' = {udpStarts + 1} /\ reader' = "turn"
          \/ udpSocket' = NoFSocket /\ udpSessions' = {} /\ reader' = reader
      BY <2>1, <3>3 DEF StartUdp
    <3> QED BY <3>1, <3>2, <3>3, <3>4 DEF SessionInv, NoFSocket
  <2>2. CASE BeginUdpClose
    BY <2>2 DEF UdpInv, SessionInv, BeginUdpClose, readerVars, udpSockets
  <2>3. CASE EndUdpClose
    BY <2>3 DEF UdpInv, SessionInv, EndUdpClose, NoFSocket
  <2> QED BY <2>1, <2>2, <2>3
<1>3. DOMAIN << >> = {}
  OBVIOUS
<1>4. <<>> \in [{} -> Boxes]
  BY <1>3
<1>5. clients' = clients \/ clients' = <<>>
  BY DEF StartUdp, BeginUdpClose, EndUdpClose, readerVars
<1>6. \/ clients' = clients /\ reader' = reader /\ UNCHANGED <<received, reports>>
      \/ clients' = <<>> /\ reader' # "notify" /\ reader # "notify"
  BY DEF UdpInv, SessionInv, StartUdp, BeginUdpClose, EndUdpClose, readerVars
<1>7. BufferInv'
  <2>1. CASE clients' = clients /\ reader' = reader /\ UNCHANGED <<received, reports>>
    BY <2>1, <1>1 DEF UdpInv, BufferInv, UnderWay
  <2>2. CASE clients' = <<>> /\ reader' # "notify" /\ reader # "notify"
    <3>1. \A d \in received : Report(d) \in reports
      BY <2>2 DEF UdpInv, BufferInv, UnderWay
    <3> QED BY <2>2, <3>1, <1>1, <1>3, <1>4 DEF UdpInv, BufferInv
  <2> QED BY <1>6, <2>1, <2>2
<1> QED BY <1>2, <1>7 DEF UdpInv

(* No step of sender, network, thread or user breaks the invariant. *)
LEMMA UdpInvStep == UdpInv /\ [UdpNext]_udpVars => UdpInv'
<1> SUFFICES ASSUME UdpInv, [UdpNext]_udpVars PROVE UdpInv'
  OBVIOUS
<1>1. CASE UNCHANGED udpVars
  BY <1>1 DEF udpVars, networkVars, readerVars, udpUserVars, udpSockets, UdpInv, BufferInv, UnderWay,
     SessionInv
<1>2. CASE UdpNext
  BY <1>2, NetworkKeepsUdp, DatagramKeepsUdp, NotifyKeepsUdp, ThreadKeepsUdp, UserKeepsUdp
     DEF UdpNext, ReaderStep
<1> QED BY <1>1, <1>2

(* The receiver reports, whole and under the sender's name, the packets of *)
(* the datagrams its thread took since Start, every one of them and no     *)
(* other, whatever the network loses, doubles or reorders; the thread      *)
(* never uses a destroyed FSocket, and nothing of it outlives Close. *)
THEOREM UdpSafety == UdpSpec => []UdpReceiverIsSound
<1>1. UdpInv => UdpReceiverIsSound
  BY DEF UdpInv, BufferInv, SessionInv, UnderWay, UdpReceiverIsSound, ReportsAreWhole,
         ReadSocketExists, UdpClosedIsQuiet, NoFSocket
<1> QED BY <1>1, UdpInvInit, UdpInvStep, PTL DEF UdpSpec

-----------------------------------------------------------------------------
(* What TLS connections are admitted.                                      *)

KeyFiles == {Unset, "other", "matching"}

CallTypes ==
    [op : {"pin"}, digest : Keys \cup {Unset}] \cup [op : {"pinFile"}, digest : Keys \cup {Broken}]
    \cup [op : {"verify", "disable"}] \cup [op : {"selfSigned"}, allowed : BOOLEAN]
    \cup [op : {"ca"}, content : Signers \cup {Unset, Broken}]
    \cup [op : {"certificate"}, cert : Authorities \cup {Unset, Broken}, key : KeyFiles]
    \cup [op : {"server"}, content : Keys]

SettingTypes ==
    [identity : Identities, protocol : 0 .. 2, verifyPeer : BOOLEAN, allowSelfSigned : BOOLEAN,
     pinRequested : BOOLEAN, pin : Keys \cup {Unset}, trustedCa : Signers \cup {Unset, Broken},
     clientCert : Authorities \cup {Unset, Broken}, clientKey : KeyFiles]

PolicyTypes ==
    /\ settings \in SettingTypes /\ calls \in Seq(CallTypes)
    /\ asked \in [identity : Identities, protocol : Protocols]
    /\ settings.identity = asked.identity /\ settings.protocol \in {asked.protocol, 2}
    /\ certFile \in Keys \cup {Unset}

Latest(S, i) == i \in S /\ \A j \in S : j <= i

VerifyOps == {"verify", "disable"}
SelfOps   == {"selfSigned", "disable"}
PinOps    == {"pin", "pinFile"}

(* Each setting is what the last call that speaks of it says, and          *)
(* SSL_CERT_FILE what the first server says. *)
VerifyInv ==
    \/ Of(VerifyOps) = {} /\ settings.verifyPeer
    \/ \E i \in Of(VerifyOps) :
          Latest(Of(VerifyOps), i) /\ (settings.verifyPeer <=> calls[i].op = "verify")

SelfInv ==
    \/ Of(SelfOps) = {} /\ ~settings.allowSelfSigned
    \/ \E i \in Of(SelfOps) :
          /\ Latest(Of(SelfOps), i)
          /\ settings.allowSelfSigned <=> calls[i].op = "selfSigned" /\ calls[i].allowed

PinInv ==
    /\ settings.pinRequested <=> Of(PinOps) # {}
    /\ \/ PinsGiven = {} /\ settings.pin = Unset
       \/ \E i \in PinsGiven : Latest(PinsGiven, i) /\ settings.pin = calls[i].digest

CaInv ==
    \/ Of({"ca"}) = {} /\ settings.trustedCa = Unset
    \/ \E i \in Of({"ca"}) : Latest(Of({"ca"}), i) /\ settings.trustedCa = calls[i].content

CertInv ==
    \/ Of({"certificate"}) = {} /\ settings.clientCert = Unset /\ settings.clientKey = Unset
    \/ \E i \in Of({"certificate"}) :
          /\ Latest(Of({"certificate"}), i)
          /\ settings.clientCert = calls[i].cert /\ settings.clientKey = calls[i].key

ServerInv ==
    \/ Of({"server"}) = {} /\ certFile = Unset
    \/ \E i \in Of({"server"}) :
          (\A j \in Of({"server"}) : i <= j) /\ certFile = calls[i].content /\ certFile \in Keys

PolicyInv == PolicyTypes /\ VerifyInv /\ SelfInv /\ PinInv /\ CaInv /\ CertInv /\ ServerInv

(* The last call of a set of calls. *)
LEMMA LastIs ==
    ASSUME NEW S \in SUBSET Nat, NEW i, Latest(S, i)
    PROVE  S # {} /\ LastOf(S) = calls[i]
<1> DEFINE l == CHOOSE k \in S : \A j \in S : j <= k
<1>1. l \in S /\ \A j \in S : j <= l
  BY DEF Latest
<1>2. l = i
  <2> HIDE DEF l
  <2> QED BY <1>1 DEF Latest
<1> QED BY <1>2 DEF LastOf, Latest

(* The calls of some kinds, by their place. *)
LEMMA OfIsPlaces ==
    ASSUME PolicyInv, NEW ops
    PROVE  Of(ops) \in SUBSET Nat /\ PinsGiven \in SUBSET Nat
BY DEF Of, PinsGiven

(* A call of another kind changes nothing of what is known of these. *)
LEMMA OtherCall ==
    ASSUME PolicyInv, NEW call \in CallTypes, NEW s, Called(call, s), NEW ops, call.op \notin ops
    PROVE  Of(ops)' = Of(ops) /\ \A i \in Of(ops) : calls'[i] = calls[i]
<1>1. calls \in Seq(CallTypes) /\ calls' = Append(calls, call)
  BY DEF PolicyInv, PolicyTypes, Called
<1>2. Len(calls) \in Nat /\ Len(calls') = Len(calls) + 1 /\ calls'[Len(calls) + 1] = call
      /\ \A i \in 1 .. Len(calls) : calls'[i] = calls[i]
  BY <1>1
<1> QED BY <1>2 DEF Of

(* A call of these kinds is the last of them. *)
LEMMA NewCall ==
    ASSUME PolicyInv, NEW call \in CallTypes, NEW s, Called(call, s), NEW ops, call.op \in ops
    PROVE  /\ Of(ops)' = Of(ops) \cup {Len(calls) + 1}
           /\ Latest(Of(ops)', Len(calls) + 1)
           /\ calls'[Len(calls) + 1] = call
           /\ \A i \in Of(ops) : calls'[i] = calls[i] /\ i <= Len(calls) + 1
<1>1. calls \in Seq(CallTypes) /\ calls' = Append(calls, call)
  BY DEF PolicyInv, PolicyTypes, Called
<1>2. Len(calls) \in Nat /\ Len(calls') = Len(calls) + 1 /\ calls'[Len(calls) + 1] = call
      /\ \A i \in 1 .. Len(calls) : calls'[i] = calls[i]
  BY <1>1
<1>3. Of(ops)' = Of(ops) \cup {Len(calls) + 1}
  BY <1>2 DEF Of
<1>4. \A i \in Of(ops) : i <= Len(calls) + 1 /\ calls'[i] = calls[i]
  BY <1>2 DEF Of
<1> QED BY <1>2, <1>3, <1>4 DEF Latest

(* One lemma per part: it holds after a call that is not about the setting *)
(* and leaves it, or that is about it and sets it. *)
LEMMA VerifyStep ==
    ASSUME PolicyInv, NEW call \in CallTypes, NEW s, Called(call, s),
           \/ call.op \notin VerifyOps /\ s.verifyPeer = settings.verifyPeer
           \/ call.op \in VerifyOps /\ (s.verifyPeer <=> call.op = "verify")
    PROVE  VerifyInv'
<1>1. settings' = s
  BY DEF Called
<1>2. CASE call.op \notin VerifyOps /\ s.verifyPeer = settings.verifyPeer
  <2>1. Of(VerifyOps)' = Of(VerifyOps) /\ \A i \in Of(VerifyOps) : calls'[i] = calls[i]
    BY <1>2, OtherCall
  <2> QED BY <1>1, <1>2, <2>1, Zenon DEF PolicyInv, VerifyInv, Latest
<1>3. CASE call.op \in VerifyOps /\ (s.verifyPeer <=> call.op = "verify")
  <2>1. Latest(Of(VerifyOps)', Len(calls) + 1) /\ calls'[Len(calls) + 1] = call
    BY <1>3, NewCall
  <2> QED BY <1>1, <1>3, <2>1, Zenon DEF VerifyInv, Latest
<1> QED BY <1>2, <1>3

(* Self-signed certificates. *)
LEMMA SelfStep ==
    ASSUME PolicyInv, NEW call \in CallTypes, NEW s, Called(call, s),
           \/ call.op \notin SelfOps /\ s.allowSelfSigned = settings.allowSelfSigned
           \/ /\ call.op \in SelfOps
              /\ s.allowSelfSigned <=> call.op = "selfSigned" /\ call.allowed
    PROVE  SelfInv'
<1>1. settings' = s
  BY DEF Called
<1>2. CASE call.op \notin SelfOps /\ s.allowSelfSigned = settings.allowSelfSigned
  <2>1. Of(SelfOps)' = Of(SelfOps) /\ \A i \in Of(SelfOps) : calls'[i] = calls[i]
    BY <1>2, OtherCall
  <2> QED BY <1>1, <1>2, <2>1, Zenon DEF PolicyInv, SelfInv, Latest
<1>3. CASE call.op \in SelfOps /\ (s.allowSelfSigned <=> call.op = "selfSigned" /\ call.allowed)
  <2>1. Latest(Of(SelfOps)', Len(calls) + 1) /\ calls'[Len(calls) + 1] = call
    BY <1>3, NewCall
  <2> QED BY <1>1, <1>3, <2>1, Zenon DEF SelfInv, Latest
<1> QED BY <1>2, <1>3

(* Pins, with the files that cannot be read. *)
LEMMA PinStep ==
    ASSUME PolicyInv, NEW call \in CallTypes, NEW s, Called(call, s),
           \/ /\ call.op \notin PinOps
              /\ s.pinRequested = settings.pinRequested /\ s.pin = settings.pin
           \/ /\ call.op \in PinOps /\ s.pinRequested
              /\ s.pin = IF call.digest = Broken THEN settings.pin ELSE call.digest
    PROVE  PinInv'
<1>1. settings' = s
  BY DEF Called
<1>2. CASE call.op \notin PinOps /\ s.pinRequested = settings.pinRequested /\ s.pin = settings.pin
  <2>1. Of(PinOps)' = Of(PinOps) /\ \A i \in Of(PinOps) : calls'[i] = calls[i]
    BY <1>2, OtherCall
  <2>2. PinsGiven' = PinsGiven /\ \A i \in PinsGiven : calls'[i] = calls[i]
    BY <2>1 DEF PinsGiven, PinOps
  <2>3. settings'.pinRequested <=> Of(PinOps)' # {}
    BY <1>1, <1>2, <2>1, Zenon DEF PolicyInv, PinInv
  <2>4. \/ PinsGiven' = {} /\ settings'.pin = Unset
        \/ \E i \in PinsGiven' : Latest(PinsGiven', i) /\ settings'.pin = calls'[i].digest
    BY <1>1, <1>2, <2>2, Zenon DEF PolicyInv, PinInv, Latest
  <2> QED BY <2>3, <2>4 DEF PinInv, Latest
<1>3. CASE call.op \in PinOps /\ s.pinRequested
           /\ s.pin = IF call.digest = Broken THEN settings.pin ELSE call.digest
  <2>1. /\ Of(PinOps)' = Of(PinOps) \cup {Len(calls) + 1}
        /\ calls'[Len(calls) + 1] = call
        /\ \A i \in Of(PinOps) : calls'[i] = calls[i] /\ i <= Len(calls) + 1
    BY <1>3, NewCall
  <2>2. settings'.pinRequested <=> Of(PinOps)' # {}
    BY <1>1, <1>3, <2>1, Zenon
  <2>3. CASE call.digest = Broken
    <3>1. PinsGiven' = PinsGiven /\ \A i \in PinsGiven : calls'[i] = calls[i]
      BY <2>1, <2>3 DEF PinsGiven, PinOps
    <3>2. settings'.pin = settings.pin
      BY <1>1, <1>3, <2>3
    <3>3. \/ PinsGiven' = {} /\ settings'.pin = Unset
          \/ \E i \in PinsGiven' : Latest(PinsGiven', i) /\ settings'.pin = calls'[i].digest
      BY <3>1, <3>2, Zenon DEF PolicyInv, PinInv, Latest
    <3> QED BY <2>2, <3>3 DEF PinInv, Latest
  <2>4. CASE call.digest # Broken
    <3>1. PinsGiven' = PinsGiven \cup {Len(calls) + 1}
      BY <2>1, <2>4 DEF PinsGiven, PinOps
    <3>2. Len(calls) + 1 \in Nat /\ \A i \in PinsGiven : i <= Len(calls) + 1
      BY <2>1 DEF PinsGiven, PinOps, PolicyInv, PolicyTypes
    <3>3. Latest(PinsGiven', Len(calls) + 1)
      BY <3>1, <3>2 DEF Latest
    <3>4. settings'.pin = calls'[Len(calls) + 1].digest
      BY <1>1, <1>3, <2>1, <2>4
    <3> QED BY <2>2, <3>1, <3>3, <3>4 DEF PinInv, Latest
  <2> QED BY <2>3, <2>4
<1> QED BY <1>2, <1>3

(* The authority. *)
LEMMA CaStep ==
    ASSUME PolicyInv, NEW call \in CallTypes, NEW s, Called(call, s),
           \/ call.op \notin {"ca"} /\ s.trustedCa = settings.trustedCa
           \/ call.op \in {"ca"} /\ s.trustedCa = call.content
    PROVE  CaInv'
<1>1. settings' = s
  BY DEF Called
<1>2. CASE call.op \notin {"ca"} /\ s.trustedCa = settings.trustedCa
  <2>1. Of({"ca"})' = Of({"ca"}) /\ \A i \in Of({"ca"}) : calls'[i] = calls[i]
    BY <1>2, OtherCall
  <2> QED BY <1>1, <1>2, <2>1, Zenon DEF PolicyInv, CaInv, Latest
<1>3. CASE call.op \in {"ca"} /\ s.trustedCa = call.content
  <2>1. Latest(Of({"ca"})', Len(calls) + 1) /\ calls'[Len(calls) + 1] = call
    BY <1>3, NewCall
  <2> QED BY <1>1, <1>3, <2>1, Zenon DEF CaInv, Latest
<1> QED BY <1>2, <1>3

(* The client's certificate and key. *)
LEMMA CertStep ==
    ASSUME PolicyInv, NEW call \in CallTypes, NEW s, Called(call, s),
           \/ /\ call.op \notin {"certificate"}
              /\ s.clientCert = settings.clientCert /\ s.clientKey = settings.clientKey
           \/ /\ call.op \in {"certificate"}
              /\ s.clientCert = call.cert /\ s.clientKey = call.key
    PROVE  CertInv'
<1>1. settings' = s
  BY DEF Called
<1>2. CASE /\ call.op \notin {"certificate"}
           /\ s.clientCert = settings.clientCert /\ s.clientKey = settings.clientKey
  <2>1. /\ Of({"certificate"})' = Of({"certificate"})
        /\ \A i \in Of({"certificate"}) : calls'[i] = calls[i]
    BY <1>2, OtherCall
  <2> QED BY <1>1, <1>2, <2>1, Zenon DEF PolicyInv, CertInv, Latest
<1>3. CASE call.op \in {"certificate"} /\ s.clientCert = call.cert /\ s.clientKey = call.key
  <2>1. Latest(Of({"certificate"})', Len(calls) + 1) /\ calls'[Len(calls) + 1] = call
    BY <1>3, NewCall
  <2> QED BY <1>1, <1>3, <2>1, Zenon DEF CertInv, Latest
<1> QED BY <1>2, <1>3

(* SSL_CERT_FILE. *)
LEMMA ServerStep ==
    ASSUME PolicyInv, NEW call \in CallTypes, NEW s, Called(call, s),
           \/ call.op \notin {"server"} /\ certFile' = certFile
           \/ /\ call.op \in {"server"} /\ call.content \in Keys
              /\ certFile' = IF certFile = Unset THEN call.content ELSE certFile
    PROVE  ServerInv'
<1>1. CASE call.op \notin {"server"} /\ certFile' = certFile
  <2>1. Of({"server"})' = Of({"server"}) /\ \A i \in Of({"server"}) : calls'[i] = calls[i]
    BY <1>1, OtherCall
  <2> QED BY <1>1, <2>1, Zenon DEF PolicyInv, ServerInv
<1>2. CASE /\ call.op \in {"server"} /\ call.content \in Keys
           /\ certFile' = IF certFile = Unset THEN call.content ELSE certFile
  <2> DEFINE n == Len(calls) + 1
  <2>1. /\ Of({"server"})' = Of({"server"}) \cup {n} /\ calls'[n] = call
        /\ \A i \in Of({"server"}) : calls'[i] = calls[i] /\ i <= n
    BY <1>2, NewCall
  <2>2. n \in Nat
    BY DEF PolicyInv, PolicyTypes
  <2> HIDE DEF n
  <2>3. CASE Of({"server"}) = {} /\ certFile = Unset
    BY <1>2, <2>1, <2>2, <2>3 DEF ServerInv
  <2>4. CASE Of({"server"}) # {}
    <3>1. PICK i \in Of({"server"}) :
             (\A j \in Of({"server"}) : i <= j) /\ certFile = calls[i].content /\ certFile \in Keys
      BY <2>4 DEF PolicyInv, ServerInv
    <3>2. certFile # Unset
      BY <3>1, TlsPolicyAssumption DEF Signers
    <3> QED BY <1>2, <2>1, <3>1, <3>2 DEF ServerInv
  <2> QED BY <2>3, <2>4 DEF PolicyInv, ServerInv
<1> QED BY <1>1, <1>2

(* The members a factory leaves. *)
LEMMA PolicyInvInit == PolicyInit => PolicyInv
<1> SUFFICES ASSUME PolicyInit PROVE PolicyInv
  OBVIOUS
<1>1. calls = <<>> /\ certFile = Unset
  BY DEF PolicyInit
<1>2. \A ops : Of(ops) = {}
  BY <1>1 DEF Of
<1>3. PICK i \in Identities, p \in Protocols, found \in BOOLEAN :
         InitializeTls(i, p, found) /\ asked = [identity |-> i, protocol |-> p]
  BY DEF PolicyInit
<1>4. /\ settings.identity = i /\ settings.verifyPeer = TRUE /\ settings.allowSelfSigned = FALSE
      /\ settings.pinRequested = FALSE /\ settings.pin = Unset /\ settings.trustedCa = Unset
      /\ settings.clientCert = Unset /\ settings.clientKey = Unset
      /\ settings.protocol \in {p, 2}
  BY <1>3 DEF InitializeTls
<1>5. settings \in SettingTypes
  <2>1. p \in 0 .. 2
    BY TlsPolicyAssumption
  <2>2. (IF found THEN p ELSE 2) \in 0 .. 2
    BY <2>1
  <2> QED BY <1>3, <2>2 DEF InitializeTls, SettingTypes, KeyFiles
<1>6. PolicyTypes
  BY <1>1, <1>3, <1>4, <1>5 DEF PolicyTypes
<1>7. PinsGiven = {}
  BY <1>2 DEF PinsGiven
<1> QED
  BY <1>1, <1>2, <1>4, <1>6, <1>7
  DEF PolicyInv, VerifyInv, SelfInv, PinInv, CaInv, CertInv, ServerInv

(* Types are kept by a call of a known kind. *)
LEMMA TypesStep ==
    ASSUME PolicyInv, NEW call \in CallTypes, NEW s \in SettingTypes, Called(call, s),
           s.identity = settings.identity, s.protocol = settings.protocol,
           certFile' \in Keys \cup {Unset}
    PROVE  PolicyTypes'
<1>1. calls' \in Seq(CallTypes)
  BY DEF PolicyInv, PolicyTypes, Called
<1> QED BY <1>1 DEF PolicyInv, PolicyTypes, Called

(* The calls about a pin. *)
LEMMA PinCallsKeep ==
    ASSUME PolicyInv,
           \/ \E d \in Keys \cup {Unset} : WithPinnedPublicKey(d)
           \/ \E f \in Keys \cup {Broken} : WithPinnedPublicKeyFromFile(f)
    PROVE  PolicyInv'
<1>1. settings \in SettingTypes /\ certFile \in Keys \cup {Unset}
  BY DEF PolicyInv, PolicyTypes
<1>2. ASSUME NEW d \in Keys \cup {Unset}, WithPinnedPublicKey(d) PROVE PolicyInv'
  <2> DEFINE call == [op |-> "pin", digest |-> d]
             s == [settings EXCEPT !.pinRequested = TRUE, !.pin = d]
  <2>1. Called(call, s) /\ certFile' = certFile
    BY <1>2 DEF WithPinnedPublicKey
  <2>2. call \in CallTypes /\ call.op = "pin" /\ call.digest = d /\ d # Broken
    BY TlsPolicyAssumption DEF CallTypes, Unset, Broken, Signers
  <2>3. /\ s \in SettingTypes /\ s.pinRequested /\ s.pin = d
        /\ s.identity = settings.identity /\ s.protocol = settings.protocol
        /\ s.verifyPeer = settings.verifyPeer /\ s.allowSelfSigned = settings.allowSelfSigned
        /\ s.trustedCa = settings.trustedCa
        /\ s.clientCert = settings.clientCert /\ s.clientKey = settings.clientKey
    BY <1>1 DEF SettingTypes
  <2> HIDE DEF call, s
  <2>4. PolicyTypes'
    BY <1>1, <2>1, <2>2, <2>3, TypesStep
  <2>5. VerifyInv' /\ SelfInv'
    BY <2>1, <2>2, <2>3, VerifyStep, SelfStep DEF VerifyOps, SelfOps
  <2>6. PinInv'
    BY <2>1, <2>2, <2>3, PinStep DEF PinOps
  <2>7. CaInv' /\ CertInv' /\ ServerInv'
    BY <2>1, <2>2, <2>3, CaStep, CertStep, ServerStep
  <2> QED BY <2>4, <2>5, <2>6, <2>7 DEF PolicyInv
<1>3. ASSUME NEW f \in Keys \cup {Broken}, WithPinnedPublicKeyFromFile(f) PROVE PolicyInv'
  <2> DEFINE call == [op |-> "pinFile", digest |-> f]
             s == [settings EXCEPT !.pinRequested = TRUE, !.pin = IF f = Broken THEN @ ELSE f]
  <2>1. Called(call, s) /\ certFile' = certFile
    BY <1>3 DEF WithPinnedPublicKeyFromFile
  <2>2. call \in CallTypes /\ call.op = "pinFile" /\ call.digest = f
    BY DEF CallTypes
  <2>3. /\ s \in SettingTypes /\ s.pinRequested
        /\ s.pin = IF f = Broken THEN settings.pin ELSE f
        /\ s.identity = settings.identity /\ s.protocol = settings.protocol
        /\ s.verifyPeer = settings.verifyPeer /\ s.allowSelfSigned = settings.allowSelfSigned
        /\ s.trustedCa = settings.trustedCa
        /\ s.clientCert = settings.clientCert /\ s.clientKey = settings.clientKey
    BY <1>1 DEF SettingTypes
  <2> HIDE DEF call, s
  <2>4. PolicyTypes'
    BY <1>1, <2>1, <2>2, <2>3, TypesStep
  <2>5. VerifyInv' /\ SelfInv'
    BY <2>1, <2>2, <2>3, VerifyStep, SelfStep DEF VerifyOps, SelfOps
  <2>6. PinInv'
    BY <2>1, <2>2, <2>3, PinStep DEF PinOps
  <2>7. CaInv' /\ CertInv' /\ ServerInv'
    BY <2>1, <2>2, <2>3, CaStep, CertStep, ServerStep
  <2> QED BY <2>4, <2>5, <2>6, <2>7 DEF PolicyInv
<1> QED BY <1>2, <1>3

(* The calls about verification. *)
LEMMA VerificationCallsKeep ==
    ASSUME PolicyInv,
           \/ WithCertificateVerification \/ WithPeerVerificationDisabled
           \/ \E a \in BOOLEAN : WithAllowSelfSignedCertificates(a)
    PROVE  PolicyInv'
<1>1. settings \in SettingTypes /\ certFile \in Keys \cup {Unset}
  BY DEF PolicyInv, PolicyTypes
<1>2. ASSUME NEW call \in CallTypes, NEW s \in SettingTypes, Called(call, s), certFile' = certFile,
             call.op \in {"verify", "disable", "selfSigned"},
             s.identity = settings.identity, s.protocol = settings.protocol,
             s.pinRequested = settings.pinRequested, s.pin = settings.pin,
             s.trustedCa = settings.trustedCa,
             s.clientCert = settings.clientCert, s.clientKey = settings.clientKey
      PROVE  PolicyTypes' /\ PinInv' /\ CaInv' /\ CertInv' /\ ServerInv'
  <2>1. PolicyTypes'
    BY <1>1, <1>2, TypesStep
  <2>2. call.op \notin PinOps /\ call.op \notin {"ca"} /\ call.op \notin {"certificate"}
        /\ call.op \notin {"server"}
    BY <1>2 DEF PinOps
  <2>3. PinInv' /\ CaInv'
    BY <1>2, <2>2, PinStep, CaStep
  <2>4. CertInv' /\ ServerInv'
    BY <1>2, <2>2, CertStep, ServerStep
  <2> QED BY <2>1, <2>3, <2>4
<1>3. CASE WithCertificateVerification
  <2> DEFINE call == [op |-> "verify"]
             s == [settings EXCEPT !.verifyPeer = TRUE]
  <2>1. Called(call, s) /\ certFile' = certFile /\ call \in CallTypes /\ call.op = "verify"
    BY <1>3 DEF WithCertificateVerification, CallTypes
  <2>2. /\ s \in SettingTypes /\ s.verifyPeer /\ s.identity = settings.identity
        /\ s.protocol = settings.protocol /\ s.allowSelfSigned = settings.allowSelfSigned
        /\ s.pinRequested = settings.pinRequested /\ s.pin = settings.pin
        /\ s.trustedCa = settings.trustedCa
        /\ s.clientCert = settings.clientCert /\ s.clientKey = settings.clientKey
    BY <1>1 DEF SettingTypes
  <2> HIDE DEF call, s
  <2>3. VerifyInv' /\ SelfInv'
    BY <2>1, <2>2, VerifyStep, SelfStep DEF VerifyOps, SelfOps
  <2>4. PolicyTypes' /\ PinInv' /\ CaInv' /\ CertInv' /\ ServerInv'
    BY <2>1, <2>2, <1>2
  <2> QED BY <2>3, <2>4 DEF PolicyInv
<1>4. CASE WithPeerVerificationDisabled
  <2> DEFINE call == [op |-> "disable"]
             s == [settings EXCEPT !.verifyPeer = FALSE, !.allowSelfSigned = FALSE]
  <2>1. Called(call, s) /\ certFile' = certFile /\ call \in CallTypes /\ call.op = "disable"
    BY <1>4 DEF WithPeerVerificationDisabled, CallTypes
  <2>2. /\ s \in SettingTypes /\ ~s.verifyPeer /\ s.identity = settings.identity
        /\ s.protocol = settings.protocol /\ ~s.allowSelfSigned
        /\ s.pinRequested = settings.pinRequested /\ s.pin = settings.pin
        /\ s.trustedCa = settings.trustedCa
        /\ s.clientCert = settings.clientCert /\ s.clientKey = settings.clientKey
    BY <1>1 DEF SettingTypes
  <2> HIDE DEF call, s
  <2>3. VerifyInv' /\ SelfInv'
    BY <2>1, <2>2, VerifyStep, SelfStep DEF VerifyOps, SelfOps
  <2>4. PolicyTypes' /\ PinInv' /\ CaInv' /\ CertInv' /\ ServerInv'
    BY <2>1, <2>2, <1>2
  <2> QED BY <2>3, <2>4 DEF PolicyInv
<1>5. ASSUME NEW a \in BOOLEAN, WithAllowSelfSignedCertificates(a) PROVE PolicyInv'
  <2> DEFINE call == [op |-> "selfSigned", allowed |-> a]
             s == [settings EXCEPT !.allowSelfSigned = a]
  <2>1. Called(call, s) /\ certFile' = certFile /\ call \in CallTypes /\ call.op = "selfSigned"
        /\ call.allowed = a
    BY <1>5 DEF WithAllowSelfSignedCertificates, CallTypes
  <2>2. /\ s \in SettingTypes /\ s.verifyPeer = settings.verifyPeer
        /\ s.identity = settings.identity
        /\ s.protocol = settings.protocol /\ s.allowSelfSigned = a
        /\ s.pinRequested = settings.pinRequested /\ s.pin = settings.pin
        /\ s.trustedCa = settings.trustedCa
        /\ s.clientCert = settings.clientCert /\ s.clientKey = settings.clientKey
    BY <1>1 DEF SettingTypes
  <2> HIDE DEF call, s
  <2>3. VerifyInv' /\ SelfInv'
    BY <2>1, <2>2, VerifyStep, SelfStep DEF VerifyOps, SelfOps
  <2>4. PolicyTypes' /\ PinInv' /\ CaInv' /\ CertInv' /\ ServerInv'
    BY <2>1, <2>2, <1>2
  <2> QED BY <2>3, <2>4 DEF PolicyInv
<1> QED BY <1>3, <1>4, <1>5

(* The calls about files, and a server of the same process. *)
LEMMA FileCallsKeep ==
    ASSUME PolicyInv,
           \/ \E f \in Signers \cup {Unset, Broken} : WithTrustedCaCertificate(f)
           \/ \E c \in Authorities \cup {Unset, Broken}, k \in {Unset, "other", "matching"} :
                 WithClientCertificate(c, k)
           \/ \E k \in Keys : InitializeServer(k)
    PROVE  PolicyInv'
<1>1. settings \in SettingTypes /\ certFile \in Keys \cup {Unset}
  BY DEF PolicyInv, PolicyTypes
<1>2. ASSUME NEW call \in CallTypes, NEW s \in SettingTypes, Called(call, s),
             certFile' \in Keys \cup {Unset}, call.op \in {"ca", "certificate", "server"},
             s.identity = settings.identity, s.protocol = settings.protocol,
             s.verifyPeer = settings.verifyPeer, s.allowSelfSigned = settings.allowSelfSigned,
             s.pinRequested = settings.pinRequested, s.pin = settings.pin
      PROVE  PolicyTypes' /\ VerifyInv' /\ SelfInv' /\ PinInv'
  <2>1. PolicyTypes'
    BY <1>1, <1>2, TypesStep
  <2>2. call.op \notin PinOps /\ call.op \notin VerifyOps /\ call.op \notin SelfOps
    BY <1>2 DEF PinOps, VerifyOps, SelfOps
  <2>3. VerifyInv' /\ SelfInv'
    BY <1>2, <2>2, VerifyStep, SelfStep
  <2>4. PinInv'
    BY <1>2, <2>2, PinStep
  <2> QED BY <2>1, <2>3, <2>4
<1>3. ASSUME NEW f \in Signers \cup {Unset, Broken}, WithTrustedCaCertificate(f) PROVE PolicyInv'
  <2> DEFINE call == [op |-> "ca", content |-> f]
             s == [settings EXCEPT !.trustedCa = f]
  <2>1. Called(call, s) /\ certFile' = certFile /\ call \in CallTypes /\ call.op = "ca"
        /\ call.content = f
    BY <1>3 DEF WithTrustedCaCertificate, CallTypes
  <2>2. /\ s \in SettingTypes /\ s.verifyPeer = settings.verifyPeer
        /\ s.allowSelfSigned = settings.allowSelfSigned
        /\ s.identity = settings.identity /\ s.protocol = settings.protocol
        /\ s.pinRequested = settings.pinRequested /\ s.pin = settings.pin /\ s.trustedCa = f
        /\ s.clientCert = settings.clientCert /\ s.clientKey = settings.clientKey
    BY <1>1 DEF SettingTypes
  <2> HIDE DEF call, s
  <2>3. CaInv' /\ CertInv' /\ ServerInv'
    BY <2>1, <2>2, CaStep, CertStep, ServerStep
  <2>4. PolicyTypes' /\ VerifyInv' /\ SelfInv' /\ PinInv'
    BY <1>1, <2>1, <2>2, <1>2
  <2> QED BY <2>3, <2>4 DEF PolicyInv
<1>4. ASSUME NEW c \in Authorities \cup {Unset, Broken}, NEW k \in {Unset, "other", "matching"},
             WithClientCertificate(c, k)
      PROVE  PolicyInv'
  <2> DEFINE call == [op |-> "certificate", cert |-> c, key |-> k]
             s == [settings EXCEPT !.clientCert = c, !.clientKey = k]
  <2>1. Called(call, s) /\ certFile' = certFile /\ call \in CallTypes /\ call.op = "certificate"
        /\ call.cert = c /\ call.key = k
    BY <1>4 DEF WithClientCertificate, CallTypes, KeyFiles
  <2>2. /\ s \in SettingTypes /\ s.verifyPeer = settings.verifyPeer
        /\ s.allowSelfSigned = settings.allowSelfSigned
        /\ s.identity = settings.identity /\ s.protocol = settings.protocol
        /\ s.pinRequested = settings.pinRequested /\ s.pin = settings.pin
        /\ s.trustedCa = settings.trustedCa /\ s.clientCert = c /\ s.clientKey = k
    BY <1>1 DEF SettingTypes, KeyFiles
  <2> HIDE DEF call, s
  <2>3. CaInv' /\ CertInv' /\ ServerInv'
    BY <2>1, <2>2, CaStep, CertStep, ServerStep
  <2>4. PolicyTypes' /\ VerifyInv' /\ SelfInv' /\ PinInv'
    BY <1>1, <2>1, <2>2, <1>2
  <2> QED BY <2>3, <2>4 DEF PolicyInv
<1>5. ASSUME NEW k \in Keys, InitializeServer(k) PROVE PolicyInv'
  <2> DEFINE call == [op |-> "server", content |-> k]
  <2>1. /\ Called(call, settings) /\ call \in CallTypes /\ call.op = "server" /\ call.content = k
        /\ certFile' = IF certFile = Unset THEN k ELSE certFile
    BY <1>5 DEF InitializeServer, CallTypes
  <2> HIDE DEF call
  <2>2. CaInv' /\ CertInv' /\ ServerInv'
    BY <2>1, CaStep, CertStep, ServerStep
  <2>3. PolicyTypes' /\ VerifyInv' /\ SelfInv' /\ PinInv'
    BY <1>1, <2>1, <1>2
  <2> QED BY <2>2, <2>3 DEF PolicyInv
<1> QED BY <1>3, <1>4, <1>5

(* No call breaks the invariant. *)
LEMMA PolicyInvStep == PolicyInv /\ [PolicyNext]_policyVars => PolicyInv'
<1> SUFFICES ASSUME PolicyInv, [PolicyNext]_policyVars PROVE PolicyInv'
  OBVIOUS
<1>1. CASE UNCHANGED policyVars
  BY <1>1 DEF policyVars, PolicyInv, PolicyTypes, VerifyInv, SelfInv, PinInv, CaInv, CertInv,
     ServerInv, Latest, Of, PinsGiven
<1>2. CASE PolicyNext
  BY <1>2, PinCallsKeep, VerificationCallsKeep, FileCallsKeep DEF PolicyNext
<1> QED BY <1>1, <1>2


(* The settings are what the history of the calls says. *)
LEMMA SettingsAreAsked ==
    ASSUME PolicyInv
    PROVE  /\ Verifies <=> settings.verifyPeer
           /\ SelfSignedAllowed <=> settings.allowSelfSigned
           /\ PinAsked <=> settings.pinRequested
           /\ PinnedKey = settings.pin
           /\ ~settings.pinRequested => settings.pin = Unset
           /\ Trusted = Anchors(settings)
<1>1. Verifies <=> settings.verifyPeer
  <2>1. CASE Of(VerifyOps) = {} /\ settings.verifyPeer
    BY <2>1 DEF Verifies, VerifyOps
  <2>2. ASSUME NEW i, Latest(Of(VerifyOps), i), settings.verifyPeer <=> calls[i].op = "verify"
        PROVE  Verifies <=> settings.verifyPeer
    <3>1. Of(VerifyOps) # {} /\ LastOf(Of(VerifyOps)) = calls[i]
      BY <2>2, LastIs, OfIsPlaces
    <3> QED BY <2>2, <3>1, Zenon DEF Verifies, VerifyOps
  <2> QED BY <2>1, <2>2 DEF PolicyInv, VerifyInv
<1>2. SelfSignedAllowed <=> settings.allowSelfSigned
  <2>1. CASE Of(SelfOps) = {} /\ ~settings.allowSelfSigned
    BY <2>1 DEF SelfSignedAllowed, SelfOps
  <2>2. ASSUME NEW i, Latest(Of(SelfOps), i),
               settings.allowSelfSigned <=> calls[i].op = "selfSigned" /\ calls[i].allowed
        PROVE  SelfSignedAllowed <=> settings.allowSelfSigned
    <3>1. Of(SelfOps) # {} /\ LastOf(Of(SelfOps)) = calls[i]
      BY <2>2, LastIs, OfIsPlaces
    <3> QED BY <2>2, <3>1, Zenon DEF SelfSignedAllowed, SelfOps
  <2> QED BY <2>1, <2>2 DEF PolicyInv, SelfInv
<1>3. PinAsked <=> settings.pinRequested
  BY Zenon DEF PinAsked, PolicyInv, PinInv, PinOps
<1>4. PinnedKey = settings.pin
  <2>1. CASE PinsGiven = {} /\ settings.pin = Unset
    BY <2>1 DEF PinnedKey
  <2>2. ASSUME NEW i, Latest(PinsGiven, i), settings.pin = calls[i].digest
        PROVE  PinnedKey = settings.pin
    <3>1. PinsGiven # {} /\ LastOf(PinsGiven) = calls[i]
      BY <2>2, LastIs, OfIsPlaces
    <3> QED BY <2>2, <3>1 DEF PinnedKey
  <2> QED BY <2>1, <2>2 DEF PolicyInv, PinInv
<1>5. ~settings.pinRequested => settings.pin = Unset
  BY Zenon DEF PolicyInv, PinInv, PinsGiven, PinOps
<1>6. Trusted = Anchors(settings)
  <2> DEFINE CAs == Of({"ca"})
             Servers == Of({"server"})
             first == CHOOSE k \in Servers : \A j \in Servers : k <= j
  <2>1. (IF CAs = {} THEN {} ELSE FileSigners(LastOf(CAs).content)) = FileSigners(settings.trustedCa)
    <3>1. CASE CAs = {} /\ settings.trustedCa = Unset
      BY <3>1, TlsPolicyAssumption DEF FileSigners, Signers
    <3>2. ASSUME NEW i, Latest(CAs, i), settings.trustedCa = calls[i].content
          PROVE  CAs # {} /\ LastOf(CAs).content = settings.trustedCa
      BY <3>2, LastIs, OfIsPlaces
    <3> QED BY <3>1, <3>2 DEF PolicyInv, CaInv
  <2>2. (IF Servers = {} THEN {} ELSE {calls[first].content}) = FileSigners(certFile)
    <3>1. CASE Servers = {} /\ certFile = Unset
      BY <3>1, TlsPolicyAssumption DEF FileSigners, Signers
    <3>2. ASSUME NEW i \in Servers, \A j \in Servers : i <= j,
                 certFile = calls[i].content, certFile \in Keys
          PROVE  Servers # {} /\ {calls[first].content} = FileSigners(certFile)
      <4>1. first \in Servers /\ \A j \in Servers : first <= j
        BY <3>2
      <4>2. Servers \in SUBSET Nat
        BY OfIsPlaces
      <4>3. first = i
        <5> HIDE DEF first, Servers
        <5> QED BY <3>2, <4>1, <4>2
      <4> HIDE DEF first, Servers
      <4> QED BY <3>2, <4>3 DEF FileSigners, Signers
    <3> QED BY <3>1, <3>2 DEF PolicyInv, ServerInv
  <2> QED BY <2>1, <2>2 DEF Trusted, Anchors
<1> QED BY <1>1, <1>2, <1>3, <1>4, <1>5, <1>6

(* Files that cannot be used are noticed. *)
LEMMA FilesAreAsked ==
    ASSUME PolicyInv
    PROVE  LET CAs   == Of({"ca"})
               Certs == Of({"certificate"})
           IN  /\ (CAs # {} => LastOf(CAs).content # Broken) <=> settings.trustedCa # Broken
               /\ (Certs # {} => \/ LastOf(Certs).cert = Unset /\ LastOf(Certs).key = Unset
                                 \/ LastOf(Certs).cert \in Authorities
                                    /\ LastOf(Certs).key = "matching")
                  <=> \/ settings.clientCert = Unset /\ settings.clientKey = Unset
                      \/ PairLoads(settings.clientCert, settings.clientKey)
               /\ settings.clientCert = IF Certs = {} THEN Unset ELSE LastOf(Certs).cert
<1> DEFINE CAs   == Of({"ca"})
           Certs == Of({"certificate"})
<1>1. (CAs # {} => LastOf(CAs).content # Broken) <=> settings.trustedCa # Broken
  <2>1. CASE CAs = {} /\ settings.trustedCa = Unset
    BY <2>1 DEF Unset, Broken
  <2>2. ASSUME NEW i, Latest(CAs, i), settings.trustedCa = calls[i].content
        PROVE  CAs # {} /\ LastOf(CAs).content = settings.trustedCa
    BY <2>2, LastIs, OfIsPlaces
  <2> QED BY <2>1, <2>2 DEF PolicyInv, CaInv
<1>2. \/ Certs = {} /\ settings.clientCert = Unset /\ settings.clientKey = Unset
      \/ /\ Certs # {} /\ LastOf(Certs).cert = settings.clientCert
         /\ LastOf(Certs).key = settings.clientKey
  <2>1. ASSUME NEW i, Latest(Certs, i),
               settings.clientCert = calls[i].cert, settings.clientKey = calls[i].key
        PROVE  /\ Certs # {} /\ LastOf(Certs).cert = settings.clientCert
               /\ LastOf(Certs).key = settings.clientKey
    BY <2>1, LastIs, OfIsPlaces
  <2> QED BY <2>1 DEF PolicyInv, CertInv
<1>3. settings.clientCert \in Authorities <=> settings.clientCert \notin {Unset, Broken}
  <2>1. settings.clientCert \in Authorities \cup {Unset, Broken}
    BY DEF PolicyInv, PolicyTypes, SettingTypes
  <2> QED BY <2>1, TlsPolicyAssumption DEF Signers
<1> QED BY <1>1, <1>2, <1>3 DEF PairLoads

(* A client admits exactly the servers it was asked to. *)
LEMMA ClientFollows == PolicyInv => ClientAsAsked
<1> SUFFICES ASSUME PolicyInv PROVE ClientAsAsked
  OBVIOUS
<1> DEFINE CAs   == Of({"ca"})
           Certs == Of({"certificate"})
           UsableFiles ==
               /\ CAs # {} => LastOf(CAs).content # Broken
               /\ Certs # {} => \/ LastOf(Certs).cert = Unset /\ LastOf(Certs).key = Unset
                                \/ LastOf(Certs).cert \in Authorities
                                   /\ LastOf(Certs).key = "matching"
           Verified(c) ==
               /\ asked.identity \in c.names
               /\ \/ c.signer \in Trusted /\ ~(SelfSignedAllowed /\ IsSelfSigned(c))
                  \/ SelfSignedAllowed /\ IsSelfSigned(c) /\ PinAsked
                  \/ SelfSignedAllowed /\ ~IsSelfSigned(c) /\ c.shown
           AskedFor(peer) ==
               /\ UsableFiles /\ peer.protocol >= asked.protocol
               /\ PinAsked => peer.certificate.key = PinnedKey
               /\ Verifies => Verified(peer.certificate)
<1>1. UsableFiles <=>
         /\ settings.trustedCa # Broken
         /\ \/ settings.clientCert = Unset /\ settings.clientKey = Unset
            \/ PairLoads(settings.clientCert, settings.clientKey)
  BY FilesAreAsked
<1>2. ASSUME NEW peer \in Peers
      PROVE  /\ Admits(settings, peer) => AskedFor(peer)
             /\ AskedFor(peer) /\ peer.protocol >= 2 => Admits(settings, peer)
  <2> DEFINE c == peer.certificate
             result == VerifyResult(c, Anchors(settings))
  <2>1. c \in Certificates /\ c.key \in Keys /\ peer.protocol \in Nat
    <3>1. c \in Certificates /\ peer.protocol \in Protocols \cup {3}
      BY <1>2 DEF Peers
    <3>2. c \in [key : Keys, signer : Signers, names : SUBSET Identities, shown : BOOLEAN]
      BY <3>1 DEF Certificates
    <3>3. Protocols \cup {3} \subseteq Nat
      BY TlsPolicyAssumption, SMTT(30)
    <3> QED BY <3>1, <3>2, <3>3, Zenon
  <2>2. asked.protocol \in 0 .. 2 /\ settings.protocol \in {asked.protocol, 2}
    BY TlsPolicyAssumption DEF PolicyInv, PolicyTypes
  <2>3. /\ peer.protocol >= settings.protocol => peer.protocol >= asked.protocol
        /\ peer.protocol >= 2 => peer.protocol >= settings.protocol
    BY <2>1, <2>2
  <2>4. VerifyPeerIdentity(c, settings.identity) <=> asked.identity \in c.names
    BY TlsPolicyAssumption DEF VerifyPeerIdentity, PolicyInv, PolicyTypes
  <2>5. c.key # Unset
    BY <2>1, TlsPolicyAssumption DEF Signers
  <2>6. Configured(settings) <=> UsableFiles /\ (PinAsked => PinnedKey # Unset)
    BY <1>1, SettingsAreAsked DEF Configured
  <2>7. PinnedKey # Unset => PinAsked
    BY SettingsAreAsked
  <2>8. /\ result = "X509_V_OK" <=> c.signer \in Trusted
        /\ result = "DEPTH_ZERO_SELF_SIGNED_CERT" <=> c.signer \notin Trusted /\ IsSelfSigned(c)
        /\ result = "SELF_SIGNED_CERT_IN_CHAIN"
              <=> c.signer \notin Trusted /\ ~IsSelfSigned(c) /\ c.shown
    BY SettingsAreAsked DEF VerifyResult, IsSelfSigned
  <2>9. Admits(settings, peer) <=>
           /\ Configured(settings)
           /\ peer.protocol >= settings.protocol
           /\ Verifies => \/ result = "X509_V_OK"
                          \/ /\ SelfSignedAllowed
                             /\ \/ result = "DEPTH_ZERO_SELF_SIGNED_CERT"
                                \/ result = "SELF_SIGNED_CERT_IN_CHAIN"
           /\ Verifies /\ SelfSignedAllowed => ~(IsSelfSigned(c) /\ PinnedKey = Unset)
           /\ PinnedKey # Unset => PinnedKey = c.key
           /\ Verifies => VerifyPeerIdentity(c, settings.identity)
    BY SettingsAreAsked DEF Admits
  <2> HIDE DEF result, UsableFiles
  <2>10. Admits(settings, peer) <=>
            /\ UsableFiles /\ (PinAsked => PinnedKey # Unset)
            /\ peer.protocol >= settings.protocol
            /\ Verifies => \/ c.signer \in Trusted
                           \/ SelfSignedAllowed /\ IsSelfSigned(c)
                           \/ SelfSignedAllowed /\ ~IsSelfSigned(c) /\ c.shown
            /\ Verifies /\ SelfSignedAllowed => ~(IsSelfSigned(c) /\ PinnedKey = Unset)
            /\ PinnedKey # Unset => PinnedKey = c.key
            /\ Verifies => asked.identity \in c.names
    BY <2>4, <2>6, <2>8, <2>9, Zenon
  <2>11. CASE Admits(settings, peer)
    BY <2>3, <2>5, <2>7, <2>10, <2>11
  <2>12. CASE AskedFor(peer) /\ peer.protocol >= 2
    BY <2>3, <2>5, <2>7, <2>10, <2>12
  <2> QED BY <2>11, <2>12
<1> QED BY <1>2 DEF ClientAsAsked

(* A server admits only clients it was set up to. *)
LEMMA ServerFollows == PolicyInv => ServerAsAsked
<1> SUFFICES ASSUME PolicyInv, NEW rules \in ServerRules, ServerAdmits(rules, settings)
             PROVE  LET Certs  == Of({"certificate"})
                        signer == IF Certs = {} THEN Unset ELSE LastOf(Certs).cert
                        served == \E i \in Of({"server"}) : calls[i].content = signer
                        known == signer \in SystemRoots \cup {rules.clientCa} \/ served
                    IN  /\ rules.cert = "own" /\ rules.key = "matching"
                        /\ \/ rules.mode = "None"
                           \/ rules.mode = "Optional" /\ (signer = Unset \/ known)
                           \/ rules.mode = "Required" /\ signer # Unset /\ known
  BY DEF ServerAsAsked
<1> DEFINE signer == settings.clientCert
<1>1. signer = IF Of({"certificate"}) = {} THEN Unset ELSE LastOf(Of({"certificate"})).cert
  BY FilesAreAsked
<1>2. rules.cert = "own" /\ rules.key = "matching"
  BY DEF ServerAdmits, ServerConfigured, OwnCertificateLoaded, PairLoads, ServerRules
<1>3. rules.mode \in {"None", "Optional", "Required"}
  BY DEF ServerRules
<1>4. rules.mode = "Required" => signer # Unset
  BY DEF ServerAdmits, MustPresent
<1>5. signer \in FileSigners(certFile) => \E i \in Of({"server"}) : calls[i].content = signer
  <2>1. FileSigners(Unset) = {}
    BY TlsPolicyAssumption DEF FileSigners, Signers
  <2> QED BY <2>1 DEF FileSigners, PolicyInv, ServerInv
<1>6. rules.mode # "None" /\ signer # Unset =>
         signer \in SystemRoots \cup {rules.clientCa} \/ signer \in FileSigners(certFile)
  BY DEF ServerAdmits
<1> QED BY <1>1, <1>2, <1>3, <1>4, <1>5, <1>6

(* However the calls that set up a client are ordered, repeated and taken  *)
(* back, whichever files cannot be read and whichever servers the process  *)
(* has, a client admits exactly the servers, and a server only the         *)
(* clients, that the calls ask for. *)
THEOREM PolicySafety == PolicySpec => []AdmittedAsAsked
<1>1. PolicyInv => AdmittedAsAsked
  BY ClientFollows, ServerFollows DEF AdmittedAsAsked
<1> QED BY <1>1, PolicyInvInit, PolicyInvStep, PTL DEF PolicySpec

-----------------------------------------------------------------------------
(* The objects that are sent as JSON.                                      *)

(* What a reference can be. *)
References == Objects \union {Null}

(* What a property of each name can hold. *)
IsValueOf(p, value) ==
    /\ p = "number" => value \in Int
    /\ p = "other"  => value \in References
    /\ p = "others" => value \in Seq(References)
    /\ p = "text"   => value \in STRING
    /\ p = "date"   => value \in Int \X Int
    /\ p = "dates"  => value \in Seq(Int \X Int)
    /\ p = "part"   => value \in [items : Seq(Int), count : Int]
    /\ p = "marks"  => value \in SUBSET Int /\ IsFiniteSet(value)
    /\ p = "named"  => value \in [DOMAIN value -> References]

(* What is written of a property, and what is read of that.                *)
JsonOf(p, value, visited) == ObjectJsonCallback(p, value, visited)

ReadBack(p, j, made) ==
    IF j = JsonNull THEN DefaultValue[p] ELSE JsonValueToFProperty(j, p, made)

(* A reference is read as the receiver promises: nothing of null, or what  *)
(* its node is made into.                                                  *)
LEMMA OtherReadsBack ==
    ASSUME NEW value \in References, NEW visited, NEW made
    PROVE  ReadBack("other", JsonOf("other", value, visited), made)
             = ArrivesValue("other", value, visited, made)
BY DEF ReadBack, JsonOf, ObjectJsonCallback, JsonReference, JsonNull, JsonValueToFProperty, IsArray,
  ConvertScalarJsonValue, ConvertInner, JsonValueToFObjectProperty, IsObject, ArrivesValue, ArrivesReference,
  DefaultValue, References

(* A number is read as a double holds it. *)
LEMMA NumberReadsBack ==
    ASSUME NEW value, NEW visited, NEW made
    PROVE  ReadBack("number", JsonOf("number", value, visited), made) = AsDouble(value)
BY DEF ReadBack, JsonOf, ObjectJsonCallback, UPropertyToJsonValue, JsonNumber, JsonNull, JsonValueToFProperty, IsArray,
  ConvertScalarJsonValue, ConvertInner, JsonValueToFNumericProperty

(* A string is read as it was written. *)
LEMMA TextReadsBack ==
    ASSUME NEW value, NEW visited, NEW made
    PROVE  ReadBack("text", JsonOf("text", value, visited), made) = value
BY DEF ReadBack, JsonOf, ObjectJsonCallback, UPropertyToJsonValue, JsonNull, JsonValueToFProperty, IsArray,
  ConvertScalarJsonValue, JsonValueToFStrProperty

(* A date is read to the millisecond. *)
LEMMA DateReadsBack ==
    ASSUME NEW value, NEW visited, NEW made
    PROVE  ReadBack("date", JsonOf("date", value, visited), made) = <<value[1], 0>>
BY DEF ReadBack, JsonOf, ObjectJsonCallback, JsonDate, JsonNull, JsonValueToFProperty, IsArray,
  ConvertScalarJsonValue, JsonValueToFStructProperty

(* An empty array of dates is read as one. *)
LEMMA DatesReadBack ==
    ASSUME NEW visited, NEW made
    PROVE  ReadBack("dates", JsonOf("dates", <<>>, visited), made) = <<>>
<1>1. JsonOf("dates", <<>>, visited) = <<"array", <<>>>>
  BY DEF JsonOf, ObjectJsonCallback
<1>2. ReadBack("dates", <<"array", <<>>>>, made) = [i \in DOMAIN << >> |-> DefaultValue.date]
  BY DEF ReadBack, JsonNull, JsonValueToFProperty, IsArray
<1>3. [i \in DOMAIN << >> |-> DefaultValue.date] = << >>
  OBVIOUS
<1> QED BY <1>1, <1>2, <1>3

(* A reference within an array or a map. *)
LEMMA ElementReadsBack ==
    ASSUME NEW r \in References, NEW visited, NEW made
    PROVE  /\ JsonReference(r, visited) = JsonNull <=> r = Null
           /\ r # Null => JsonValueToInner(JsonReference(r, visited), "other", made)
                            = made[<<r, visited>>]
BY DEF JsonReference, JsonNull, JsonValueToInner, IsArray,
  ConvertInner, JsonValueToFObjectProperty, IsObject, References

(* An array of references is read element by element, in its order. *)
LEMMA OthersReadBack ==
    ASSUME NEW value \in Seq(References), NEW visited, NEW made
    PROVE  ReadBack("others", JsonOf("others", value, visited), made)
             = ArrivesValue("others", value, visited, made)
<1> DEFINE array == [i \in DOMAIN value |-> JsonReference(value[i], visited)]
<1>1. JsonOf("others", value, visited) = <<"array", array>>
  BY DEF JsonOf, ObjectJsonCallback
<1> HIDE DEF array
<1>2. ReadBack("others", <<"array", array>>, made) = JsonValueToFArrayProperty(array, "other", made)
  BY DEF ReadBack, JsonNull, JsonValueToFProperty, IsArray
<1>3. DOMAIN array = DOMAIN value /\ \A i \in DOMAIN value : array[i] = JsonReference(value[i], visited)
  BY DEF array
<1>4. \A i \in DOMAIN value : value[i] \in References
  OBVIOUS
<1>5. ArrivesValue("others", value, visited, made)
        = [i \in DOMAIN value |-> ArrivesReference(value[i], visited, made)]
  BY DEF ArrivesValue
<1>6. DefaultValue["other"] = Null
  BY DEF DefaultValue
<1>7. JsonValueToFArrayProperty(array, "other", made)
        = [i \in DOMAIN value |-> ArrivesReference(value[i], visited, made)]
  BY <1>3, <1>4, <1>6, ElementReadsBack DEF JsonValueToFArrayProperty, ArrivesReference
<1> QED BY <1>1, <1>2, <1>5, <1>7

(* A struct is read with all its members. *)
LEMMA PartReadsBack ==
    ASSUME NEW value \in [items : Seq(Int), count : Int], NEW visited, NEW made
    PROVE  ReadBack("part", JsonOf("part", value, visited), made)
             = ArrivesValue("part", value, visited, made)
<1> DEFINE array == [i \in DOMAIN value.items |-> JsonNumber(value.items[i])]
           members == [k \in {Plain("items"), Plain("count")} |->
                          IF k = Plain("count") THEN JsonNumber(value.count) ELSE <<"array", array>>]
           j == <<"object", members>>
<1>1. JsonOf("part", value, visited) = j
  BY DEF JsonOf, ObjectJsonCallback, UPropertyToJsonValue
<1>2. Plain("items") # Plain("count")
  BY DEF Plain
<1>3. DOMAIN array = DOMAIN value.items /\ \A i \in DOMAIN value.items : array[i] = JsonNumber(value.items[i])
  OBVIOUS
<1>4. DOMAIN members = {Plain("items"), Plain("count")} /\ members[Plain("items")] = <<"array", array>>
        /\ members[Plain("count")] = JsonNumber(value.count)
  BY <1>2
<1> HIDE DEF array, members
<1>5. Members(j) = members /\ IsObject(j) /\ ~IsArray(j) /\ j # JsonNull /\ j[1] # "date"
  BY DEF Members, IsObject, IsArray, JsonNull
<1> HIDE DEF j
<1>6. Has(j, Plain("items")) /\ Has(j, Plain("count"))
  BY <1>4, <1>5 DEF Has, JsonNull, JsonNumber
<1>7. ReadBack("part", j, made) = JsonObjectToUStruct(j, made)
  BY <1>5 DEF ReadBack, JsonValueToFProperty, ConvertScalarJsonValue, JsonValueToFStructProperty
<1>8. \A n : JsonNumber(n) # JsonNull
               /\ JsonValueToInner(JsonNumber(n), "number", made) = AsDouble(n)
               /\ JsonValueToFNumericProperty(JsonNumber(n)) = AsDouble(n)
  BY DEF JsonNumber, JsonNull, JsonValueToInner, IsArray, ConvertInner, JsonValueToFNumericProperty
<1>9. JsonValueToFArrayProperty(array, "number", made)
        = [i \in DOMAIN value.items |-> AsDouble(value.items[i])]
  BY <1>3, <1>8 DEF JsonValueToFArrayProperty
<1>10. IsArray(members[Plain("items")]) /\ members[Plain("items")][2] = array
  BY <1>4 DEF IsArray
<1>11. JsonObjectToUStruct(j, made)
         = [items |-> [i \in DOMAIN value.items |-> AsDouble(value.items[i])],
            count |-> AsDouble(value.count)]
  BY <1>4, <1>5, <1>6, <1>8, <1>9, <1>10 DEF JsonObjectToUStruct
<1> QED BY <1>1, <1>7, <1>11 DEF ArrivesValue

(* A set is written as an array of all its elements. *)
LEMMA SetToSeqCovers ==
    ASSUME NEW S, IsFiniteSet(S)
    PROVE  {SetToSeq(S)[i] : i \in DOMAIN SetToSeq(S)} = S
<1> DEFINE n == Cardinality(S)
<1>1. n \in Nat /\ ExistsBijection(1 .. n, S)
  BY FS_CardinalityType
<1>2. \E f \in [1 .. n -> S] : IsInjective(f)
  BY <1>1 DEF ExistsBijection, Bijection, Injection
<1>3. SetToSeq(S) \in [1 .. n -> S] /\ IsInjective(SetToSeq(S))
  BY <1>2 DEF SetToSeq
<1>4. SetToSeq(S) \in Injection(1 .. n, S)
  BY <1>3 DEF Injection
<1>5. Cardinality(1 .. n) = n
  BY <1>1, FS_Interval
<1>6. SetToSeq(S) \in Surjection(1 .. n, S)
  BY <1>4, <1>5, FS_Injection
<1>7. \A x \in S : \E i \in 1 .. n : SetToSeq(S)[i] = x
  BY <1>6 DEF Surjection
<1> QED BY <1>3, <1>7

(* A set of numbers is read with all its elements, and no other, each as a *)
(* double holds it. *)
LEMMA MarksReadBack ==
    ASSUME NEW value, IsFiniteSet(value), NEW visited, NEW made
    PROVE  ReadBack("marks", JsonOf("marks", value, visited), made)
             = {AsDouble(n) : n \in value}
<1> DEFINE seq == SetToSeq(value)
           array == [i \in DOMAIN seq |-> JsonNumber(seq[i])]
<1>1. JsonOf("marks", value, visited) = <<"array", array>>
  BY DEF JsonOf, ObjectJsonCallback, UPropertyToJsonValue
<1>2. DOMAIN array = DOMAIN seq /\ \A i \in DOMAIN seq : array[i] = JsonNumber(seq[i])
  OBVIOUS
<1>3. {seq[i] : i \in DOMAIN seq} = value
  BY SetToSeqCovers
<1> HIDE DEF seq, array
<1>4. ReadBack("marks", <<"array", array>>, made) = JsonValueToFSetProperty(array, "number", made)
  BY DEF ReadBack, JsonNull, JsonValueToFProperty, IsArray
<1>5. \A n : JsonValueToInner(JsonNumber(n), "number", made) = AsDouble(n) /\ JsonNumber(n) # JsonNull
  BY DEF JsonNumber, JsonNull, JsonValueToInner, IsArray, ConvertInner, JsonValueToFNumericProperty
<1>6. {k \in DOMAIN array : array[k] # JsonNull} = DOMAIN seq
  BY <1>2, <1>5
<1>7. JsonValueToFSetProperty(array, "number", made) = {AsDouble(seq[i]) : i \in DOMAIN seq}
  BY <1>2, <1>5, <1>6 DEF JsonValueToFSetProperty
<1>8. {AsDouble(seq[i]) : i \in DOMAIN seq} = {AsDouble(n) : n \in value}
  BY <1>3
<1> QED BY <1>1, <1>4, <1>7, <1>8

(* A map of references is read entry by entry; a null makes no entry. *)
LEMMA NamedReadsBack ==
    ASSUME NEW names, NEW value \in [names -> References], NEW visited, NEW made
    PROVE  ReadBack("named", JsonOf("named", value, visited), made)
             = ArrivesValue("named", value, visited, made)
<1> DEFINE object == [k \in {Plain(n) : n \in DOMAIN value} |-> JsonReference(value[k[1]], visited)]
           present == {n \in DOMAIN value : value[n] # Null}
<1>1. JsonOf("named", value, visited) = <<"object", object>>
  BY DEF JsonOf, ObjectJsonCallback
<1>2. \A n : Plain(n)[1] = n
  BY DEF Plain
<1>3. DOMAIN object = {Plain(n) : n \in DOMAIN value}
        /\ \A n \in DOMAIN value : object[Plain(n)] = JsonReference(value[n], visited)
  BY <1>2
<1> HIDE DEF object
<1>4. ReadBack("named", <<"object", object>>, made) = JsonValueToFMapProperty(object, "other", made)
  BY DEF ReadBack, JsonNull, JsonValueToFProperty, IsArray, ConvertScalarJsonValue, IsObject, Members
<1>5. \A n \in DOMAIN value : value[n] \in References
  OBVIOUS
<1>6. {k[1] : k \in {l \in DOMAIN object : object[l] # JsonNull}} = present
  <2>1. \A n \in DOMAIN value : object[Plain(n)] = JsonNull <=> value[n] = Null
    BY <1>3, <1>5, ElementReadsBack
  <2>2. \A k \in DOMAIN object : \E n \in DOMAIN value : k = Plain(n) /\ k[1] = n
    BY <1>2, <1>3
  <2>3. \A n \in DOMAIN value : Plain(n) \in DOMAIN object
    BY <1>3
  <2> QED BY <1>2, <2>1, <2>2, <2>3
<1>7. \A n \in present : JsonValueToInner(object[Plain(n)], "other", made) = ArrivesReference(value[n], visited, made)
  BY <1>3, <1>5, ElementReadsBack DEF ArrivesReference
<1>8. JsonValueToFMapProperty(object, "other", made)
        = [n \in present |-> ArrivesReference(value[n], visited, made)]
  BY <1>6, <1>7 DEF JsonValueToFMapProperty
<1>9. ArrivesValue("named", value, visited, made) = [n \in present |-> ArrivesReference(value[n], visited, made)]
  BY DEF ArrivesValue
<1> QED BY <1>1, <1>4, <1>8, <1>9

(* The names of all properties. *)
Names == {"number", "other", "others", "text", "date", "dates", "part", "marks", "named"}

(* What is read of a property is what the two ends promise. *)
LEMMA ValueReadsBack ==
    ASSUME NEW p \in Names, NEW value, IsValueOf(p, value), p = "dates" => value = <<>>,
           NEW visited, NEW made
    PROVE  ReadBack(p, JsonOf(p, value, visited), made) = ArrivesValue(p, value, visited, made)
<1>1. CASE p = "number"
  BY <1>1, NumberReadsBack DEF ArrivesValue
<1>2. CASE p = "other"
  BY <1>2, OtherReadsBack DEF IsValueOf
<1>3. CASE p = "others"
  BY <1>3, OthersReadBack DEF IsValueOf
<1>4. CASE p = "text"
  BY <1>4, TextReadsBack DEF ArrivesValue
<1>5. CASE p = "date"
  BY <1>5, DateReadsBack DEF ArrivesValue
<1>6. CASE p = "dates"
  BY <1>6, DatesReadBack DEF ArrivesValue
<1>7. CASE p = "part"
  BY <1>7, PartReadsBack DEF ArrivesValue, IsValueOf
<1>8. CASE p = "marks"
  BY <1>8, MarksReadBack DEF ArrivesValue, IsValueOf
<1>9. CASE p = "named"
  <2>1. PICK names : value \in [names -> References]
    BY <1>9 DEF IsValueOf
  <2> QED BY <1>9, <2>1, NamedReadsBack
<1> QED BY <1>1, <1>2, <1>3, <1>4, <1>5, <1>6, <1>7, <1>8, <1>9 DEF Names

(* The objects of the sender hold what their classes have. *)
IsHeap(h) ==
    \A o \in Objects :
        /\ h[o].class \in Classes
        /\ DOMAIN h[o].fields = Properties(h[o].class)
        /\ \A p \in Properties(h[o].class) : IsValueOf(p, h[o].fields[p])

HeapTypes == IsHeap(heap)

(* A class is written with its class or without. *)
FormTypes == \A class \in Classes \union {Null} : SerializerFor(class) \in {"NoWriteType", "WriteType"}

(* The premise of ObjectsArrive. *)
NoDates == \A o \in Objects : HasNoDates(o)

(* The names above are those of all properties. *)
LEMMA PropertiesHaveNames ==
    \A class \in Classes : Properties(class) \subseteq Names
BY DEF Properties, Names, Classes

(* The fields that are made of the JSON of an object. *)
Made(o, class, within, inner) ==
    [class  |-> class,
     fields |-> [p \in Properties(class) |->
                    IF BothKnow(p, class, heap[o].class)
                    THEN ArrivesValue(p, heap[o].fields[p], within \union {o}, inner)
                    ELSE DefaultValue[p]]]

(* Of the JSON of an object of one class an object of another is made: it  *)
(* has the values of the properties that both know by the same name, and   *)
(* the default values of the others.                                       *)
LEMMA FieldsReadBack ==
    ASSUME HeapTypes, NoDates, NEW o \in Objects, NEW class \in Classes, NEW visited, NEW made
    PROVE  JsonToFields(AddJsonValues(o, visited \union {o}), class, made) = Made(o, class, visited, made)
<1> DEFINE own == heap[o].class
           v == visited \union {o}
           members == [k \in {KeyFor(own, p) : p \in Properties(own)} |->
                          ObjectJsonCallback(k[1], heap[o].fields[k[1]], v)]
           j == <<"object", members>>
<1>1. AddJsonValues(o, v) = j
  BY DEF AddJsonValues
<1>2. own \in Classes /\ DOMAIN heap[o].fields = Properties(own)
        /\ \A p \in Properties(own) : IsValueOf(p, heap[o].fields[p])
  BY DEF HeapTypes, IsHeap
<1>3. \A c, p : KeyFor(c, p) = <<p, c \in Converting>> /\ KeyFor(c, p)[1] = p
  BY DEF KeyFor
<1>4. DOMAIN members = {KeyFor(own, p) : p \in Properties(own)}
        /\ \A p \in Properties(own) : members[KeyFor(own, p)] = JsonOf(p, heap[o].fields[p], v)
  BY <1>3 DEF JsonOf
<1> HIDE DEF v, members
<1>5. Members(j) = members
  BY DEF Members
<1> HIDE DEF j
<1>6. ASSUME NEW p \in Properties(class)
      PROVE  JsonPropertyToFProperty(j, class, p, made)
               = IF BothKnow(p, class, own) THEN ArrivesValue(p, heap[o].fields[p], v, made)
                 ELSE DefaultValue[p]
  <2> DEFINE key == KeyFor(class, p)
  <2>1. CASE BothKnow(p, class, own)
    <3>1. p \in Properties(own) /\ key = KeyFor(own, p)
      BY <2>1, <1>3 DEF BothKnow
    <3>2. key \in DOMAIN members /\ members[key] = JsonOf(p, heap[o].fields[p], v)
      BY <3>1, <1>4
    <3>3. JsonPropertyToFProperty(j, class, p, made) = ReadBack(p, JsonOf(p, heap[o].fields[p], v), made)
      BY <3>2, <1>5 DEF JsonPropertyToFProperty, Has, ReadBack
    <3>4. p \in Names /\ IsValueOf(p, heap[o].fields[p]) /\ (p = "dates" => heap[o].fields[p] = <<>>)
      BY <3>1, <1>2, PropertiesHaveNames DEF NoDates, HasNoDates
    <3>5. ReadBack(p, JsonOf(p, heap[o].fields[p], v), made) = ArrivesValue(p, heap[o].fields[p], v, made)
      BY <3>4, ValueReadsBack
    <3> QED BY <2>1, <3>3, <3>5
  <2>2. CASE ~BothKnow(p, class, own)
    <3>1. key \notin DOMAIN members
      <4>1. ASSUME NEW q \in Properties(own), key = KeyFor(own, q) PROVE FALSE
        <5>1. q = p /\ (class \in Converting <=> own \in Converting)
          BY <4>1, <1>3
        <5> QED BY <5>1, <2>2 DEF BothKnow
      <4> QED BY <4>1, <1>4
    <3> QED BY <2>2, <3>1, <1>5 DEF JsonPropertyToFProperty, Has
  <2> QED BY <2>1, <2>2
<1> QED BY <1>1, <1>6 DEF JsonToFields, Made, v

(* It does not matter what other nodes are made into. *)
LEMMA ArrivesValueSame ==
    ASSUME NEW p, NEW value, IsValueOf(p, value), NEW v, NEW f, NEW g,
           \A r \in Objects : f[<<r, v>>] = g[<<r, v>>]
    PROVE  ArrivesValue(p, value, v, f) = ArrivesValue(p, value, v, g)
<1>1. \A r \in References : ArrivesReference(r, v, f) = ArrivesReference(r, v, g)
  BY DEF ArrivesReference, References
<1>2. CASE p = "other"
  BY <1>1, <1>2 DEF IsValueOf, ArrivesValue
<1>3. CASE p = "others"
  <2>1. \A i \in DOMAIN value : value[i] \in References
    BY <1>3 DEF IsValueOf
  <2>2. [i \in DOMAIN value |-> ArrivesReference(value[i], v, f)]
          = [i \in DOMAIN value |-> ArrivesReference(value[i], v, g)]
    BY <2>1, <1>1
  <2> QED BY <1>3, <2>2 DEF ArrivesValue
<1>4. CASE p = "named"
  <2>1. PICK names : value \in [names -> References]
    BY <1>4 DEF IsValueOf
  <2>2. \A n \in DOMAIN value : value[n] \in References
    BY <2>1
  <2>3. [n \in {m \in DOMAIN value : value[m] # Null} |-> ArrivesReference(value[n], v, f)]
          = [n \in {m \in DOMAIN value : value[m] # Null} |-> ArrivesReference(value[n], v, g)]
    BY <2>2, <1>1
  <2> QED BY <1>4, <2>3 DEF ArrivesValue
<1>5. CASE p \notin {"other", "others", "named"}
  BY <1>5 DEF ArrivesValue
<1> QED BY <1>2, <1>3, <1>4, <1>5

(* ... and so for all the fields of an object. *)
LEMMA MadeOfSame ==
    ASSUME HeapTypes, NEW o \in Objects, NEW class \in Classes, NEW visited, NEW f, NEW g,
           \A r \in Objects : f[<<r, visited \union {o}>>] = g[<<r, visited \union {o}>>]
    PROVE  Made(o, class, visited, f) = Made(o, class, visited, g)
<1> DEFINE own == heap[o].class
<1>2. \A p \in Properties(own) : IsValueOf(p, heap[o].fields[p])
  BY DEF HeapTypes, IsHeap
<1>3. \A p \in Properties(class) : BothKnow(p, class, own) => p \in Properties(own)
  BY DEF BothKnow
<1> QED BY <1>2, <1>3, ArrivesValueSame DEF Made

(* One level: the JSON of an object is read as the two ends promise, if    *)
(* the nodes it refers to are.                                             *)
LEMMA OneLevel ==
    ASSUME HeapTypes, NoDates, FormTypes,
           NEW o \in Objects, NEW visited, NEW sent \in Classes, NEW told \in Classes \union {Null},
           SerializerFor(sent) = SerializerFor(told),
           told = Null => SerializerFor(told) = "WriteType",
           NEW made, NEW inner,
           o \notin visited =>
               \A r \in Objects : made[<<r, visited \union {o}>>] = inner[<<r, visited \union {o}>>]
    PROVE  JsonObjectToUObject(UObjectToJsonObject(sent, o, visited), told, made)
             = ArrivesAs(o, told, visited, inner)
<1> DEFINE own == heap[o].class
           v == visited \union {o}
           body == AddJsonValues(o, v)
<1>1. own \in Classes
  BY DEF HeapTypes, IsHeap
<1>2. CASE o \in visited
  <2>1. UObjectToJsonObject(sent, o, visited) = EmptyObject
    BY <1>2 DEF UObjectToJsonObject
  <2>2. \A k : ~Has(EmptyObject, k)
    BY DEF Has, Members, EmptyObject
  <2>3. CASE SerializerFor(told) = "NoWriteType"
    <3>1. told # Null
      BY <2>3
    <3>2. JsonObjectToUObject(EmptyObject, told, made) = NewObject(told)
      BY <2>2, <2>3, <3>1 DEF JsonObjectToUObject, WithoutTypeToUObject, JsonToFields, JsonPropertyToFProperty,
        NewObject
    <3> QED BY <1>2, <2>1, <2>3, <3>2 DEF ArrivesAs
  <2>4. CASE SerializerFor(told) = "WriteType"
    <3>1. JsonObjectToUObject(EmptyObject, told, made) = Null
      BY <2>2, <2>4 DEF JsonObjectToUObject, WithTypeToUObject
    <3> QED BY <1>2, <2>1, <2>4, <3>1 DEF ArrivesAs
  <2> QED BY <2>3, <2>4 DEF FormTypes
<1>3. CASE o \notin visited
  <2>1. CASE SerializerFor(told) = "NoWriteType"
    <3>1. told \in Classes /\ told # Null
      BY <2>1 DEF Classes
    <3>2. UObjectToJsonObject(sent, o, visited) = body
      BY <1>3, <2>1 DEF UObjectToJsonObject
    <3>3. JsonObjectToUObject(body, told, made) = JsonToFields(body, told, made)
      BY <2>1, <3>1 DEF JsonObjectToUObject, WithoutTypeToUObject
    <3>4. JsonToFields(body, told, made) = Made(o, told, visited, made)
      BY <3>1, FieldsReadBack
    <3>5. Made(o, told, visited, made) = Made(o, told, visited, inner)
      BY <1>3, <3>1, MadeOfSame
    <3>6. ArrivesAs(o, told, visited, inner) = Made(o, told, visited, inner)
      BY <1>3, <2>1 DEF ArrivesAs, Made
    <3> QED BY <3>2, <3>3, <3>4, <3>5, <3>6
  <2>2. CASE SerializerFor(told) = "WriteType"
    <3>1. UObjectToJsonObject(sent, o, visited) = WithType(sent, o, body)
      BY <1>3, <2>2 DEF UObjectToJsonObject
    <3> DEFINE j == WithType(sent, o, body)
    <3>2. /\ Members(j) = [k \in {TypeKey, BodyKey} |-> IF k = TypeKey THEN <<"string", own>> ELSE body]
          /\ TypeKey # BodyKey
      BY DEF WithType, Members, TypeName, TypeKey, BodyKey, Plain
    <3>3. Members(j)[TypeKey] = <<"string", own>> /\ Members(j)[BodyKey] = body
            /\ DOMAIN Members(j) = {TypeKey, BodyKey}
      BY <3>2
    <3>4. IsObject(body) /\ body # JsonNull
      BY DEF AddJsonValues, IsObject, JsonNull
    <3> HIDE DEF j, body
    <3>5. Has(j, TypeKey) /\ Has(j, BodyKey)
      BY <3>3, <3>4 DEF Has, JsonNull
    <3>6. JsonObjectToUObject(j, told, made) = JsonToFields(body, own, made)
      BY <1>1, <2>2, <3>3, <3>4, <3>5 DEF JsonObjectToUObject, WithTypeToUObject
    <3>7. JsonToFields(body, own, made) = Made(o, own, visited, made)
      BY <1>1, FieldsReadBack DEF body
    <3>8. Made(o, own, visited, made) = Made(o, own, visited, inner)
      BY <1>1, <1>3, MadeOfSame
    <3>9. ArrivesAs(o, told, visited, inner) = Made(o, own, visited, inner)
      BY <1>3, <2>2 DEF ArrivesAs, Made
    <3> QED BY <3>1, <3>6, <3>7, <3>8, <3>9 DEF j
  <2> QED BY <2>1, <2>2 DEF FormTypes
<1> QED BY <1>2, <1>3

(* A set of numbers that is not empty has a least one. *)
LEMMA Least ==
    ASSUME NEW T \in SUBSET Nat, T # {}
    PROVE  \E x \in T : \A y \in T : x <= y
<1> DEFINE R == OpToRel(<, Nat)
<1>1. IsWellFoundedOn(R, Nat)
  BY NatLessThanWellFounded
<1>2. \A x \in Nat, y \in Nat : <<y, x>> \in R <=> y < x
  BY DEF OpToRel
<1> HIDE DEF R
<1>3. PICK x \in T : \A y \in T : ~(<<y, x>> \in R)
  BY <1>1, WFMin
<1>4. ASSUME NEW y \in T PROVE x <= y
  <2>1. ~(y < x)
    BY <1>2, <1>3
  <2>2. x \in Nat /\ y \in Nat
    OBVIOUS
  <2> QED BY <2>1, <2>2
<1> QED BY <1>4

(* How many objects a node does not lie within. *)
Rank(node) == Cardinality(Objects \ node[2])

(* A rank is a number, and no greater than the number of objects. *)
LEMMA RankIsNat ==
    ASSUME NEW node \in Nodes
    PROVE  Rank(node) \in Nat /\ Rank(node) <= Cardinality(Objects) /\ Cardinality(Objects) \in Nat
<1>1. Objects \ node[2] \in SUBSET Objects
  OBVIOUS
<1> QED BY <1>1, FS_Subset, FS_CardinalityType, JsonAssumption DEF Rank

(* What an object refers to lies within one object more. *)
LEMMA ReferencesAreNodes ==
    ASSUME NEW o \in Objects, NEW visited \in SUBSET Objects, o = Message \/ Message \in visited,
           NEW r \in Objects
    PROVE  <<r, visited \union {o}>> \in Nodes
BY DEF Nodes

(* What an object refers to has a lower rank, unless the object lies within*)
(* itself.                                                                 *)
LEMMA RankFalls ==
    ASSUME NEW node \in Nodes, node[1] \notin node[2], NEW r \in Objects
    PROVE  Rank(<<r, node[2] \union {node[1]}>>) < Rank(node)
<1> DEFINE o == node[1]
           S == Objects \ node[2]
<1>1. o \in Objects /\ o \in S /\ node[2] \in SUBSET Objects
  BY DEF Nodes
<1>2. Objects \ (node[2] \union {o}) = S \ {o}
  OBVIOUS
<1>3. IsFiniteSet(S)
  BY FS_Subset, JsonAssumption
<1>4. Cardinality(S) \in Nat /\ Cardinality(S \ {o}) = Cardinality(S) - 1
  BY <1>1, <1>3, FS_RemoveElement, FS_CardinalityType
<1>5. Rank(node) = Cardinality(S) /\ Rank(<<r, node[2] \union {o}>>) = Cardinality(S \ {o})
  BY <1>2 DEF Rank
<1> QED BY <1>4, <1>5

(* What a node becomes if the nodes it refers to become what f says.      *)
Promise(node, f) == ArrivesAs(node[1], PropertyClass, node[2], f)

(* What a node becomes depends on nodes of lower rank only. *)
LEMMA PromiseSame ==
    ASSUME HeapTypes, NEW node \in Nodes, NEW f, NEW g,
           \A m \in Nodes : Rank(m) < Rank(node) => f[m] = g[m]
    PROVE  Promise(node, f) = Promise(node, g)
<1> DEFINE o == node[1]
           v == node[2]
<1>1. o \in Objects /\ v \in SUBSET Objects /\ Message \in v
  BY DEF Nodes
<1>2. CASE o \in v
  BY <1>2 DEF Promise, ArrivesAs
<1>3. CASE o \notin v
  <2>1. \A r \in Objects : <<r, v \union {o}>> \in Nodes /\ Rank(<<r, v \union {o}>>) < Rank(node)
    BY <1>1, <1>3, ReferencesAreNodes, RankFalls
  <2>2. \A r \in Objects : f[<<r, v \union {o}>>] = g[<<r, v \union {o}>>]
    BY <2>1
  <2>3. heap[o].class \in Classes /\ PropertyClass \in Classes
    BY <1>1 DEF HeapTypes, IsHeap, Classes, PropertyClass
  <2>4. \A c \in Classes : Made(o, c, v, f) = Made(o, c, v, g)
    BY <1>1, <2>2, MadeOfSame
  <2>5. \A h : Promise(node, h) = IF SerializerFor(PropertyClass) = "WriteType"
                                   THEN Made(o, heap[o].class, v, h) ELSE Made(o, PropertyClass, v, h)
    BY <1>3 DEF Promise, ArrivesAs, Made
  <2> QED BY <2>3, <2>4, <2>5
<1> QED BY <1>2, <1>3

(* The recursion of Arrives ends: a function that is right for the nodes   *)
(* of a rank below k makes one that is right for one rank more.            *)
RightBelow(k, f) == \A node \in Nodes : Rank(node) < k => f[node] = Promise(node, f)

(* One rank more. *)
LEMMA RightOneMore ==
    ASSUME HeapTypes, NEW k \in Nat, NEW f, RightBelow(k, f)
    PROVE  \E g : RightBelow(k + 1, g)
<1> DEFINE g == [node \in Nodes |-> Promise(node, f)]
<1>1. \A node \in Nodes : g[node] = Promise(node, f)
  OBVIOUS
<1> HIDE DEF g
<1>2. ASSUME NEW node \in Nodes, Rank(node) < k + 1 PROVE Promise(node, f) = Promise(node, g)
  <2>1. ASSUME NEW m \in Nodes, Rank(m) < Rank(node) PROVE f[m] = g[m]
    <3>1. Rank(m) \in Nat /\ Rank(node) \in Nat
      BY RankIsNat
    <3>2. Rank(m) < k
      BY <1>2, <2>1, <3>1
    <3> QED BY <1>1, <3>2 DEF RightBelow
  <2> QED BY <2>1, PromiseSame
<1>3. RightBelow(k + 1, g)
  BY <1>1, <1>2 DEF RightBelow
<1> QED BY <1>3

(* All ranks. *)
LEMMA RightForAll ==
    ASSUME HeapTypes, NEW n \in Nat
    PROVE  \E f : RightBelow(n, f)
<1> DEFINE Wrong == {k \in Nat : ~ \E f : RightBelow(k, f)}
<1>1. ASSUME Wrong # {} PROVE FALSE
  <2>1. Wrong \in SUBSET Nat
    OBVIOUS
  <2>2. PICK k \in Wrong : \A l \in Wrong : k <= l
    <3> HIDE DEF Wrong
    <3> QED BY <1>1, <2>1, Least
  <2>3. k \in Nat /\ k # 0
    <3>1. \A f : RightBelow(0, f)
      BY RankIsNat DEF RightBelow
    <3> QED BY <2>2, <3>1
  <2>4. k - 1 \in Nat /\ ~(k <= k - 1)
    BY <2>3
  <2>5. PICK f : RightBelow(k - 1, f)
    BY <2>2, <2>4
  <2>6. \E g : RightBelow((k - 1) + 1, g)
    BY <2>4, <2>5, RightOneMore
  <2>7. (k - 1) + 1 = k
    BY <2>3
  <2> QED BY <2>2, <2>6, <2>7
<1> QED BY <1>1

(* Arrives is what its definition says of it: the recursion is well-       *)
(* founded.                                                                *)
LEMMA ArrivesIs ==
    ASSUME HeapTypes
    PROVE  \A node \in Nodes : Arrives[node] = Promise(node, Arrives)
<1>1. Cardinality(Objects) + 1 \in Nat
  BY FS_CardinalityType, JsonAssumption
<1>2. PICK f : RightBelow(Cardinality(Objects) + 1, f)
  BY <1>1, RightForAll
<1>3. \A node \in Nodes : f[node] = Promise(node, f)
  BY <1>2, RankIsNat DEF RightBelow
<1> DEFINE g == [node \in Nodes |-> f[node]]
<1>4. \A node \in Nodes : g[node] = f[node]
  OBVIOUS
<1>5. \A node \in Nodes : Promise(node, f) = Promise(node, g)
  <2> HIDE DEF g
  <2> QED BY <1>4, PromiseSame
<1>6. g = [node \in Nodes |-> ArrivesAs(node[1], PropertyClass, node[2], g)]
  <2>1. \A node \in Nodes : f[node] = ArrivesAs(node[1], PropertyClass, node[2], g)
    BY <1>3, <1>5 DEF Promise
  <2> QED BY <2>1
<1> HIDE DEF g
<1>7. \E h : h = [node \in Nodes |-> ArrivesAs(node[1], PropertyClass, node[2], h)]
  BY <1>6
<1>8. Arrives = [node \in Nodes |-> ArrivesAs(node[1], PropertyClass, node[2], Arrives)]
  BY <1>7 DEF Arrives
<1> QED BY <1>8 DEF Promise

(* What the forms are set to. *)
FormOK ==
    /\ form \in [Classes \union {"default"} -> {"default", "NoWriteType", "WriteType"}]
    /\ form["default"] # "default"

(* The form for a class, or for none, is one of the two. *)
LEMMA FormIsKnown ==
    ASSUME FormOK
    PROVE  FormTypes
BY DEF FormOK, FormTypes, SerializerFor

(* The message before any of its values was exchanged. *)
RootAsWritten == UObjectToJsonObject(heap[Message].class, Message, {})

(* The message under way is as it was written, but for the value that was  *)
(* exchanged.                                                              *)
JsonAsWritten ==
    /\ \A node \in Nodes : json[node] = UObjectToJsonObject(PropertyClass, node[1], node[2])
    /\ \/ /\ changed = "nothing" /\ json[Root] = RootAsWritten
          /\ DOMAIN json = {Root} \union Nodes
       \/ /\ changed \in Properties(heap[Message].class)
          /\ \E v \in OtherValues :
                 json[Root] = WithValue(RootAsWritten, KeyFor(heap[Message].class, changed), v)
          /\ DOMAIN json = {Root} \union Nodes \union DOMAIN OtherObjects
          /\ \A node \in DOMAIN OtherObjects : json[node] = OtherObjects[node]

(* What another peer refers to is made into the same, whatever other nodes *)
(* are made into.                                                          *)
LEMMA OthersRefuse ==
    ASSUME NEW node \in DOMAIN OtherObjects, NEW f, NEW g
    PROVE  JsonObjectToUObject(OtherObjects[node], PropertyClass, f)
             = JsonObjectToUObject(OtherObjects[node], PropertyClass, g)
<1> DEFINE j == OtherObjects[node]
<1>1. j[1] = "object" /\ DOMAIN j[2] \subseteq {Plain("items"), Plain("count")}
  BY DEF OtherObjects, EmptyObject
<1> HIDE DEF j
<1>2. Members(j) = j[2]
  BY <1>1 DEF Members
<1>a. \A k \in DOMAIN j[2] : k[1] \in {"items", "count"}
  <2>1. Plain("items")[1] = "items" /\ Plain("count")[1] = "count"
    BY DEF Plain
  <2> QED BY <1>1, <2>1
<1>3. ~Has(j, TypeKey)
  BY <1>2, <1>a DEF Has, TypeKey, Plain
<1>4. \A p \in Properties(PropertyClass) : ~Has(j, KeyFor(PropertyClass, p))
  <2>1. \A p \in Properties(PropertyClass) : KeyFor(PropertyClass, p)[1] = p /\ p \notin {"items", "count"}
    BY DEF KeyFor, Properties, PropertyClass
  <2> QED BY <1>2, <1>a, <2>1 DEF Has
<1>5. \A h : \A p \in Properties(PropertyClass) :
          JsonPropertyToFProperty(j, PropertyClass, p, h) = DefaultValue[p]
  BY <1>4 DEF JsonPropertyToFProperty
<1>6. JsonToFields(j, PropertyClass, f) = JsonToFields(j, PropertyClass, g)
  BY <1>5 DEF JsonToFields
<1> QED BY <1>3, <1>6 DEF JsonObjectToUObject, WithoutTypeToUObject, WithTypeToUObject, j

(* The JSON of a node is read as the two ends promise, if that of the nodes *)
(* of lower rank is.                                                       *)
LEMMA NodeReadsBack ==
    ASSUME HeapTypes, NoDates, FormTypes, NEW node \in Nodes, NEW f, NEW g,
           \A m \in Nodes : Rank(m) < Rank(node) => f[m] = g[m]
    PROVE  JsonObjectToUObject(UObjectToJsonObject(PropertyClass, node[1], node[2]), PropertyClass, f)
             = Promise(node, g)
<1>1. PICK o \in Objects, v \in SUBSET Objects : node = <<o, v>> /\ Message \in v
  BY DEF Nodes
<1>2. node[1] = o /\ node[2] = v
  BY <1>1
<1>3. ASSUME o \notin v, NEW r \in Objects
      PROVE  f[<<r, v \union {o}>>] = g[<<r, v \union {o}>>]
  BY <1>1, <1>2, <1>3, ReferencesAreNodes, RankFalls
<1>4. PropertyClass \in Classes /\ PropertyClass # Null
  BY JsonAssumption DEF PropertyClass, Classes
<1>5. JsonObjectToUObject(UObjectToJsonObject(PropertyClass, o, v), PropertyClass, f)
        = ArrivesAs(o, PropertyClass, v, g)
  BY <1>3, <1>4, OneLevel
<1> QED BY <1>2, <1>5 DEF Promise

(* So is MadeOf: what is Arrives on the nodes of the message satisfies its *)
(* definition.                                                             *)
LEMMA MadeOfIs ==
    ASSUME HeapTypes, NoDates, FormTypes, JsonAsWritten
    PROVE  \A node \in Nodes :
               MadeOf[node] = JsonObjectToUObject(json[node], PropertyClass, MadeOf)
<1> DEFINE D == DOMAIN json \ {Root}
<1>0. PICK g : g = [node \in D |-> IF node \in Nodes THEN Arrives[node]
                                 ELSE JsonObjectToUObject(json[node], PropertyClass, Arrives)]
  OBVIOUS
<1>1. Root \notin Nodes
  BY DEF Root, Nodes
<1>2. Nodes \subseteq D
  BY <1>1 DEF JsonAsWritten
<1>3. \A node \in D \ Nodes : node \in DOMAIN OtherObjects /\ json[node] = OtherObjects[node]
  BY DEF JsonAsWritten
<1>4. \A node \in Nodes : g[node] = Arrives[node]
  BY <1>0, <1>2
<1>5. \A node \in D \ Nodes : g[node] = JsonObjectToUObject(json[node], PropertyClass, Arrives)
  BY <1>0
<1>6. g = [node \in D |-> g[node]]
  BY <1>0
<1>7. ASSUME NEW node \in Nodes PROVE g[node] = JsonObjectToUObject(json[node], PropertyClass, g)
  <2>1. json[node] = UObjectToJsonObject(PropertyClass, node[1], node[2])
    BY DEF JsonAsWritten
  <2>2. JsonObjectToUObject(json[node], PropertyClass, g) = Promise(node, Arrives)
    BY <1>4, <2>1, NodeReadsBack
  <2> QED BY <1>4, <2>2, ArrivesIs
<1>8. ASSUME NEW node \in D \ Nodes PROVE g[node] = JsonObjectToUObject(json[node], PropertyClass, g)
  BY <1>3, <1>5, OthersRefuse
<1>9. g = [node \in D |-> JsonObjectToUObject(json[node], PropertyClass, g)]
  <2>1. \A node \in D : g[node] = JsonObjectToUObject(json[node], PropertyClass, g)
    BY <1>7, <1>8
  <2> QED BY <1>6, <2>1
<1>10. \E h : h = [node \in D |-> JsonObjectToUObject(json[node], PropertyClass, h)]
  BY <1>9
<1>11. MadeOf = [node \in D |-> JsonObjectToUObject(json[node], PropertyClass, MadeOf)]
  BY <1>10 DEF MadeOf
<1> HIDE DEF D
<1> QED BY <1>2, <1>11

(* What the receiver makes of each node is what the two ends promise.      *)
LEMMA NodesArrive ==
    ASSUME HeapTypes, NoDates, FormTypes, JsonAsWritten
    PROVE  \A node \in Nodes : MadeOf[node] = Arrives[node]
<1> DEFINE Wrong == {node \in Nodes : MadeOf[node] # Arrives[node]}
           ranks == {Rank(node) : node \in Wrong}
<1>1. ASSUME Wrong # {} PROVE FALSE
  <2>1. ranks \in SUBSET Nat /\ ranks # {}
    BY <1>1, RankIsNat
  <2>2. PICK k \in ranks : \A l \in ranks : k <= l
    <3> HIDE DEF ranks
    <3> QED BY <2>1, Least
  <2>3. PICK node \in Wrong : k = Rank(node)
    BY <2>2
  <2>4. node \in Nodes /\ MadeOf[node] # Arrives[node]
    BY <2>3
  <2>5. ASSUME NEW m \in Nodes, Rank(m) < Rank(node) PROVE MadeOf[m] = Arrives[m]
    <3>1. Rank(m) \in Nat /\ Rank(node) \in Nat
      BY <2>4, RankIsNat
    <3>2. Rank(m) \notin ranks
      BY <2>2, <2>3, <2>5, <3>1
    <3> QED BY <3>2
  <2>6. json[node] = UObjectToJsonObject(PropertyClass, node[1], node[2])
    BY <2>4 DEF JsonAsWritten
  <2>7. JsonObjectToUObject(json[node], PropertyClass, MadeOf) = Promise(node, Arrives)
    BY <2>4, <2>5, <2>6, NodeReadsBack
  <2> QED BY <2>4, <2>7, ArrivesIs, MadeOfIs
<1> QED BY <1>1

-----------------------------------------------------------------------------
(* The message itself.                                                     *)

(* The forms in which it is written and read, and its fields. *)
Sent == SerializerFor(heap[Message].class)
Told == SerializerFor(targetClass)
Body == AddJsonValues(Message, {} \union {Message})

(* The Type and the Body of what is written are no property of any class.  *)
LEMMA KeysAreApart ==
    /\ TypeKey # BodyKey
    /\ \A class, c \in Classes : \A p \in Properties(c) : KeyFor(class, p) \notin {TypeKey, BodyKey}
<1>1. \A class, p : KeyFor(class, p)[1] = p
  BY DEF KeyFor
<1>2. TypeKey[1] = "Type" /\ BodyKey[1] = "Body"
  BY DEF TypeKey, BodyKey, Plain
<1>3. "Type" \notin Names /\ "Body" \notin Names
  BY DEF Names
<1> QED BY <1>1, <1>2, <1>3, PropertiesHaveNames

(* What the message, as it came, holds besides the value exchanged.        *)
LEMMA RootIs ==
    ASSUME HeapTypes, FormTypes, JsonAsWritten
    PROVE  LET own == heap[Message].class
               rest == {KeyFor(own, p) : p \in Properties(own) \ {changed}}
               body == IF Sent = "WriteType" THEN json[Root][2][BodyKey] ELSE json[Root]
           IN /\ json[Root][1] = "object"
              /\ Sent = "WriteType" =>
                     /\ DOMAIN json[Root][2] = {TypeKey, BodyKey}
                     /\ json[Root][2][TypeKey] = <<"string", own>>
              /\ body[1] = "object"
              /\ DOMAIN body[2] = {KeyFor(own, p) : p \in Properties(own)}
              /\ \A k \in rest : body[2][k] = Body[2][k]
<1> DEFINE own == heap[Message].class
           keys == {KeyFor(own, p) : p \in Properties(own)}
<1>1. own \in Classes /\ Message \in Objects
  BY JsonAssumption DEF HeapTypes, IsHeap
<1>2. Body[1] = "object" /\ DOMAIN Body[2] = keys /\ Body = <<Body[1], Body[2]>>
  BY DEF Body, AddJsonValues
<1>3. \A k \in keys : k \notin {TypeKey, BodyKey}
  BY <1>1, KeysAreApart
<1>4. \A p, q : KeyFor(own, p) = KeyFor(own, q) => p = q
  BY DEF KeyFor
<1>5. CASE Sent = "NoWriteType"
  <2>1. RootAsWritten = Body
    BY <1>5 DEF RootAsWritten, UObjectToJsonObject, Body, Sent
  <2>2. CASE json[Root] = RootAsWritten
    BY <1>2, <1>5, <2>1, <2>2
  <2>3. CASE json[Root] # RootAsWritten
    <3>1. PICK v \in OtherValues : json[Root] = WithValue(Body, KeyFor(own, changed), v)
      BY <2>1, <2>3 DEF JsonAsWritten
    <3>2. changed \in Properties(own) /\ KeyFor(own, changed) \in keys
      BY <2>3 DEF JsonAsWritten
    <3>3. json[Root] = [Body EXCEPT ![2][KeyFor(own, changed)] = v]
      BY <1>2, <3>1, <3>2 DEF WithValue
    <3>4. json[Root][1] = Body[1] /\ json[Root][2] = [Body[2] EXCEPT ![KeyFor(own, changed)] = v]
      BY <1>2, <3>3
    <3>5. ASSUME NEW p \in Properties(own) \ {changed}
          PROVE  json[Root][2][KeyFor(own, p)] = Body[2][KeyFor(own, p)]
      BY <1>2, <1>4, <3>4
    <3>6. DOMAIN json[Root][2] = keys
      BY <1>2, <3>4
    <3> QED BY <1>2, <1>5, <3>4, <3>5, <3>6
  <2> QED BY <2>2, <2>3
<1>6. CASE Sent = "WriteType"
  <2> DEFINE F == [k \in {TypeKey, BodyKey} |-> IF k = TypeKey THEN <<"string", own>> ELSE Body]
  <2>1. RootAsWritten = <<"object", F>>
    BY <1>6 DEF RootAsWritten, UObjectToJsonObject, Body, Sent, WithType, TypeName
  <2>2. DOMAIN F = {TypeKey, BodyKey} /\ F[TypeKey] = <<"string", own>> /\ F[BodyKey] = Body
    BY KeysAreApart
  <2> HIDE DEF F
  <2>3. CASE json[Root] = RootAsWritten
    BY <1>2, <1>6, <2>1, <2>2, <2>3
  <2>4. CASE json[Root] # RootAsWritten
    <3> DEFINE key == KeyFor(own, changed)
    <3>1. PICK v \in OtherValues : json[Root] = WithValue(<<"object", F>>, key, v)
      BY <2>1, <2>4 DEF JsonAsWritten
    <3>2. changed \in Properties(own) /\ key \in keys
      BY <2>4 DEF JsonAsWritten
    <3>3. key \notin DOMAIN F
      BY <1>3, <2>2, <3>2
    <3> DEFINE b == [Body EXCEPT ![2][key] = v]
    <3>4. json[Root] = [<<"object", F>> EXCEPT ![2][BodyKey][2][key] = v]
      BY <3>1, <3>3 DEF WithValue
    <3>5. json[Root][1] = "object" /\ json[Root][2] = [F EXCEPT ![BodyKey] = b]
      BY <2>2, <3>4
    <3>6. DOMAIN json[Root][2] = {TypeKey, BodyKey} /\ json[Root][2][TypeKey] = <<"string", own>>
            /\ json[Root][2][BodyKey] = b
      BY <2>2, <3>5, KeysAreApart
    <3>7. b[1] = "object" /\ b[2] = [Body[2] EXCEPT ![key] = v]
      BY <1>2
    <3>8. ASSUME NEW p \in Properties(own) \ {changed}
          PROVE  b[2][KeyFor(own, p)] = Body[2][KeyFor(own, p)]
      BY <1>2, <1>4, <3>7
    <3>9. DOMAIN b[2] = keys
      BY <1>2, <3>7
    <3> HIDE DEF b
    <3> QED BY <1>6, <3>5, <3>6, <3>7, <3>8, <3>9
  <2> QED BY <2>3, <2>4
<1>7. Sent \in {"NoWriteType", "WriteType"}
  BY <1>1 DEF Sent, FormTypes
<1> QED BY <1>5, <1>6, <1>7

(* Of the message, as it came, the object that was promised is made, but   *)
(* for the property whose value was exchanged.                             *)
LEMMA BodyArrives ==
    ASSUME HeapTypes, NoDates, FormTypes, JsonAsWritten, NEW class \in Classes, NEW body,
           body[1] = "object",
           DOMAIN body[2] = {KeyFor(heap[Message].class, p) : p \in Properties(heap[Message].class)},
           \A p \in Properties(heap[Message].class) \ {changed} :
               LET k == KeyFor(heap[Message].class, p) IN body[2][k] = Body[2][k]
    PROVE  /\ JsonToFields(body, class, MadeOf).class = class
           /\ \A p \in Properties(class) \ {changed} :
                  JsonToFields(body, class, MadeOf).fields[p] = Made(Message, class, {}, Arrives).fields[p]
<1> DEFINE own == heap[Message].class
           keys == {KeyFor(own, p) : p \in Properties(own)}
<1>1. own \in Classes /\ Message \in Objects
  BY JsonAssumption DEF HeapTypes, IsHeap
<1>2. Body[1] = "object" /\ DOMAIN Body[2] = keys
  BY DEF Body, AddJsonValues
<1>3. Members(body) = body[2] /\ Members(Body) = Body[2]
  BY <1>2 DEF Members
<1>4. ASSUME NEW p \in Properties(class) \ {changed}
      PROVE  JsonPropertyToFProperty(body, class, p, MadeOf) = JsonPropertyToFProperty(Body, class, p, MadeOf)
  <2> DEFINE key == KeyFor(class, p)
  <2>1. key \in keys => key = KeyFor(own, p) /\ p \in Properties(own)
    BY DEF KeyFor
  <2>2. key \in keys => body[2][key] = Body[2][key]
    BY <2>1
  <2>3. Has(body, key) <=> Has(Body, key)
    BY <1>2, <1>3, <2>2 DEF Has
  <2>4. Has(body, key) => body[2][key] = Body[2][key]
    BY <1>3, <2>2 DEF Has
  <2> HIDE DEF key
  <2> QED BY <1>3, <2>3, <2>4 DEF JsonPropertyToFProperty, key
<1>5. JsonToFields(Body, class, MadeOf) = Made(Message, class, {}, MadeOf)
  BY <1>1, FieldsReadBack DEF Body
<1>6. Made(Message, class, {}, MadeOf) = Made(Message, class, {}, Arrives)
  <2>1. \A r \in Objects : <<r, {} \union {Message}>> \in Nodes
    BY <1>1, ReferencesAreNodes
  <2>2. \A r \in Objects : MadeOf[<<r, {} \union {Message}>>] = Arrives[<<r, {} \union {Message}>>]
    BY <2>1, NodesArrive
  <2> QED BY <1>1, <2>2, MadeOfSame
<1>7. \A p \in Properties(class) :
          JsonToFields(Body, class, MadeOf).fields[p] = JsonPropertyToFProperty(Body, class, p, MadeOf)
  BY DEF JsonToFields
<1>8. /\ JsonToFields(body, class, MadeOf).class = class
      /\ \A p \in Properties(class) :
             JsonToFields(body, class, MadeOf).fields[p] = JsonPropertyToFProperty(body, class, p, MadeOf)
  BY DEF JsonToFields
<1> QED BY <1>4, <1>5, <1>6, <1>7, <1>8

(* The four cases of what is expected. *)
LEMMA ExpectedIs ==
    /\ Told = "NoWriteType" /\ targetClass = Null => Expected = Null
    /\ Told = "WriteType" /\ Sent # Told => Expected = Null
    /\ Told = "NoWriteType" /\ targetClass # Null /\ Sent # Told => Expected = NewObject(targetClass)
    /\ ~(Told = "NoWriteType" /\ targetClass = Null) /\ Sent = Told =>
           Expected = ArrivesAs(Message, targetClass, {}, Arrives)
BY DEF Expected, Told, Sent

(* What ObjectsArrive says of a received object. *)
AsExpected(object) ==
    IF Expected = Null THEN object = Null
    ELSE /\ object # Null /\ object.class = Expected.class
         /\ \A p \in Properties(Expected.class) \ {changed} : object.fields[p] = Expected.fields[p]

(* Null is no function: no object that was received, and no message.       *)
NullIsNoFunction == Null # [x \in DOMAIN Null |-> Null[x]]

(* An object that is made of JSON is not null. *)
LEMMA ObjectsAreNotNull ==
    ASSUME NullIsNoFunction, NEW class, NEW fields
    PROVE  [class |-> class, fields |-> fields] # Null
<1> DEFINE object == [class |-> class, fields |-> fields]
<1>1. object = [x \in DOMAIN object |-> object[x]]
  OBVIOUS
<1> HIDE DEF object
<1>2. object # Null
  BY <1>1 DEF NullIsNoFunction
<1> QED BY <1>2 DEF object

(* Whatever the forms of the two ends and the class the receiver expects,  *)
(* it gets what was promised.                                              *)
LEMMA MessageArrives ==
    ASSUME NullIsNoFunction, HeapTypes, NoDates, FormTypes, JsonAsWritten, targetClass \in Classes \union {Null}
    PROVE  AsExpected(JsonObjectToUObject(json[Root], targetClass, MadeOf))
<1> DEFINE own == heap[Message].class
           j == json[Root]
           made == JsonObjectToUObject(j, targetClass, MadeOf)
<1>1. own \in Classes /\ Message \in Objects
  BY JsonAssumption DEF HeapTypes, IsHeap
<1>2. Sent \in {"NoWriteType", "WriteType"} /\ Told \in {"NoWriteType", "WriteType"}
  BY <1>1 DEF FormTypes, Sent, Told
<1>3. j[1] = "object" /\ Members(j) = j[2]
  BY RootIs DEF Members
<1>4. \A object, class : object = Made(Message, class, {}, Arrives) => object # Null
  BY ObjectsAreNotNull DEF Made
<1>5. CASE Told = "NoWriteType" /\ targetClass = Null
  <2>1. Expected = Null
    BY <1>5, ExpectedIs
  <2>2. made = Null
    BY <1>5 DEF JsonObjectToUObject, WithoutTypeToUObject, Told
  <2> QED BY <2>1, <2>2 DEF AsExpected
<1>6. CASE Told = "NoWriteType" /\ targetClass # Null /\ Sent = "WriteType"
  <2>1. Expected = NewObject(targetClass)
    BY <1>6, ExpectedIs
  <2>2. targetClass \in Classes
    BY <1>6
  <2>3. \A p \in Properties(targetClass) : KeyFor(targetClass, p) \notin DOMAIN j[2]
    BY <1>6, <2>2, KeysAreApart, RootIs
  <2>4. \A p \in Properties(targetClass) : JsonPropertyToFProperty(j, targetClass, p, MadeOf) = DefaultValue[p]
    BY <1>3, <2>3 DEF JsonPropertyToFProperty, Has
  <2>5. JsonToFields(j, targetClass, MadeOf) = NewObject(targetClass)
    BY <2>4 DEF JsonToFields, NewObject
  <2>6. made = NewObject(targetClass)
    BY <1>6, <2>5 DEF JsonObjectToUObject, WithoutTypeToUObject, Told
  <2>7. NewObject(targetClass) # Null
    BY ObjectsAreNotNull DEF NewObject
  <2> QED BY <2>1, <2>6, <2>7 DEF AsExpected
<1>7. CASE Told = "WriteType" /\ Sent = "NoWriteType"
  <2>1. Expected = Null
    BY <1>7, ExpectedIs
  <2>2. DOMAIN j[2] = {KeyFor(own, p) : p \in Properties(own)}
    BY <1>7, RootIs
  <2>3. TypeKey \notin DOMAIN j[2]
    BY <1>1, <2>2, KeysAreApart
  <2>4. made = Null
    BY <1>3, <1>7, <2>3 DEF JsonObjectToUObject, WithTypeToUObject, Has, Told
  <2> QED BY <2>1, <2>4 DEF AsExpected
<1>8. CASE Told = "NoWriteType" /\ targetClass # Null /\ Sent = "NoWriteType"
  <2>1. targetClass \in Classes
    BY <1>8
  <2>2. Expected = Made(Message, targetClass, {}, Arrives)
    BY <1>8, ExpectedIs DEF Told, ArrivesAs, Made
  <2>3. made = JsonToFields(j, targetClass, MadeOf)
    BY <1>8 DEF JsonObjectToUObject, WithoutTypeToUObject, Told
  <2>4. /\ DOMAIN j[2] = {KeyFor(own, p) : p \in Properties(own)}
        /\ \A p \in Properties(own) \ {changed} : j[2][KeyFor(own, p)] = Body[2][KeyFor(own, p)]
    BY <1>8, RootIs
  <2>5. /\ made.class = targetClass
        /\ \A p \in Properties(targetClass) \ {changed} :
               made.fields[p] = Made(Message, targetClass, {}, Arrives).fields[p]
    BY <1>3, <2>1, <2>3, <2>4, BodyArrives
  <2>6. made # Null /\ Expected # Null
    BY <1>4, <2>2, <2>3, ObjectsAreNotNull DEF JsonToFields
  <2>7. Expected.class = targetClass
    BY <2>2 DEF Made
  <2> QED BY <2>2, <2>5, <2>6, <2>7 DEF AsExpected
<1>9. CASE Told = "WriteType" /\ Sent = "WriteType"
  <2> DEFINE body == j[2][BodyKey]
  <2>1. Expected = Made(Message, own, {}, Arrives)
    BY <1>9, ExpectedIs DEF Told, ArrivesAs, Made
  <2>2. /\ DOMAIN j[2] = {TypeKey, BodyKey} /\ j[2][TypeKey] = <<"string", own>>
        /\ body[1] = "object" /\ DOMAIN body[2] = {KeyFor(own, p) : p \in Properties(own)}
        /\ \A p \in Properties(own) \ {changed} : body[2][KeyFor(own, p)] = Body[2][KeyFor(own, p)]
    BY <1>9, RootIs
  <2>3. IsObject(body) /\ body # JsonNull /\ j[2][TypeKey] # JsonNull
    BY <2>2 DEF IsObject, JsonNull
  <2>4. Has(j, TypeKey) /\ Has(j, BodyKey)
    BY <1>3, <2>2, <2>3 DEF Has
  <2>5. made = JsonToFields(body, own, MadeOf)
    BY <1>1, <1>3, <1>9, <2>2, <2>3, <2>4 DEF JsonObjectToUObject, WithTypeToUObject, Told
  <2>6. /\ made.class = own
        /\ \A p \in Properties(own) \ {changed} :
               made.fields[p] = Made(Message, own, {}, Arrives).fields[p]
    BY <1>1, <2>2, <2>5, BodyArrives
  <2>7. made # Null /\ Expected # Null
    BY <1>4, <2>1, <2>5, ObjectsAreNotNull DEF JsonToFields
  <2>8. Expected.class = own
    BY <2>1 DEF Made
  <2> QED BY <2>1, <2>6, <2>7, <2>8 DEF AsExpected
<1> QED BY <1>2, <1>5, <1>6, <1>7, <1>8, <1>9

-----------------------------------------------------------------------------
(* What is done with the message. *)

(* The inductive invariant: the message is the JSON of the sender's        *)
(* objects, but for the value exchanged, and what was received is what was *)
(* promised.                                                               *)
JsonInv ==
    /\ HeapTypes /\ FormOK /\ targetClass \in Classes \union {Null}
    /\ json = Null => changed = "nothing" /\ ~arrived
    /\ json # Null => JsonAsWritten
    /\ arrived /\ NoDates => AsExpected(createdObj)

(* What no step changes. *)
Settings == <<heap, form, targetClass>>

(* "nothing" is no property. *)
LEMMA NotAProperty == \A class \in Classes : "nothing" \notin Properties(class)
BY DEF Properties, Classes

(* The invariant holds before anything is sent. *)
LEMMA JsonInvInit ==
    ASSUME NEW CONSTANT Heaps, \A h \in Heaps : IsHeap(h), JsonInit(Heaps)
    PROVE  JsonInv
BY DEF JsonInit, JsonInv, HeapTypes, FormOK

(* What is expected depends on nothing that a step changes. *)
LEMMA ExpectedStays ==
    ASSUME UNCHANGED Settings
    PROVE  Expected' = Expected /\ (NoDates' <=> NoDates)
<1>1. \A c : SerializerFor(c)' = SerializerFor(c)
  BY DEF Settings, SerializerFor
<1>2. Arrives' = Arrives
  BY DEF Settings, Arrives, ArrivesAs, SerializerFor
<1>3. Expected' = Expected
  BY <1>2 DEF Settings, Expected, ArrivesAs, SerializerFor
<1>4. NoDates' <=> NoDates
  BY DEF Settings, NoDates, HasNoDates
<1> QED BY <1>3, <1>4

(* No step changes the objects, the forms or the expected class. *)
LEMMA SettingsKeep ==
    ASSUME JsonInv, UNCHANGED Settings
    PROVE  HeapTypes' /\ FormOK' /\ targetClass' \in Classes \union {Null}
BY DEF JsonInv, Settings, HeapTypes, FormOK

(* The JSON that is written depends on nothing that a step changes.        *)
LEMMA WritingStays ==
    ASSUME UNCHANGED Settings
    PROVE  /\ \A c, o, v : UObjectToJsonObject(c, o, v)' = UObjectToJsonObject(c, o, v)
           /\ RootAsWritten' = RootAsWritten
<1>1. \A c, o, v : UObjectToJsonObject(c, o, v)' = UObjectToJsonObject(c, o, v)
  BY DEF Settings, UObjectToJsonObject, AddJsonValues, WithType, TypeName, SerializerFor
<1>2. RootAsWritten' = RootAsWritten
  BY <1>1 DEF RootAsWritten, Settings
<1> QED BY <1>1, <1>2

(* ... and neither does the message under way, if nothing is exchanged.    *)
LEMMA WrittenStays ==
    ASSUME UNCHANGED Settings, UNCHANGED <<json, changed>>, JsonAsWritten
    PROVE  JsonAsWritten'
<1>1. heap' = heap
  BY DEF Settings
<1> QED BY <1>1, WritingStays DEF JsonAsWritten

(* Sending writes the JSON of every node. *)
LEMMA SendKeepsJson ==
    ASSUME JsonInv, SendMessage
    PROVE  JsonInv'
<1>1. UNCHANGED Settings /\ ~arrived' /\ changed' = "nothing"
  BY DEF JsonInv, SendMessage, Settings
<1>2. json' = [node \in {Root} \union Nodes |->
                   UObjectToJsonObject(IF node = Root THEN heap[Message].class ELSE PropertyClass,
                                       node[1], node[2])]
  BY DEF SendMessage, CreateJsonObject
<1>3. Root \notin Nodes /\ Root[1] = Message /\ Root[2] = {}
  BY DEF Root, Nodes
<1>4. /\ \A node \in Nodes : json'[node] = UObjectToJsonObject(PropertyClass, node[1], node[2])
      /\ json'[Root] = RootAsWritten
      /\ DOMAIN json' = {Root} \union Nodes
  BY <1>2, <1>3 DEF RootAsWritten
<1>5. JsonAsWritten'
  BY <1>1, <1>4, WritingStays DEF JsonAsWritten
<1> QED BY <1>1, <1>5, SettingsKeep DEF JsonInv

(* Another value in the message leaves the rest of it as it was written. *)
LEMMA ExchangeKeepsJson ==
    ASSUME NullIsNoFunction, JsonInv, ExchangeValue
    PROVE  JsonInv'
<1>1. UNCHANGED Settings /\ ~arrived' /\ json # Null /\ changed = "nothing"
  BY DEF JsonInv, ExchangeValue, Settings
<1>2. PICK p \in Properties(heap[Message].class), v \in OtherValues :
          /\ json' = [node \in {Root} \union Nodes \union DOMAIN OtherObjects |->
                         CASE node = Root -> WithValue(json[Root], KeyFor(heap[Message].class, p), v)
                           [] node \in DOMAIN OtherObjects -> OtherObjects[node]
                           [] OTHER -> json[node]]
          /\ changed' = p
  BY DEF ExchangeValue
<1>3. /\ Root \notin Nodes /\ Root \notin DOMAIN OtherObjects
      /\ \A node \in DOMAIN OtherObjects : node \notin Nodes
  BY JsonAssumption DEF Root, Nodes, OtherObjects, OtherObject, OtherStruct
<1>4. heap[Message].class \in Classes /\ JsonAsWritten
  BY <1>1, JsonAssumption DEF JsonInv, HeapTypes, IsHeap
<1>5. json[Root] = RootAsWritten
  BY <1>1, <1>4, NotAProperty DEF JsonAsWritten
<1>6. /\ \A node \in Nodes : json'[node] = json[node]
      /\ json'[Root] = WithValue(RootAsWritten, KeyFor(heap[Message].class, p), v)
      /\ \A node \in DOMAIN OtherObjects : json'[node] = OtherObjects[node]
      /\ DOMAIN json' = {Root} \union Nodes \union DOMAIN OtherObjects
  BY <1>2, <1>3, <1>5
<1>7. heap' = heap
  BY <1>1 DEF Settings
<1>8. \A node \in Nodes : json'[node] = UObjectToJsonObject(PropertyClass, node[1], node[2])
  BY <1>4, <1>6 DEF JsonAsWritten
<1>9. JsonAsWritten'
  BY <1>1, <1>2, <1>6, <1>7, <1>8, WritingStays DEF JsonAsWritten
<1>10. json' # Null
  <2>1. json' = [node \in DOMAIN json' |-> json'[node]]
    BY <1>2
  <2> QED BY <2>1 DEF NullIsNoFunction
<1> QED BY <1>1, <1>9, <1>10, SettingsKeep DEF JsonInv

(* What is made of the message is what was promised. *)
LEMMA ReceiveKeepsJson ==
    ASSUME NullIsNoFunction, JsonInv, NotifyReceiveBuffer
    PROVE  JsonInv'
<1>1. UNCHANGED Settings /\ UNCHANGED <<json, changed>> /\ json # Null
  BY DEF NotifyReceiveBuffer, Settings
<1>2. createdObj' = JsonObjectToUObject(json[Root], targetClass, MadeOf)
  BY DEF NotifyReceiveBuffer
<1>3. FormTypes /\ HeapTypes /\ JsonAsWritten /\ targetClass \in Classes \union {Null}
  BY <1>1, FormIsKnown DEF JsonInv
<1>4. NoDates => AsExpected(createdObj')
  BY <1>2, <1>3, MessageArrives
<1>5. NoDates' => AsExpected(createdObj)'
  BY <1>1, <1>4, ExpectedStays DEF AsExpected
<1>6. JsonAsWritten'
  BY <1>1, <1>3, WrittenStays
<1> QED BY <1>1, <1>5, <1>6, SettingsKeep DEF JsonInv

(* Every step keeps the invariant. *)
LEMMA JsonInvStep ==
    ASSUME NullIsNoFunction
    PROVE  JsonInv /\ [JsonNext]_jsonVars => JsonInv'
<1> SUFFICES ASSUME JsonInv, [JsonNext]_jsonVars PROVE JsonInv'
  OBVIOUS
<1>1. CASE SendMessage
  BY <1>1, SendKeepsJson
<1>2. CASE ExchangeValue
  BY <1>2, ExchangeKeepsJson
<1>3. CASE NotifyReceiveBuffer
  BY <1>3, ReceiveKeepsJson
<1>4. CASE UNCHANGED jsonVars
  <2>1. UNCHANGED Settings /\ UNCHANGED <<json, changed, createdObj, arrived>>
    BY <1>4 DEF jsonVars, Settings
  <2>2. JsonAsWritten => JsonAsWritten'
    BY <2>1, WrittenStays
  <2>3. NoDates' /\ AsExpected(createdObj) => AsExpected(createdObj)'
    BY <2>1, ExpectedStays DEF AsExpected
  <2> QED BY <2>1, <2>2, <2>3, ExpectedStays, SettingsKeep DEF JsonInv
<1> QED BY <1>1, <1>2, <1>3, <1>4 DEF JsonNext

(* The invariant says of a received object what ObjectsArrive says. *)
LEMMA JsonInvSuffices == JsonInv => ObjectsArrive
BY DEF JsonInv, ObjectsArrive, AsExpected, NoDates

(* The receiver gets what the two ends promise, of any objects that hold   *)
(* what their classes have and refer to each other in any way, in circles  *)
(* too, for any forms, any expected class and any classes that convert     *)
(* names; a value it cannot use costs it that property only.               *)
THEOREM JsonSafety ==
    ASSUME NullIsNoFunction, NEW CONSTANT Heaps, \A h \in Heaps : IsHeap(h)
    PROVE  JsonSpec(Heaps) => []ObjectsArrive
<1>1. JsonInit(Heaps) => JsonInv
  BY JsonInvInit
<1>2. JsonInv /\ [JsonNext]_jsonVars => JsonInv'
  BY JsonInvStep
<1> QED BY <1>1, <1>2, JsonInvSuffices, PTL DEF JsonSpec
=============================================================================
