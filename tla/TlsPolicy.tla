------------------------------ MODULE TlsPolicy ------------------------------
(***************************************************************************)
(* Which connections the two ends of TLS admit.  The factory initializes a *)
(* client, and With... calls set it up, in any order and repeated; every   *)
(* attempt to connect configures an FOpenSslConnection from what the calls *)
(* left, lets the handshake come to its end whatever the certificate, and  *)
(* then judges the certificate itself.  A server leaves the judgement of   *)
(* the client's certificate to OpenSSL.                                    *)
(*                                                                         *)
(* A certificate is what the checks see of it: its key, its names, who     *)
(* signed it and whether its chain shows the signer.  A file is what is    *)
(* read from it.                                                           *)
(***************************************************************************)
EXTENDS FiniteSets, Naturals, Sequences

CONSTANTS
    Keys,          \* public keys, and their digests
    Authorities,   \* certificate authorities
    SystemRoots,   \* the authorities every context trusts
    HostNames,     \* identities that are names
    IpAddresses,   \* identities that are numeric addresses
    Protocols,     \* versions of TLS to ask for: the digit after TLSv1_
    MaxCalls       \* bound: calls that set up one client

Signers    == Keys \cup Authorities
Identities == HostNames \cup IpAddresses
Unset      == "empty"       \* an empty string: a path, a digest or a name
Broken     == "broken"      \* a file that cannot be read or parsed

(* The factory's enumeration of protocols ends with TLSv1_2.               *)
ASSUME TlsPolicyAssumption ==
    /\ Keys \cap Authorities = {} /\ SystemRoots \subseteq Authorities
    /\ HostNames \cap IpAddresses = {}
    /\ {Unset, Broken} \cap (Signers \cup Identities) = {}
    /\ Protocols \subseteq 0 .. 2 /\ MaxCalls \in Nat

Certificates == {c \in [key : Keys, signer : Signers, names : SUBSET Identities, shown : BOOLEAN] :
                    c.signer \in Authorities \cup {c.key}}

(* A server as a client meets it, which may speak TLS 1.3 as well, and     *)
(* what a server is set up with: its certificate, whether its key is that  *)
(* of the certificate, and what it makes of its clients.                   *)
Peers       == [certificate : Certificates, protocol : Protocols \cup {3}]
ServerRules == [cert : {Unset, Broken, "own"}, key : {Unset, "other", "matching"},
                mode : {"None", "Optional", "Required"}, clientCa : {Unset, Broken} \cup Signers]

VARIABLES
    settings,      \* the members of a UProtocolTcpIpClientTls
    certFile,      \* SSL_CERT_FILE of the process
    asked,         \* ghost: what the factory was asked for
    calls          \* ghost: the calls so far

policyVars == <<settings, certFile, asked, calls>>

(* The constructor and InitializeTls.  The name is the identity to expect; *)
(* if it cannot be resolved the minimum protocol keeps its default.        *)
InitializeTls(identity, protocol, resolves) ==
    settings = [identity |-> identity, protocol |-> IF resolves THEN protocol ELSE 2,
                verifyPeer |-> TRUE, allowSelfSigned |-> FALSE,
                pinRequested |-> FALSE, pin |-> Unset, trustedCa |-> Unset,
                clientCert |-> Unset, clientKey |-> Unset]

PolicyInit ==
    /\ \E i \in Identities, p \in Protocols, found \in BOOLEAN :
          /\ InitializeTls(i, p, found)
          /\ asked = [identity |-> i, protocol |-> p]
    /\ certFile = Unset
    /\ calls = <<>>

-----------------------------------------------------------------------------
(* The calls.                                                              *)

Called(call, s) ==
    /\ Len(calls) < MaxCalls
    /\ calls' = Append(calls, call)
    /\ settings' = s
    /\ UNCHANGED asked

WithPinnedPublicKey(digest) ==
    /\ Called([op |-> "pin", digest |-> digest],
              [settings EXCEPT !.pinRequested = TRUE, !.pin = digest])
    /\ UNCHANGED certFile

(* Mutant: a file without a digest asks for nothing. *)
PinFromFileForgiven(content) ==
    /\ Called([op |-> "pinFile", digest |-> content],
              IF content = Broken THEN settings
              ELSE [settings EXCEPT !.pinRequested = TRUE, !.pin = content])
    /\ UNCHANGED certFile

(* WithPinnedPublicKeyFromFile.  A file without a digest leaves the digest *)
(* that was there, and the request.                                        *)
WithPinnedPublicKeyFromFile(content) ==
    /\ Called([op |-> "pinFile", digest |-> content],
              [settings EXCEPT !.pinRequested = TRUE,
                               !.pin = IF content = Broken THEN @ ELSE content])
    /\ UNCHANGED certFile

WithCertificateVerification ==
    /\ Called([op |-> "verify"], [settings EXCEPT !.verifyPeer = TRUE])
    /\ UNCHANGED certFile

WithPeerVerificationDisabled ==
    /\ Called([op |-> "disable"],
              [settings EXCEPT !.verifyPeer = FALSE, !.allowSelfSigned = FALSE])
    /\ UNCHANGED certFile

WithAllowSelfSignedCertificates(allowed) ==
    /\ Called([op |-> "selfSigned", allowed |-> allowed],
              [settings EXCEPT !.allowSelfSigned = allowed])
    /\ UNCHANGED certFile

WithTrustedCaCertificate(content) ==
    /\ Called([op |-> "ca", content |-> content], [settings EXCEPT !.trustedCa = content])
    /\ UNCHANGED certFile

(* The certificate by its signer; the key by whether it is that of the     *)
(* certificate.                                                            *)
WithClientCertificate(cert, key) ==
    /\ Called([op |-> "certificate", cert |-> cert, key |-> key],
              [settings EXCEPT !.clientCert = cert, !.clientKey = key])
    /\ UNCHANGED certFile

(* InitializeTls of a server in the same process, with a self-signed       *)
(* certificate.  The first one leaves it in SSL_CERT_FILE, from which      *)
(* every context reads.                                                    *)
InitializeServer(key) ==
    /\ Called([op |-> "server", content |-> key], settings)
    /\ certFile' = IF certFile = Unset THEN key ELSE certFile

-----------------------------------------------------------------------------
(* An attempt to connect.                                                  *)

FileSigners(content) == {content} \cap Signers

(* Two files that can be read and go together. *)
PairLoads(cert, key) == cert \notin {Unset, Broken} /\ key = "matching"

(* What CreateSslContext makes the context trust. *)
Anchors(s) == SystemRoots \cup FileSigners(certFile) \cup FileSigners(s.trustedCa)

(* TryConnect's own check of the pin, SetClientCertificate, CreateSslContext. *)
Configured(s) ==
    /\ ~(s.pinRequested /\ s.pin = Unset)
    /\ s.trustedCa # Broken
    /\ \/ s.clientCert = Unset /\ s.clientKey = Unset
       \/ PairLoads(s.clientCert, s.clientKey)

(* SSL_get_verify_result. *)
VerifyResult(c, anchors) ==
    CASE c.signer \in anchors -> "X509_V_OK"
      [] c.signer \notin anchors /\ c.signer = c.key -> "DEPTH_ZERO_SELF_SIGNED_CERT"
      [] c.signer \notin anchors /\ c.signer # c.key /\ c.shown -> "SELF_SIGNED_CERT_IN_CHAIN"
      [] OTHER -> "UNABLE_TO_GET_ISSUER_CERT"

(* IsPeerCertificateSelfSigned. *)
IsSelfSigned(c) == c.signer = c.key

(* VerifyPeerIdentity: by X509_check_ip_asc or X509_check_host. *)
VerifyPeerIdentity(c, identity) == identity = Unset \/ identity \in c.names

(* FOpenSslConnection::Connect, in the order of its checks. *)
Admits(s, peer) ==
    LET c == peer.certificate
    IN  /\ Configured(s)
        /\ peer.protocol >= s.protocol
        /\ s.verifyPeer =>
              LET result == VerifyResult(c, Anchors(s))
              IN  \/ result = "X509_V_OK"
                  \/ /\ s.allowSelfSigned
                     /\ result \in {"DEPTH_ZERO_SELF_SIGNED_CERT", "SELF_SIGNED_CERT_IN_CHAIN"}
        /\ s.verifyPeer /\ s.allowSelfSigned => ~(IsSelfSigned(c) /\ s.pin = Unset)
        /\ s.pin # Unset => s.pin = c.key
        /\ s.verifyPeer => VerifyPeerIdentity(c, s.identity)

(* LoadCertificateAndKey. *)
OwnCertificateLoaded(rules) == PairLoads(rules.cert, rules.key)

(* InitializeForServer, with ApplyServerClientAuthSettings: a connection is *)
(* accepted only with a certificate of the server's own and the CA that    *)
(* the mode needs.                                                         *)
ServerConfigured(rules) ==
    /\ OwnCertificateLoaded(rules)
    /\ rules.mode # "None" => rules.clientCa \in Signers

(* SSL_VERIFY_FAIL_IF_NO_PEER_CERT, by GetOpenSslVerifyMode. *)
MustPresent(rules) == rules.mode = "Required"

(* SSL_accept. *)
ServerAdmits(rules, s) ==
    /\ ServerConfigured(rules)
    /\ MustPresent(rules) => s.clientCert # Unset
    /\ rules.mode # "None" /\ s.clientCert # Unset =>
          s.clientCert \in SystemRoots \cup FileSigners(certFile) \cup {rules.clientCa}

-----------------------------------------------------------------------------
PolicyNext ==
    \/ \E d \in Keys \cup {Unset} : WithPinnedPublicKey(d)
    \/ \E f \in Keys \cup {Broken} : WithPinnedPublicKeyFromFile(f)
    \/ WithCertificateVerification \/ WithPeerVerificationDisabled
    \/ \E a \in BOOLEAN : WithAllowSelfSignedCertificates(a)
    \/ \E f \in Signers \cup {Unset, Broken} : WithTrustedCaCertificate(f)
    \/ \E c \in Authorities \cup {Unset, Broken}, k \in {Unset, "other", "matching"} :
          WithClientCertificate(c, k)
    \/ \E k \in Keys : InitializeServer(k)

PolicySpec == PolicyInit /\ [][PolicyNext]_policyVars

-----------------------------------------------------------------------------
(* What the calls ask for, read off their history.                         *)

Of(ops)   == {i \in 1 .. Len(calls) : calls[i].op \in ops}
LastOf(S) == calls[CHOOSE i \in S : \A j \in S : j <= i]

Verifies == LET S == Of({"verify", "disable"}) IN S = {} \/ LastOf(S).op = "verify"

SelfSignedAllowed ==
    LET S == Of({"selfSigned", "disable"})
    IN  S # {} /\ LastOf(S).op = "selfSigned" /\ LastOf(S).allowed

PinsGiven == {i \in Of({"pin", "pinFile"}) : calls[i].digest # Broken}
PinAsked  == Of({"pin", "pinFile"}) # {}
PinnedKey == IF PinsGiven = {} THEN Unset ELSE LastOf(PinsGiven).digest

Trusted ==
    LET CAs == Of({"ca"})
        Servers == Of({"server"})
    IN  SystemRoots \cup (IF CAs = {} THEN {} ELSE FileSigners(LastOf(CAs).content))
        \cup (IF Servers = {} THEN {} ELSE {calls[CHOOSE i \in Servers : \A j \in Servers : i <= j].content})

(* The client.  It admits exactly the servers its calls ask for, however   *)
(* they were ordered, repeated and taken back.  A pin that was asked for,  *)
(* if only by a file that could not be read, is the key of the server,     *)
(* with or without verification.  With verification the server has the     *)
(* name the factory was given, found or not, and is signed by someone      *)
(* trusted, or self-signed where the last word was to allow it, and then   *)
(* pinned, or has a chain that shows its own root where that is allowed.   *)
(* A client certificate that was given is usable.  A name that was not     *)
(* found may make the client ask for a newer protocol, never an older one. *)
ClientAsAsked ==
    LET CAs      == Of({"ca"})
        Certs    == Of({"certificate"})
        verifies == Verifies
        allowed  == SelfSignedAllowed
        trusted  == Trusted
        pins     == PinAsked
        pinned   == PinnedKey
        UsableFiles ==
            /\ CAs # {} => LastOf(CAs).content # Broken
            /\ Certs # {} => \/ LastOf(Certs).cert = Unset /\ LastOf(Certs).key = Unset
                             \/ LastOf(Certs).cert \in Authorities /\ LastOf(Certs).key = "matching"
        Verified(c) ==
            /\ asked.identity \in c.names
            /\ \/ c.signer \in trusted /\ ~(allowed /\ IsSelfSigned(c))
               \/ allowed /\ IsSelfSigned(c) /\ pins
               \/ allowed /\ ~IsSelfSigned(c) /\ c.shown
        AskedFor(peer) ==
            /\ UsableFiles /\ peer.protocol >= asked.protocol
            /\ pins => peer.certificate.key = pinned
            /\ verifies => Verified(peer.certificate)
    IN  \A peer \in Peers :
            /\ Admits(settings, peer) => AskedFor(peer)
            /\ AskedFor(peer) /\ peer.protocol >= 2 => Admits(settings, peer)

(* The server.  It admits nobody without a certificate and key of its own  *)
(* that match.  One that requires a certificate admits no client without   *)
(* one, one that does not look admits all, and a certificate it does look  *)
(* at is signed by its CA or by one the whole process trusts.              *)
ServerAsAsked ==
    LET Certs  == Of({"certificate"})
        signer == IF Certs = {} THEN Unset ELSE LastOf(Certs).cert
        served == \E i \in Of({"server"}) : calls[i].content = signer
    IN  \A rules \in ServerRules :
            ServerAdmits(rules, settings) =>
                LET known == signer \in SystemRoots \cup {rules.clientCa} \/ served
                IN  /\ rules.cert = "own" /\ rules.key = "matching"
                    /\ \/ rules.mode = "None"
                       \/ rules.mode = "Optional" /\ (signer = Unset \/ known)
                       \/ rules.mode = "Required" /\ signer # Unset /\ known

(* A connection comes about only as both ends were asked for it: no order  *)
(* or repetition of the calls that set up a client, no unreadable file and *)
(* no server in the same process makes its checks differ from what the     *)
(* calls, read in order, ask for.                                          *)
AdmittedAsAsked == ClientAsAsked /\ ServerAsAsked
=============================================================================
