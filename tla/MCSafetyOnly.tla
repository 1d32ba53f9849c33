---------------------------- MODULE MCSafetyOnly ----------------------------
(***************************************************************************)
(* Four components without fairness, checked in one run: a behaviour is    *)
(* one of a component, the subject, and the variables of the others stay   *)
(* as they are.                                                            *)
(***************************************************************************)
EXTENDS UdpReceiver, TlsPolicy, CertificateFiles, JsonBox

CONSTANTS e1, e2, k1, k2, public, private, host, n1, n2, o1, o2

TwoSenders      == {e1, e2}
TwoKeys         == {k1, k2}
TwoAuthorities  == {public, private}
PublicAuthority == {public}
OneHost         == {host}
OneProtocol     == {1}
TwoNames        == {n1, n2}
TwoObjects      == {o1, o2}
DerivedConverts == {"Derived"}

(* Two objects of either class. The message refers to itself, to the other *)
(* object or to nothing, with three choices of its list and its map; the   *)
(* other object refers to either of the two.  A double does not hold       *)
(* TooExact.                                                               *)
TooExact == MaxExact + 1

References == TwoObjects \union {Null}

Instances(references, lists, dates, maps) ==
    [class : {"Base"}, fields : [number : {TooExact}, other : references, others : lists]]
    \union
    [class : {"Derived"}, fields : [number : {1}, other : references, others : lists,
                                    text : {"a"}, date : {<<1, 1>>}, dates : dates,
                                    part : {[items |-> <<1, TooExact>>, count |-> 1]},
                                    marks : {{1, TooExact}}, named : maps]]

Messages ==
    Instances(References, {<<>>, <<o2>>}, {<<>>}, {"a" :> o2})
    \union Instances(References, {<<Null>>}, {<<>>}, {"a" :> Null})
    \union Instances(References, {<<>>}, {<<<<1, 1>>>>}, {"a" :> o2})

Others == Instances(TwoObjects, {<<o1>>}, {<<>>}, {"a" :> o1})

Heaps ==
    {[o \in TwoObjects |-> IF o = o1 THEN message ELSE other] :
        message \in Messages, other \in Others}

VARIABLE subject

subjectVars == <<udpVars, policyVars, certificateVars, jsonVars, subject>>

PolicyAtRest ==
    /\ InitializeTls(host, 1, TRUE) /\ asked = [identity |-> host, protocol |-> 1]
    /\ certFile = Unset /\ calls = <<>>

JsonAtRest ==
    /\ JsonInit({[o \in TwoObjects |-> NewObject("Base")]})
    /\ targetClass = Null
    /\ form = [class \in DOMAIN form |-> "NoWriteType"]

MCInit ==
    /\ subject \in {"udp", "policy", "certificates", "json"}
    /\ UdpInit /\ (subject = "udp" \/ from = e1)
    /\ IF subject = "policy" THEN PolicyInit ELSE PolicyAtRest
    /\ CertificateInit
    /\ IF subject = "json" THEN JsonInit(Heaps) ELSE JsonAtRest

MCNext ==
    /\ UNCHANGED subject
    /\ \/ /\ subject = "udp" /\ UdpNext
          /\ UNCHANGED <<policyVars, certificateVars, jsonVars>>
       \/ /\ subject = "policy" /\ PolicyNext
          /\ UNCHANGED <<udpVars, certificateVars, jsonVars>>
       \/ /\ subject = "certificates" /\ CertificateNext
          /\ UNCHANGED <<udpVars, policyVars, jsonVars>>
       \/ /\ subject = "json" /\ JsonNext
          /\ UNCHANGED <<udpVars, policyVars, certificateVars>>

MCSpec == MCInit /\ [][MCNext]_subjectVars
=============================================================================
