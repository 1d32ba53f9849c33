---------------------------- MODULE MCConnections ----------------------------
(***************************************************************************)
(* The components that make, lose and remake connections, in small         *)
(* instances checked in one run: a behaviour is one of a component, the    *)
(* subject, and the variables of the others stay as they are.  The two     *)
(* that use web sockets share WebSocket.                                   *)
(***************************************************************************)
EXTENDS ProductionSubsystem, WebSocketClient, TlsClient, TlsServer

CONSTANTS s1, s2, s3, f1, f2, p1, p2

ThreeSockets    == {s1, s2, s3}
UpdateOrOther   == {"oee_update", "other"}
TwoSockets      == {f1, f2}
TwoPeers        == {p1, p2}
OneReader       == {p1}

VARIABLE subject

subjectVars == <<wvars, ownVars, cvars, tlsClientVars, tlsServerVars, subject>>

MCInit ==
    /\ subject \in {"dashboard", "webSocketClient", "tlsClient", "tlsServer"}
    /\ ProductionInit /\ Init /\ TlsClientInit /\ TlsServerInit

MCNext ==
    /\ UNCHANGED subject
    /\ \/ /\ subject = "dashboard" /\ ProductionNext
          /\ UNCHANGED <<cvars, tlsClientVars, tlsServerVars>>
       \/ /\ subject = "webSocketClient" /\ Next
          /\ UNCHANGED <<ownVars, tlsClientVars, tlsServerVars>>
       \/ /\ subject = "tlsClient" /\ TlsClientNext
          /\ UNCHANGED <<wvars, ownVars, cvars, tlsServerVars>>
       \/ /\ subject = "tlsServer" /\ TlsServerNext
          /\ UNCHANGED <<wvars, ownVars, cvars, tlsClientVars>>

(* While it is not the subject a component can take none of the steps its  *)
(* fairness is about.                                                      *)
MCSpec ==
    /\ MCInit /\ [][MCNext]_subjectVars
    /\ ProductionFairness /\ Fairness /\ TlsClientFairness /\ TlsServerFairness
=============================================================================
