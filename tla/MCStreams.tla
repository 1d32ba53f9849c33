------------------------------ MODULE MCStreams ------------------------------
(***************************************************************************)
(* The components that carry data, in small instances checked in one run:  *)
(* a behaviour is one of a component, the subject, and the variables of    *)
(* the others stay as they are.                                            *)
(***************************************************************************)
EXTENDS MCPacketStream, LogReplay, TlsConnection

CONSTANTS a, b

TwoEnds   == {a, b}
OneSpeaks == {{a}}

VARIABLE subject

subjectVars == <<streamVars, logVars, connectionVars, subject>>

MCInit ==
    /\ subject \in {"stream", "log", "connection"}
    /\ StreamInit /\ (subject = "stream" \/ setup = Setup(CrLf, TRUE, LineBodies))
    /\ IF subject = "log" THEN LogInit
       ELSE NothingLogged /\ cutFirst /\ clock = 3 * MaxLogTime
    /\ IF subject = "connection" THEN ConnectionInit
       ELSE Connected /\ worker = [e \in Ends |-> "exited"]

MCNext ==
    /\ UNCHANGED subject
    /\ \/ /\ subject = "stream" /\ StreamNext
          /\ UNCHANGED <<logVars, connectionVars>>
       \/ /\ subject = "log" /\ LogNext
          /\ UNCHANGED <<streamVars, connectionVars>>
       \/ /\ subject = "connection" /\ ConnectionNext
          /\ UNCHANGED <<streamVars, logVars>>

(* ODGrowBuffer is the sequence of its content, as the receive loop takes  *)
(* it to be: for small packets and contents, and an array that still holds *)
(* what was taken off before.                                              *)
GrowBuffer == INSTANCE GrowBuffer

SmallContents == UNION {[1 .. n -> 1 .. 2] : n \in 0 .. 3}

Held(content, packetSize, before) ==
    LET new  == GrowBuffer!Add(GrowBuffer!NewBuffer(1), packetSize, before \o content)
    IN  GrowBuffer!RemoveRangeFromStart(new, 0, Len(before))

ASSUME GrowBufferIsItsContent ==
    \A packetSize \in 1 .. 3, s, t, before \in SmallContents :
        LET buffer == Held(s, packetSize, before)
        IN  /\ GrowBuffer!Content(buffer) = s
            /\ GrowBuffer!Content(GrowBuffer!Add(buffer, packetSize, t)) = s \o t
            /\ \A n \in 0 .. Len(s) :
                  /\ GrowBuffer!Content(GrowBuffer!SetLength(buffer, packetSize, n)) = SubSeq(s, 1, n)
                  /\ GrowBuffer!Content(GrowBuffer!CopyFrom(buffer, packetSize, t, n))
                        = SubSeq(s, 1, n) \o t \o SubSeq(s, n + Len(t) + 1, Len(s))
            /\ GrowBuffer!Content(GrowBuffer!Clear(buffer)) = <<>>

(* While it is not the subject a component can take none of the steps its  *)
(* fairness is about.                                                      *)
MCSpec ==
    /\ MCInit /\ [][MCNext]_subjectVars
    /\ StreamFairness /\ LogFairness /\ ConnectionFairness
=============================================================================
