----------------------------- MODULE PacketRule -----------------------------
(***************************************************************************)
(* The four packet rules of ObjectDeliverer: how a message becomes bytes   *)
(* (MakeSendPacket), how many bytes a receiver must hold before it may     *)
(* hand some to the rule (GetWantSize), and what the rule keeps between    *)
(* two calls of NotifyReceiveData.  A rule r is a record of its settings.  *)
(*                                                                         *)
(* A byte is a number below ByteBase: 256 in the code, smaller in the      *)
(* model-checked instances so that a size header of two digits is reached  *)
(* by short bodies.                                                        *)
(***************************************************************************)
EXTENDS Integers, Sequences, FiniteSetsExt

CONSTANT ByteBase     \* number of values of one byte

ASSUME ByteAssumption == ByteBase \in Nat \ {0, 1}

Byte == 0 .. ByteBase - 1

(* The settings that matter for each kind: SizeLength and SizeBufferEndian *)
(* (bigEndian), Terminate (terminator), FixedSize.                         *)
Rule == [kind : {"SizeBody"}, sizeLength : 1 .. 4, bigEndian : BOOLEAN]
    \cup [kind : {"Terminate"}, terminator : Seq(Byte) \ {<<>>}]
    \cup [kind : {"FixedLength"}, fixedSize : Nat \ {0}]
    \cup [kind : {"Nodivision"}]

-----------------------------------------------------------------------------
(* The state a rule keeps between two NotifyReceiveData calls.             *)

RuleState == [mode : {"Size", "Body"}, bodySize : Nat, temp : Seq(Byte)]

Initialize == [mode |-> "Size", bodySize |-> 0, temp |-> <<>>]

-----------------------------------------------------------------------------
(* SizeBody: 1 << 8 * k in the code, for the digits a header may have.     *)

Power(k) ==
    <<1, ByteBase, ByteBase * ByteBase, ByteBase * ByteBase * ByteBase,
      ByteBase * ByteBase * ByteBase * ByteBase>>[k + 1]

(* The weight of the i-th header byte.                                     *)
Weight(r, i) == Power(IF r.bigEndian THEN r.sizeLength - i ELSE i - 1)

SizeHeader(r, n) == [i \in 1 .. r.sizeLength |-> (n \div Weight(r, i)) % ByteBase]

HeaderValue(r, h) ==
    LET value[i \in 1 .. r.sizeLength] ==
            (IF i = 1 THEN 0 ELSE value[i - 1]) + h[i] * Weight(r, i)
    IN  value[r.sizeLength]

-----------------------------------------------------------------------------
(* Sender: the bytes of the packet that carries body.                      *)

Terminated(r, body) == body \o r.terminator

Padded(r, body) == [i \in 1 .. r.fixedSize |-> IF i <= Len(body) THEN body[i] ELSE 0]

MakeSendPacket(r, body) ==
    CASE r.kind = "SizeBody"    -> SizeHeader(r, Len(body)) \o body
      [] r.kind = "Terminate"   -> Terminated(r, body)
      [] r.kind = "FixedLength" -> Padded(r, body)
      [] r.kind = "Nodivision"  -> body

-----------------------------------------------------------------------------
(* Receiver.  0 means "whatever is there".                                 *)

GetWantSize(r, rs) ==
    CASE r.kind = "SizeBody"    -> IF rs.mode = "Size" THEN r.sizeLength ELSE rs.bodySize
      [] r.kind = "FixedLength" -> r.fixedSize
      [] OTHER                  -> 0

OnReceivedSize(r, rs, data) ==
    [rs EXCEPT !.mode = "Body", !.bodySize = HeaderValue(r, data)]

(* Mutant: the rule stays in body mode. *)
OnReceivedBodyStays(rs) == [rs EXCEPT !.bodySize = 0]

OnReceivedBody(rs) == [rs EXCEPT !.mode = "Size", !.bodySize = 0]

(* Terminate: the positions in temp at which the terminator t starts.      *)
TerminatorAt(t, temp) ==
    {i \in 1 .. Len(temp) - Len(t) + 1 :
        \A j \in 1 .. Len(t) : temp[i + j - 1] = t[j]}

-----------------------------------------------------------------------------
(* What the rule promises to the receiver for a message, and the messages  *)
(* it promises it for: a body whose length the header can carry and is not *)
(* 0, a body in which the terminator does not appear before its own end.   *)

Delivered(r, body) ==
    IF r.kind = "FixedLength" THEN MakeSendPacket(r, body) ELSE body

Framable(r, body) ==
    CASE r.kind = "SizeBody"    -> Len(body) \in 1 .. Power(r.sizeLength) - 1
      [] r.kind = "Terminate"   -> Min(TerminatorAt(r.terminator, body \o r.terminator))
                                     = Len(body) + 1
      [] r.kind = "FixedLength" -> TRUE
      [] r.kind = "Nodivision"  -> FALSE
=============================================================================
