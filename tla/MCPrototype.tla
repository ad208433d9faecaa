---------------------------- MODULE MCPrototype ----------------------------
(* Small instances of Prototype for TLC. *)
EXTENDS Prototype

CONSTANTS p0, p2

\* Payloads of no and of two bytes.
MCBytes == [p \in Payloads |-> IF p = p0 THEN 0 ELSE 2]

\* An ID of one character and one that fills the buffer up to sixteen bytes of
\* padding; the secret of sixteen zeros and another.
MCText == [id \in IDs |-> [i \in 1 .. IF id = "a" THEN 1 ELSE IDBuffer - SecretSize |-> 97]]
MCSecretBytes == [s \in Secrets |-> [i \in 1 .. SecretSize |-> IF s = "zero" THEN 0 ELSE i]]
=============================================================================
