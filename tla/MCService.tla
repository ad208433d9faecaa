----------------------------- MODULE MCService -----------------------------
(* Small instances of Service for TLC. *)
EXTENDS Service, TLC

CONSTANTS k1, k2, k3, b1, b2, b3, p0, p2, p3, i1, i2, s1, s2

\* Payloads of no, two and three bytes.
MCBytes == [p \in Payloads |-> CASE p = p0 -> 0 [] p = p2 -> 2 [] p = p3 -> 3]

Symmetric == Permutations(Calls) \cup Permutations(Buffers)
  \cup Permutations(IDs) \cup Permutations(Secrets)
=============================================================================
