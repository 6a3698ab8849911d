------------------------ MODULE MCExchangeSubmission ------------------------
(* Two Kraken ids, one with an auditor, and a Coinbase id by itself.        *)
EXTENDS ExchangeSubmission, TLC

CONSTANTS k1, k2, c1, auditor

\* Nothing tells one payload from another.
PayloadSymmetry == Permutations(Payloads)

MCWorkloads == {{k1, k2}, {k1, auditor}, {c1}}
=============================================================================
