----------------------------- MODULE MCReviewTx -----------------------------
(* ReviewTx on a small instance for TLC. *)
EXTENDS ReviewTx

CONSTANTS
  alice, root,       \* root is the only one that may act as an admin
  first              \* the certificate that is entered by hand

\* Bound: requests are about one token, entered by alice; the other row is its
\* replacement, or a second token by hand, which leaves no id for a replacement
\* and is of interest only to renewals.
OnFirst ==
  LET taken == \E c \in CertIds \ {first} : L!CertExists(c) /\ certs[c].renewed_from = NoId
  IN /\ \A c \in CertIds : L!CertExists(c) => certs[c].kind = "token"
     /\ L!CertExists(first) => trail[first][1].actor = alice
     /\ taken => L!CertExists(first) /\ \A d \in DeletionIds : ~Exists(d)
     /\ \A t \in Txs : tx[t] # Idle =>
          /\ tx[t].row \notin CertIds \ {first}
          /\ taken => tx[t].op \in {"create_renewal", "approve_renewal"}
=============================================================================
