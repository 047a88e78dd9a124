------------------------------ MODULE MCKeyReset ----------------------------
(***************************************************************************)
(* KeyReset with the keys of the start, those of a request r1, and those   *)
(* of a second one r2, for the second daemon or after r1 has failed.       *)
(***************************************************************************)
EXTENDS KeyReset

CONSTANTS r1, r2

(* What follows bounds the run with birth height 1 and two blocks to scan.  *)

Paid(k) == {h \in Height \ {1} : <<k, h>> \in pays}

\* Block 1 pays everybody: no loop looks for anybody's coin in it.  The other blocks pay
\* the keys of the start, and any of them those of r1.  A start that finds an empty file
\* is left out: it is like one that finds a torn file.
RetryInit ==
  /\ Init
  /\ \A k \in Reqs \cup ({current} \ {None}) : <<k, 1>> \in pays
  /\ text # "empty"
  /\ current = Boot => Paid(Boot) = Height \ {1}
  /\ \/ Paid(r2) = {}
     \/ config = KeysOf(None) /\ Paid(r1) = {} /\ Paid(r2) = Height \ {1}

\* r2 comes after r1 has failed, as long as the scanner has no wallet.
Retry ==
  put[r2] = "new" /\ put'[r2] # "new" =>
    put[r1] = "failed" /\ current = None /\ Paid(r2) # {}

RetrySpec == RetryInit /\ [][Next /\ Retry]_vars

\* A start without keys and without a wallet file, for the second daemon.
FreshSpec == Init /\ config = KeysOf(None) /\ [][Next]_vars
=============================================================================
