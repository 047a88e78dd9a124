---------------------------- MODULE MCBlockSync -----------------------------
(***************************************************************************)
(* BlockSync on blocks of up to three outputs in two transactions.         *)
(***************************************************************************)
EXTENDS BlockSync

CONSTANTS a, b, m

Outputs(txids, scripts) ==
  [n \in DOMAIN txids |-> [txid |-> txids[n], vout |-> n, script |-> scripts[n],
                           spent |-> n = 1]]

A0 == <<a, 0, None>>
A0m == <<a, 0, m>>
A1 == <<a, 1, None>>
B0 == <<b, 0, None>>

\* Every pair of outputs, of one transaction or of two ...
Pairs ==
  {Outputs(txids, scripts) : txids \in {<<a, a>>, <<a, b>>, <<b, a>>},
                             scripts \in {A0, A0m, A1, B0} \X {A0, A0m, A1, B0, Foreign}}

\* ... a labelled payment of two outputs around another one, and a script that is
\* paid twice in its own transaction and once in another.
Triples == {Outputs(<<a, b, a>>, <<A1, B0, A0m>>), Outputs(<<a, a, b>>, <<A0, A0, A0>>)}

\* Blocks of one output or none may spend it themselves.
MCBlocks ==
  [utxos : Pairs \cup Triples, tweaks : {{a}, {a, b}}, spends : {{OldKey}}]
  \cup [utxos : {<<>>} \cup {Outputs(<<a>>, <<s>>) : s \in {A0, A0m, A1, Foreign}},
        tweaks : {{}, {a}}, spends : {{}, {OldKey}, {OldKey, <<a, 1>>}}]
=============================================================================
