------------------------------- MODULE MCEvme -------------------------------
EXTENDS Evme

MCPlain == [tx_type |-> 0, nonce |-> 0, value |-> 1, create |-> FALSE, receiver |-> TRUE,
            source_hash |-> FALSE, mint |-> FALSE, priority_fee |-> FALSE, auth |-> FALSE, access |-> FALSE, raw |-> FALSE]

MCTransactions == {
    MCPlain,
    [MCPlain EXCEPT !.nonce = 1, !.tx_type = 1, !.access = TRUE],
    [MCPlain EXCEPT !.create = TRUE, !.receiver = FALSE],
    [MCPlain EXCEPT !.tx_type = 126, !.source_hash = TRUE, !.mint = TRUE],
    [MCPlain EXCEPT !.create = TRUE, !.raw = TRUE],
    [MCPlain EXCEPT !.create = TRUE]}

MCNoOptions == [balance |-> <<>>, storage |-> <<>>, sender_balance |-> <<>>, faucet |-> <<>>]

\* The sender is named by three options, and the receiver and a slot twice.
MCOptions ==
    [balance        |-> <<[address |-> "sender", value |-> 1], [address |-> "receiver", value |-> 2]>>,
     storage        |-> <<[address |-> "receiver", slot |-> 1, value |-> 0], [address |-> "receiver", slot |-> 1, value |-> 1]>>,
     sender_balance |-> <<[address |-> "sender", value |-> 2]>>,
     faucet         |-> <<[address |-> "sender", value |-> 1], [address |-> "created", value |-> 1]>>]

MCInvocations ==
    [cmd : {"run", "tx"}, tx : MCTransactions, code : {"code"}, spec : {MINI_REX, REX4},
     prestate : BOOLEAN, fork : BOOLEAN, opts : {MCNoOptions, MCOptions}, dump : {TRUE}]
    \cup [cmd : {"tx"}, tx : {MCPlain}, code : {""}, spec : {EQUIVALENCE}, prestate : {TRUE},
          fork : {FALSE}, opts : {MCNoOptions}, dump : {FALSE}]

MCHand == [balance |-> 2, nonce |-> 1, code |-> "", code_hash |-> "absent", storage |-> <<>>]

MCFiles == {<<>>, ("sender" :> MCHand) @@
                  ("receiver" :> [MCHand EXCEPT !.code = "code", !.code_hash = "code", !.storage = (1 :> 1)])}

MCRemote ==
    [a \in Addresses |->
        CASE a = "sender" -> [default_account EXCEPT !.balance = 1]
          [] a = "oracle" -> [default_account EXCEPT !.nonce = 1, !.code = "oracle v1.0.0", !.code_hash = "oracle v1.0.0",
                                                     !.storage = (1 :> EvmStorageSlot(1))]
          [] OTHER -> default_account]

MCAllocs == {[a \in {"a", "b"} |-> [nonce |-> 0, balance |-> 1, code |-> IF a = "b" THEN "counter" ELSE "", slot |-> 0]]}

MCTx == [from |-> "a", to |-> "b", nonce |-> 0, value |-> 1, envelope |-> TRUE, secret_key |-> TRUE]

MCTxLists == {
    <<MCTx, [MCTx EXCEPT !.nonce = 1, !.value = 0]>>,
    <<MCTx, [MCTx EXCEPT !.secret_key = FALSE], [MCTx EXCEPT !.from = "b", !.to = "a"]>>,
    <<[MCTx EXCEPT !.nonce = 1], [MCTx EXCEPT !.from = "b", !.to = "b"]>>,
    <<MCTx, [MCTx EXCEPT !.envelope = FALSE]>>}
=============================================================================
