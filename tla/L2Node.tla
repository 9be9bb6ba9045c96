------------------------------- MODULE L2Node -------------------------------
(***************************************************************************)
(* The L2 node behind the RPC endpoint, as far as the faucet can tell.     *)
(* This is code outside the repository: it is modelled from the calls      *)
(* faucet.go makes (NonceAt, BalanceAt, CodeAt, SendTransaction,           *)
(* TransactionReceipt) and from what the program assumes of them.          *)
(*                                                                         *)
(* pool         transactions of the faucet wallet waiting to be mined      *)
(* mined        transactions of the faucet wallet that have a receipt      *)
(* paid         those of them that did not revert                          *)
(* walletNonce  the wallet's nonce at the latest block                     *)
(* account      what can be seen of an account: a positive balance, code,  *)
(*              a positive nonce.  A fresh account shows nothing.          *)
(*                                                                         *)
(* Blocks are final (the L2 sequencer does not reorganise its chain) and   *)
(* the wallet signs nothing but drips.                                     *)
(***************************************************************************)
EXTENDS Naturals

CONSTANT Addr

VARIABLES pool, mined, paid, walletNonce, account

nodeVars == <<pool, mined, paid, walletNonce, account>>

Marks == {"balance", "code", "nonce"}

Fresh(a) == account[a] = {}

NodeInit ==
  /\ pool = {} /\ mined = {} /\ paid = {}
  /\ walletNonce = 0
  /\ account = [a \in Addr |-> {}]

-----------------------------------------------------------------------------
(* SendTransaction.  The node refuses a nonce that is already used and, at  *)
(* its choice (the gas price decides), a replacement of a waiting           *)
(* transaction with the same nonce.                                        *)
Accept(t) ==
  /\ t.nonce >= walletNonce
  /\ pool' = {u \in pool : u.nonce # t.nonce} \cup {t}
  /\ UNCHANGED <<mined, paid, walletNonce, account>>

(* The next transaction of the wallet is executed.  The transfer can only   *)
(* revert when the recipient has become a contract.                        *)
Mine(t) ==
  /\ t \in pool
  /\ t.nonce = walletNonce
  /\ pool' = pool \ {t}
  /\ mined' = mined \cup {t}
  /\ walletNonce' = walletNonce + 1
  /\ \/ /\ paid' = paid \cup {t}
        /\ account' = [account EXCEPT ![t.to] = @ \cup {"balance"}]
     \/ /\ "code" \in account[t.to]
        /\ UNCHANGED <<paid, account>>

(* A node forgets a waiting transaction: eviction, or its own restart.      *)
Evict(t) ==
  /\ t \in pool
  /\ pool' = pool \ {t}
  /\ UNCHANGED <<mined, paid, walletNonce, account>>

(* What the rest of the world does to an account: it receives METIS, it     *)
(* spends some or all of it, it turns out to be a contract.                *)
ReceiveFunds(a) == account' = [account EXCEPT ![a] = @ \cup {"balance"}]

SpendFunds(a) ==
  /\ "balance" \in account[a]
  /\ \/ account' = [account EXCEPT ![a] = @ \cup {"nonce"}]
     \/ account' = [account EXCEPT ![a] = (@ \cup {"nonce"}) \ {"balance"}]

DeployCode(a) == account' = [account EXCEPT ![a] = @ \cup {"code"}]

OutsideActivity(a) ==
  /\ ReceiveFunds(a) \/ SpendFunds(a) \/ DeployCode(a)
  /\ UNCHANGED <<pool, mined, paid, walletNonce>>
=============================================================================
