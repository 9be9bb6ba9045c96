----------------------------- MODULE DripLedger -----------------------------
(***************************************************************************)
(* What the faucet promises about the deposits table and the money it      *)
(* spends, with no process, no nonce and no node: a deposit is judged      *)
(* once, an address is granted at most one drip, a granted drip is         *)
(* executed at most once, and a deposit is closed only after that.         *)
(*                                                                         *)
(* book      the deposits in order of arrival                              *)
(* granted   for every address with a drip, the one deposit it is for:     *)
(*           a set of <<deposit, address>>                                 *)
(* executed  the deposits whose drip has been executed on the chain        *)
(***************************************************************************)
EXTENDS DataModel

CONSTANTS Addr, To

VARIABLES book, granted, executed

ledger == <<book, granted, executed>>

Beneficiary(i) == To[book[i].event]

LedgerInit == book = <<>> /\ granted = {} /\ executed = {}

(* Deposits arrive, unjudged or declined from the start; those in the book  *)
(* are as they were.                                                       *)
Record ==
  /\ book' \in Seq(Row)
  /\ Len(book') > Len(book)
  /\ SubSeq(book', 1, Len(book)) = book
  /\ \A i \in Len(book) + 1 .. Len(book') : book'[i] \in NewRow
  /\ UNCHANGED <<granted, executed>>

Decline(i) ==
  /\ book[i].status = "unprocessed"
  /\ book' = [book EXCEPT ![i].status = "ignore"]
  /\ UNCHANGED <<granted, executed>>

Grant(i) ==
  /\ book[i].status = "unprocessed"
  /\ \A g \in granted : g[1] # i /\ g[2] # Beneficiary(i)
  /\ book' = [book EXCEPT ![i].status = "processing"]
  /\ granted' = granted \cup {<<i, Beneficiary(i)>>}
  /\ UNCHANGED executed

Execute(i) ==
  /\ \E g \in granted : g[1] = i
  /\ i \notin executed
  /\ executed' = executed \cup {i}
  /\ UNCHANGED <<book, granted>>

Close(i) ==
  /\ book[i].status = "processing"
  /\ i \in executed
  /\ book' = [book EXCEPT ![i].status = "done"]
  /\ UNCHANGED <<granted, executed>>

LedgerNext ==
  \/ Record
  \/ \E i \in DOMAIN book : Decline(i) \/ Grant(i) \/ Execute(i) \/ Close(i)

LedgerSpec == LedgerInit /\ [][LedgerNext]_ledger
=============================================================================
