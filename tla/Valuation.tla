------------------------------ MODULE Valuation ------------------------------
(***************************************************************************)
(* Is a deposit worth a drip, and how much is a drip?                      *)
(*                                                                         *)
(* The first half of shouldTransfer (internal/services/faucet.go) with     *)
(* what it calls: GetTokenPrice (internal/utils/uniswap.go) over the       *)
(* GraphQL client (internal/graphql), Decimals of the token's contract,    *)
(* and Readable (internal/utils/bigint).  Prices are whole USD, and the    *)
(* rounding of float64 is left out.                                        *)
(*                                                                         *)
(* The way of the flag -drip into the transaction: main, ToWei             *)
(* (internal/utils/ether.go), Initial.  Amounts of METIS are counted in    *)
(* hundredths of a micro; ToWei keeps whole micros.                        *)
(***************************************************************************)
EXTENDS Integers

CONSTANTS
  Bits,       \* the width of an int64, 64 in the code
  Amounts,    \* the deposited amounts, in the token's smallest unit
  Decimal,    \* what `decimals` of the token's contract may answer
  Prices,     \* the numbers the price service may quote
  MinUSD,     \* flag -minusd
  Flags,      \* flag -drip, in hundredths of a micro, or NoNumber
  NoNumber,   \* a flag that parses as a float64 and is NaN or +Inf
  Default     \* 0.01 METIS, the same

ASSUME ValuationAssumption ==
  /\ Bits \in Nat \ {0} /\ MinUSD \in Nat
  /\ Amounts \subseteq Nat /\ Decimal \subseteq Nat /\ Prices \subseteq Nat
  /\ Default \in Nat \ {0} /\ Default % 100 = 0
  /\ NoNumber \notin Int /\ Flags \subseteq Nat \cup {NoNumber}
  /\ \A f \in Flags \ {NoNumber} : f % 100 # 50   \* no ties

(* What the proofs need to know of `^`, true of all natural numbers.         *)
ASSUME PowersAssumption ==
  /\ 2^(Bits - 1) \in Nat \ {0} /\ 2^Bits = 2 * 2^(Bits - 1)
  /\ \A d \in Decimal : 10^d \in Nat

VARIABLES
  deposit,   \* the deposit: its token's kind and its amount
  reply,     \* what the price service answers
  step,      \* the call about to be made, or the verdict
  rate,      \* the price of a whole token
  decimal,   \* decimals of the token
  flag,      \* the flag -drip
  drip       \* Faucet.DripAmount

vars == <<deposit, reply, step, rate, decimal, flag, drip>>

Tokens == {"stable", "ether", "other"}

(* A JSON member: absent, null, there but not a number, or a number.        *)
Quote == {<<"none">>, <<"junk">>} \cup {<<"quote", p>> : p \in Prices}

Reply == [arrives : BOOLEAN, errors : {"absent", "null", "some"},
          data : {"absent", "null", "object"}, bundle : Quote, token : Quote]

Verdicts == {"worth", "small", "error"}

Init ==
  /\ deposit \in [token : Tokens, amount : Amounts]
  /\ reply \in Reply
  /\ flag \in Flags
  /\ step = "start" /\ rate = 0 /\ decimal = 0 /\ drip = 0

-----------------------------------------------------------------------------
(* ToWei prints six decimals: whole micros are kept, rounded to the nearest.*)
(* What prints as no number is no big.Int either, and becomes zero.         *)
ToWei(amount) ==
  IF amount = NoNumber THEN 0 ELSE 100 * ((amount + 50) \div 100)

(* main replaces an amount that is not positive by the default; NaN and     *)
(* +Inf pass its test.                                                      *)
Asked(amount) == IF amount # NoNumber /\ amount <= 0 THEN Default ELSE amount

(* Variant with a bug: Initial takes any amount.                            *)
DripAmountUnchecked(amount) == ToWei(Asked(amount))

(* Initial takes the default for less than a wei.                           *)
DripAmount(amount) ==
  LET wei == ToWei(Asked(amount)) IN IF wei < 1 THEN Default ELSE wei

Start ==
  /\ step = "start"
  /\ drip' = DripAmount(flag)
  /\ step' = "rate"
  /\ UNCHANGED <<deposit, reply, rate, decimal, flag>>

Decide(verdict) ==
  step' = verdict /\ UNCHANGED <<deposit, reply, rate, decimal, flag, drip>>

(* CallContext returns a result when the reply is decoded, its errors are   *)
(* absent (null is an error too: a RawMessage keeps it) and its data is     *)
(* there; null data leaves the result empty.                                *)
CallContext == reply.arrives /\ reply.errors = "absent" /\ reply.data # "absent"

Bundle == IF reply.data = "object" THEN reply.bundle ELSE <<"none">>

Token == IF reply.data = "object" THEN reply.token ELSE <<"none">>

(* Variant with a bug: a token that is not listed is taken to be worth what *)
(* ether is.                                                                *)
GetTokenPriceOfAny ==
  IF ~CallContext \/ Bundle[1] # "quote" THEN {}
  ELSE IF deposit.token = "ether" \/ Token[1] # "quote" THEN {Bundle[2]}
  ELSE {Token[2] * Bundle[2]}

(* GetTokenPrice: one price, or none and an error.                          *)
GetTokenPrice ==
  IF ~CallContext \/ Bundle[1] # "quote" THEN {}
  ELSE IF deposit.token = "ether" THEN {Bundle[2]}
  ELSE IF Token[1] # "quote" THEN {}
  ELSE {Token[2] * Bundle[2]}

Rate == IF deposit.token = "stable" THEN {1} ELSE GetTokenPrice

AskRate ==
  /\ step = "rate"
  /\ rate' \in Rate
  /\ step' = "decimals"
  /\ UNCHANGED <<deposit, reply, decimal, flag, drip>>

RateFails == step = "rate" /\ Rate = {} /\ Decide("error")

AskDecimals ==
  /\ step = "decimals"
  /\ decimal' \in Decimal
  /\ step' = "compare"
  /\ UNCHANGED <<deposit, reply, rate, flag, drip>>

DecimalsFail == step = "decimals" /\ Decide("error")

(* big.Int.Int64 of a number that does not fit: its low bits, signed.       *)
Int64(n) ==
  LET low == n % 2^Bits
  IN  IF low < 2^(Bits - 1) THEN low ELSE low - 2^Bits

(* Readable: the amount in whole tokens is Units / 10^decimal.              *)
Units == IF decimal = 0 THEN Int64(deposit.amount) ELSE deposit.amount

Compare ==
  /\ step = "compare"
  /\ Decide(IF rate * Units < MinUSD * 10^decimal THEN "small" ELSE "worth")

Next ==
  \/ Start \/ AskRate \/ RateFails \/ AskDecimals \/ DecimalsFail \/ Compare
  \/ step \in Verdicts /\ UNCHANGED vars

Spec == Init /\ [][Next]_vars

-----------------------------------------------------------------------------
(* Properties.                                                              *)

QuotedIn(quote) == {p \in Prices : quote = <<"quote", p>>}

(* What a whole token is worth, as far as the reply tells.                  *)
TruePrice ==
  CASE deposit.token = "stable" -> {1}
    [] deposit.token = "ether"  -> QuotedIn(reply.bundle)
    [] deposit.token = "other"  ->
         {e * t : e \in QuotedIn(reply.bundle), t \in QuotedIn(reply.token)}

(* A verdict is only given on a complete price, and it is the right one:    *)
(* whatever is missing from the reply ends in an error, never in a price of *)
(* zero or of something else.  Only an amount of a token without decimals   *)
(* that does not fit an int64 is misread.                                   *)
VerdictIsRight ==
  step \in {"small", "worth"} =>
    \E price \in TruePrice :
      decimal > 0 \/ deposit.amount < 2^(Bits - 1) =>
        (step = "worth" <=> price * deposit.amount >= MinUSD * 10^decimal)

(* A drip always pays something, whatever the flag is, and no more than     *)
(* half a micro beside what was asked for, unless that is no number,        *)
(* nothing or less than half a micro.                                       *)
DripIsAsked ==
  step # "start" =>
    /\ drip > 0
    /\ flag # NoNumber /\ flag > 50 => drip - flag \in -50..50
=============================================================================
