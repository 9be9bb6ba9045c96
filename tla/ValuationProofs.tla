--------------------------- MODULE ValuationProofs ---------------------------
(***************************************************************************)
(* Theorems about the judgement of a deposit and the amount of a drip, for *)
(* every width of the integers, amount, price, threshold and flag.         *)
(***************************************************************************)
EXTENDS Valuation, TLAPS

Steps == {"start", "rate", "decimals", "compare"} \cup Verdicts

TypeInv ==
  /\ deposit \in [token : Tokens, amount : Amounts]
  /\ reply \in Reply
  /\ flag \in Flags
  /\ step \in Steps
  /\ decimal \in Nat
  /\ step \in {"compare", "small", "worth"} => decimal \in Decimal

(* A price that was taken is the true one, and once it is compared so is    *)
(* the outcome.                                                             *)
RateIsTrue == step \in {"decimals", "compare", "small", "worth"} => rate \in TruePrice

DripIsSet == step # "start" => drip = DripAmount(flag)

JudgeInv == TypeInv /\ RateIsTrue /\ VerdictIsRight

-----------------------------------------------------------------------------
LEMMA TruePriceType ==
  ASSUME TypeInv
  PROVE  TruePrice \subseteq Nat
<1>1. QuotedIn(reply.bundle) \subseteq Nat /\ QuotedIn(reply.token) \subseteq Nat
  BY ValuationAssumption DEF QuotedIn
<1>2. \A e \in QuotedIn(reply.bundle), t \in QuotedIn(reply.token) : e * t \in Nat
  BY <1>1
<1>3. deposit.token \in Tokens
  BY DEF TypeInv
<1>4. QED
  BY <1>1, <1>2, <1>3 DEF TruePrice, Tokens

(* A member of the reply that is a number was quoted by a whole reply.      *)
LEMMA QuoteIsNumber ==
  ASSUME NEW q \in Quote, q[1] = "quote"
  PROVE  q[2] \in QuotedIn(q)
<1>1. PICK p \in Prices : q = <<"quote", p>>
  BY DEF Quote
<1>2. QED
  BY <1>1 DEF QuotedIn

LEMMA BundleIsQuoted ==
  ASSUME TypeInv, Bundle[1] = "quote"
  PROVE  Bundle[2] \in QuotedIn(reply.bundle)
<1>1. reply.bundle \in Quote
  BY DEF TypeInv, Reply
<1>2. Bundle = reply.bundle
  BY DEF Bundle
<1>3. QED
  BY <1>1, <1>2, QuoteIsNumber

LEMMA TokenIsQuoted ==
  ASSUME TypeInv, Token[1] = "quote"
  PROVE  Token[2] \in QuotedIn(reply.token)
<1>1. reply.token \in Quote
  BY DEF TypeInv, Reply
<1>2. Token = reply.token
  BY DEF Token
<1>3. QED
  BY <1>1, <1>2, QuoteIsNumber

(* What GetTokenPrice returns is what the token is worth: a reply without   *)
(* one of the two numbers gives no price at all.                           *)
LEMMA RateIsTruePrice ==
  ASSUME TypeInv
  PROVE  Rate \subseteq TruePrice
<1>1. CASE deposit.token = "stable"
  BY <1>1 DEF Rate, TruePrice
<1>2. CASE deposit.token = "ether"
  <2>1. CASE Bundle[1] = "quote"
    BY <1>2, <2>1, BundleIsQuoted DEF Rate, GetTokenPrice, TruePrice
  <2>2. CASE Bundle[1] # "quote"
    BY <1>2, <2>2 DEF Rate, GetTokenPrice
  <2>3. QED
    BY <2>1, <2>2
<1>3. CASE deposit.token = "other"
  <2>1. CASE Bundle[1] = "quote" /\ Token[1] = "quote"
    <3>1. /\ Bundle[2] \in QuotedIn(reply.bundle)
          /\ Token[2] \in QuotedIn(reply.token)
      BY <2>1, BundleIsQuoted, TokenIsQuoted
    <3>2. Bundle[2] \in Nat /\ Token[2] \in Nat
      BY <3>1, ValuationAssumption DEF QuotedIn
    <3>3. Token[2] * Bundle[2] = Bundle[2] * Token[2]
      BY <3>2
    <3>4. Bundle[2] * Token[2] \in TruePrice
      BY <1>3, <3>1 DEF TruePrice
    <3>5. Rate \subseteq {Token[2] * Bundle[2]}
      BY <1>3 DEF Rate, GetTokenPrice
    <3>6. QED
      BY <3>3, <3>4, <3>5
  <2>2. CASE ~(Bundle[1] = "quote" /\ Token[1] = "quote")
    BY <1>3, <2>2 DEF Rate, GetTokenPrice
  <2>3. QED
    BY <2>1, <2>2
<1>4. QED
  BY <1>1, <1>2, <1>3 DEF TypeInv, Tokens

(* Int64 keeps a number that fits.                                          *)
LEMMA Int64Fits ==
  ASSUME NEW n \in Nat, n < 2^(Bits - 1)
  PROVE  Int64(n) = n
<1>1. 2^(Bits - 1) \in Nat /\ 2^Bits \in Nat /\ 2^(Bits - 1) < 2^Bits
  BY PowersAssumption
<1>2. n % 2^Bits = n
  BY <1>1
<1>3. QED
  BY <1>2 DEF Int64

-----------------------------------------------------------------------------
LEMMA TypeInvInductive == TypeInv /\ [Next]_vars => TypeInv'
<1> SUFFICES ASSUME TypeInv, [Next]_vars PROVE TypeInv'
  OBVIOUS
<1> USE DEF TypeInv, Steps, Verdicts
<1>1. CASE Start
  BY <1>1 DEF Start
<1>2. CASE AskRate
  BY <1>2 DEF AskRate
<1>3. CASE RateFails
  BY <1>3 DEF RateFails, Decide
<1>4. CASE AskDecimals
  BY <1>4, ValuationAssumption DEF AskDecimals
<1>5. CASE DecimalsFail
  BY <1>5 DEF DecimalsFail, Decide
<1>6. CASE Compare
  BY <1>6 DEF Compare, Decide
<1>7. CASE UNCHANGED vars
  BY <1>7 DEF vars
<1>8. QED
  BY <1>1, <1>2, <1>3, <1>4, <1>5, <1>6, <1>7 DEF Next

LEMMA TruePriceStays ==
  ASSUME deposit' = deposit, reply' = reply
  PROVE  TruePrice' = TruePrice
BY DEF TruePrice, QuotedIn

(* The price stays the true one: neither the reply nor the deposit changes. *)
LEMMA RateStaysTrue ==
  ASSUME TypeInv, RateIsTrue, [Next]_vars
  PROVE  RateIsTrue'
<1>1. CASE AskRate
  <2>1. rate' \in TruePrice
    BY <1>1, RateIsTruePrice DEF AskRate
  <2>2. TruePrice' = TruePrice
    BY <1>1, TruePriceStays DEF AskRate
  <2>3. QED
    BY <2>1, <2>2 DEF RateIsTrue
<1>2. CASE AskDecimals \/ Compare \/ UNCHANGED vars
  <2>1. rate' = rate /\ TruePrice' = TruePrice
    BY <1>2, TruePriceStays DEF AskDecimals, Compare, Decide, vars
  <2>2. step \in {"decimals", "compare", "small", "worth"} \/ step' = step
    BY <1>2 DEF AskDecimals, Compare, vars
  <2>3. QED
    BY <2>1, <2>2 DEF RateIsTrue
<1>3. CASE Start \/ RateFails \/ DecimalsFail
  BY <1>3 DEF Start, RateFails, DecimalsFail, Decide, RateIsTrue
<1>4. QED
  BY <1>1, <1>2, <1>3 DEF Next

(* The comparison: on the true price, with the amount as it is unless it    *)
(* was squeezed into an int64.                                             *)
LEMMA CompareIsRight ==
  ASSUME TypeInv, RateIsTrue, Compare
  PROVE  VerdictIsRight'
<1>1. /\ rate \in TruePrice /\ rate \in Nat
      /\ deposit.amount \in Nat
      /\ MinUSD * 10^decimal \in Nat
  <2>1. step = "compare" /\ decimal \in Decimal
    BY DEF Compare, TypeInv
  <2>2. rate \in TruePrice /\ rate \in Nat
    BY <2>1, TruePriceType DEF RateIsTrue
  <2>3. 10^decimal \in Nat /\ MinUSD \in Nat
    BY <2>1, PowersAssumption, ValuationAssumption
  <2>4. deposit.amount \in Nat
    BY ValuationAssumption DEF TypeInv
  <2>5. QED
    BY <2>2, <2>3, <2>4
<1>2. /\ TruePrice' = TruePrice
      /\ decimal' = decimal /\ deposit' = deposit /\ decimal \in Nat
      /\ step' = IF rate * Units < MinUSD * 10^decimal THEN "small" ELSE "worth"
  BY TruePriceStays DEF Compare, Decide, TypeInv
<1>3. ASSUME decimal > 0 \/ deposit.amount < 2^(Bits - 1)
      PROVE  Units = deposit.amount
  <2>1. CASE decimal = 0
    BY <1>1, <1>3, <2>1, Int64Fits DEF Units
  <2>2. CASE decimal # 0
    BY <2>2 DEF Units
  <2>3. QED
    BY <2>1, <2>2
<1>4. ASSUME decimal > 0 \/ deposit.amount < 2^(Bits - 1)
      PROVE  step' = "worth" <=> rate * deposit.amount >= MinUSD * 10^decimal
  <2>1. step' = IF rate * deposit.amount < MinUSD * 10^decimal
                THEN "small" ELSE "worth"
    BY <1>2, <1>3, <1>4
  <2>2. rate * deposit.amount \in Nat
    BY <1>1
  <2>3. QED
    BY <1>1, <2>1, <2>2
<1>5. QED
  BY <1>1, <1>2, <1>4 DEF VerdictIsRight

LEMMA JudgeInvInductive == JudgeInv /\ [Next]_vars => JudgeInv'
<1> SUFFICES ASSUME JudgeInv, [Next]_vars PROVE JudgeInv'
  OBVIOUS
<1> USE DEF JudgeInv
<1>1. TypeInv' /\ RateIsTrue'
  BY TypeInvInductive, RateStaysTrue
<1>2. VerdictIsRight'
  <2>1. CASE Compare
    BY <2>1, CompareIsRight
  <2>2. CASE Start \/ AskRate \/ RateFails \/ AskDecimals \/ DecimalsFail
    BY <2>2 DEF Start, AskRate, RateFails, AskDecimals, DecimalsFail, Decide,
                VerdictIsRight
  <2>3. CASE UNCHANGED vars
    <3>1. /\ TruePrice' = TruePrice
          /\ deposit' = deposit /\ step' = step /\ decimal' = decimal
      BY <2>3, TruePriceStays DEF vars
    <3>2. QED
      BY <3>1 DEF VerdictIsRight
  <2>4. QED
    BY <2>1, <2>2, <2>3 DEF Next
<1>3. QED
  BY <1>1, <1>2

(* A price is only taken from a complete reply, and the verdict on it is    *)
(* the right one, whatever the service answers (shouldTransfer with         *)
(* GetTokenPrice, Decimals and Readable).                                  *)
THEOREM VerdictRight == Spec => []VerdictIsRight
<1>1. Init => JudgeInv
  BY DEF Init, JudgeInv, TypeInv, Steps, RateIsTrue, VerdictIsRight
<1>2. JudgeInv => VerdictIsRight
  BY DEF JudgeInv
<1>3. QED
  BY <1>1, <1>2, JudgeInvInductive, PTL DEF Spec

-----------------------------------------------------------------------------
(* ToWei is off by half a micro at most.                                    *)
LEMMA ToWeiNear ==
  ASSUME NEW a \in Nat
  PROVE  /\ ToWei(a) \in Nat
         /\ ToWei(a) - a \in -50..50
         /\ a > 50 => ToWei(a) > 0
<1>1. a # NoNumber
  BY ValuationAssumption
<1>2. ToWei(a) = 100 * ((a + 50) \div 100)
  BY <1>1 DEF ToWei
<1>3. QED
  BY <1>2

LEMMA DefaultIsKept == ToWei(Default) = Default
<1>1. Default \in Nat /\ Default % 100 = 0 /\ Default # NoNumber
  BY ValuationAssumption
<1>2. QED
  BY <1>1 DEF ToWei

(* What is no number, and what is nothing, both end in the default, by way  *)
(* of Initial and of main.                                                  *)
LEMMA DefaultIsTaken ==
  ASSUME NEW a \in {NoNumber, 0}
  PROVE  DripAmount(a) = Default
<1>1. Default \in Nat \ {0} /\ NoNumber # 0
  BY ValuationAssumption
<1>2. CASE a = NoNumber
  BY <1>2 DEF DripAmount, Asked, ToWei
<1>3. CASE a = 0
  BY <1>1, <1>3, DefaultIsKept DEF DripAmount, Asked
<1>4. QED
  BY <1>2, <1>3

LEMMA DripAmountNear ==
  ASSUME NEW a \in Nat \cup {NoNumber}
  PROVE  /\ DripAmount(a) \in Nat \ {0}
         /\ a # NoNumber /\ a > 50 => DripAmount(a) - a \in -50..50
<1>1. Default \in Nat \ {0} /\ NoNumber \notin Int
  BY ValuationAssumption
<1>2. CASE a \in {NoNumber, 0}
  BY <1>1, <1>2, DefaultIsTaken
<1>3. CASE a \in Nat /\ a > 0
  <2>1. Asked(a) = a
    BY <1>1, <1>3 DEF Asked
  <2>2. DripAmount(a) = IF ToWei(a) < 1 THEN Default ELSE ToWei(a)
    BY <2>1 DEF DripAmount
  <2>3. QED
    BY <1>1, <1>3, <2>2, ToWeiNear
<1>4. QED
  BY <1>2, <1>3

(* The amount of a drip is the flag's to the micro, and never nothing (the  *)
(* two defaults of main and Initial, the printing of ToWei).               *)
THEOREM DripAsAsked == Spec => []DripIsAsked
<1> DEFINE DripInv == flag \in Flags /\ DripIsSet
<1>1. Init => DripInv
  BY DEF Init, DripIsSet
<1>2. DripInv /\ [Next]_vars => DripInv'
  <2> SUFFICES ASSUME DripInv, [Next]_vars PROVE DripInv'
    OBVIOUS
  <2>1. CASE Start
    BY <2>1 DEF Start, DripIsSet
  <2>2. CASE AskRate \/ RateFails \/ AskDecimals \/ DecimalsFail \/ Compare
             \/ UNCHANGED vars
    <3>1. step # "start" \/ step' = step
      BY <2>2 DEF AskRate, RateFails, AskDecimals, DecimalsFail, Compare, vars
    <3>2. drip' = drip /\ flag' = flag
      BY <2>2 DEF AskRate, RateFails, AskDecimals, DecimalsFail, Compare,
                  Decide, vars
    <3>3. QED
      BY <3>1, <3>2 DEF DripIsSet
  <2>3. QED
    BY <2>1, <2>2 DEF Next
<1>3. DripInv => DripIsAsked
  <2> SUFFICES ASSUME DripInv, step # "start" PROVE DripIsAsked
    BY DEF DripIsAsked
  <2>1. flag \in Nat \cup {NoNumber} /\ drip = DripAmount(flag)
    BY ValuationAssumption DEF DripIsSet
  <2>2. QED
    BY <2>1, DripAmountNear DEF DripIsAsked
<1>4. QED
  BY <1>1, <1>2, <1>3, PTL DEF Spec
=============================================================================
