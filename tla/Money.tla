------------------------------- MODULE Money -------------------------------
(***************************************************************************)
(* Amounts in the browser: what a user types becomes minor units, and      *)
(* minor units become text again; and the form of the wallet page, whose   *)
(* texts become a summary and a request.  A typed text is its rupees and   *)
(* the digits after the point, or Unset when the field is empty.           *)
(***************************************************************************)
EXTENDS Integers, Sequences

CONSTANT Unset

\* At most two digits after the point, and nothing but digits.
IsAmount(input) == /\ input # Unset /\ Len(input.decimals) <= 2
                   /\ \A i \in DOMAIN input.decimals : input.decimals[i] \in 0..9

\* "5" after the point is fifty paise: the digits are padded at their end.
Paise(decimals) ==
    CASE Len(decimals) = 0 -> 0
      [] Len(decimals) = 1 -> 10 * decimals[1]
      [] Len(decimals) = 2 -> 10 * decimals[1] + decimals[2]

parseMoneyToMinorUnits(input) == input.rupees * 100 + Paise(input.decimals)

formatMoney(minorUnits) ==
    LET absolute == IF minorUnits < 0 THEN - minorUnits ELSE minorUnits
    IN  [negative |-> minorUnits < 0, rupees |-> absolute \div 100,
         decimals |-> <<(absolute % 100) \div 10, absolute % 10>>]

-----------------------------------------------------------------------------
(* The form of the wallet.                                                 *)

OrZero(applies, text) == IF applies /\ text # Unset THEN parseMoneyToMinorUnits(text) ELSE 0

\* The texts that count can all be read: otherwise the summary shows zeros.
Readable(form) == /\ IsAmount(form.amount) \/ form.amount = Unset
                  /\ form.applyTax => IsAmount(form.tax) \/ form.tax = Unset
                  /\ form.applyFee => IsAmount(form.fee) \/ form.fee = Unset
summary(form) ==
    IF ~Readable(form) THEN [amount |-> 0, tax |-> 0, fee |-> 0, total |-> 0]
    ELSE LET amount == OrZero(TRUE, form.amount)
             tax == OrZero(form.applyTax, form.tax)
             fee == OrZero(form.applyFee, form.fee)
         IN  [amount |-> amount, tax |-> tax, fee |-> fee, total |-> amount + tax + fee]

\* Fields that are not ticked are left out of the request, whatever they hold.
buildRequest_Unticked(form) ==  \* mutant: a tax that is typed is sent, ticked or not
    [amount |-> parseMoneyToMinorUnits(form.amount), fee |-> OrZero(form.applyFee, form.fee),
     tax |-> OrZero(TRUE, form.tax)]
buildRequest(form) ==
    [amount |-> parseMoneyToMinorUnits(form.amount), fee |-> OrZero(form.applyFee, form.fee),
     tax |-> OrZero(form.applyTax, form.tax)]

\* What handlePayment demands before it sends the request.
Sent(form) ==
    /\ IsAmount(form.amount) /\ parseMoneyToMinorUnits(form.amount) > 0
    /\ form.applyTax => form.tax # Unset
    /\ form.applyFee => form.fee # Unset
    /\ Readable(form)
=============================================================================
