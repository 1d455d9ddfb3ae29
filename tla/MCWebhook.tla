------------------------------ MODULE MCWebhook ------------------------------
(***************************************************************************)
(* A Stripe source whose secret is being rotated, a Razorpay source with a *)
(* mistyped payload, and a custom source one of whose keys is too long.    *)
(***************************************************************************)
EXTENDS Webhook

Stripe   == [provider |-> "stripe", account |-> "acme", secret |-> "old"]
Razorpay == [provider |-> "razorpay", account |-> "acme", secret |-> "rzp"]
Custom   == [provider |-> "custom", account |-> "bolt", secret |-> "own"]

Paid(source, signers, payment, txn, currency, units, value) ==
    [source |-> source, signers |-> signers, type |-> "handled", shape |-> "complete",
     id |-> payment, payment |-> payment, txn |-> txn, currency |-> currency,
     units |-> units, value |-> value]

Yen      == Paid(Stripe, <<"new", "old">>, <<1>>, <<1>>, "JPY", 1050, 105000)
Dinars   == Paid(Stripe, <<"old">>, <<2>>, <<2>>, "KWD", 1050, 105)
Mistyped == [Paid(Razorpay, <<"rzp">>, <<3>>, <<3>>, "INR", 1050, 1050)
                EXCEPT !.shape = "bad_notes"]
Inner    == Paid(Custom, <<"own">>, <<7>>, <<5, 6>>, "INR", 1050, 1050)
Long     == Paid(Custom, <<"own">>, <<7, 8>>, <<5, 6>>, "INR", 1050, 1050)

\* Reads like Inner: 5:6:7.
Outer    == Paid(Custom, <<"own">>, <<6, 7>>, <<5>>, "INR", 2100, 2100)

MCSource == {Stripe, Razorpay, Custom}
MCRevocable == {Stripe}
MCEvent  == {Yen, Dinars, Mistyped, Inner, Long}
JoinedSource == {Custom}
JoinedEvent  == {Inner, Outer}
==============================================================================
