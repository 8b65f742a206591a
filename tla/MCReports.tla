------------------------------ MODULE MCReports ------------------------------
(***************************************************************************)
(* Files for TLC.  Some tell amounts and accounts apart, with every order    *)
(* of up to five rows; the others merchants, currencies, status and          *)
(* categories.                                                               *)
(***************************************************************************)
EXTENDS Reports

Plain ==
    [merchant |-> "Amazon", amount |-> 2, currency |-> "INR", status |-> "SUCCESS",
     category |-> "Food", account_id |-> "a1"]

UpTo(n, S) == UNION {[1..k -> S] : k \in 0..n}

\* The median of one account, beside rows of another account.
AmountFiles ==
    UpTo(4, {[Plain EXCEPT !.amount = a] : a \in {-4, 0, 1, 2, 4, 10, NaN}}
            \cup {[Plain EXCEPT !.account_id = "a2"]})
    \cup UpTo(5, {[Plain EXCEPT !.amount = a] : a \in {0, 1, 4, 13}})

\* Four merchants compete for three places; sums meet, order and count decide.
MerchantFiles ==
    UpTo(5, {[Plain EXCEPT !.merchant = m, !.amount = 1] : m \in {"Amazon", "Ola", "IRCTC"}}
            \cup {[Plain EXCEPT !.merchant = "Flipkart"],
                  [Plain EXCEPT !.amount = 3, !.status = "FAILED"]})

\* Currencies and categories.
CategoryFiles ==
    UpTo(3, {[Plain EXCEPT !.currency = "USD", !.amount = 3],
             [Plain EXCEPT !.category = Uncategorised],
             [Plain EXCEPT !.category = Uncategorised, !.merchant = "Ola", !.currency = "USD"],
             [Plain EXCEPT !.category = Uncategorised, !.status = "PENDING"],
             [Plain EXCEPT !.category = "Other", !.amount = 9],
             [Plain EXCEPT !.merchant = "Long"]})

\* Settings matter to uncategorised rows and to the narrative only.
NoClient == [has_client |-> FALSE, batch_size |-> 2]
Clients == [has_client : {TRUE}, batch_size : {-1, 0, 1, 2}]

AllInputs ==
    [rows : AmountFiles \cup MerchantFiles, cfg : {NoClient}]
    \cup [rows : CategoryFiles, cfg : {NoClient} \cup Clients]

CategoryInputs == [rows : CategoryFiles, cfg : {NoClient}]
=============================================================================
