----------------------------- MODULE MCCleaning -----------------------------
(***************************************************************************)
(* Instances of Cleaning for TLC.  Records differ from a good one in one or *)
(* two columns: enough for every pair that collides after cleaning only.    *)
(***************************************************************************)
EXTENDS Cleaning

AllWords == {"INR", "inr", "USD", "SUCCESS", "Success", "Food", "food", "FOOD",
             "Uncategorised", "UNCATEGORISED", "?"}

UpperCase ==
    [w \in AllWords |-> CASE w = "inr"              -> "INR"
                          [] w = "Success"          -> "SUCCESS"
                          [] w \in {"Food", "food"} -> "FOOD"
                          [] w = "Uncategorised"    -> "UNCATEGORISED"
                          [] OTHER                  -> w]

Is(b) == [padded |-> FALSE, body |-> b]
Padded(b) == [padded |-> TRUE, body |-> b]

Number(m) == [form |-> "amount", mills |-> m, marked |-> FALSE]
Marked(m) == [form |-> "amount", mills |-> m, marked |-> TRUE]

G(k, n) == [digits |-> k, n |-> n]
Date(s, a, b, c) == [form |-> "date", sep |-> s, group |-> <<a, b, c>>]

\* 29 February, and the fourth of May.
Good ==
    [c \in Columns |->
        CASE c = "amount"   -> Is(Number(1500))
          [] c = "currency" -> Is(Word("INR"))
          [] c = "status"   -> Is(Word("SUCCESS"))
          [] c = "date"     -> Is(Date("-", G(4, 2024), G(2, 2), G(2, 29)))
          [] c = "category" -> Is(Word("Food"))
          [] OTHER          -> Is(Word("food"))]

Empty == [c \in Columns |-> Is(Blank)]

Texts ==
    {Good, Empty,
     [Good EXCEPT !["currency"] = Padded(Word("inr"))],
     [Good EXCEPT !["amount"] = Padded(Marked(1496)),
                  !["date"] = Is(Date("-", G(2, 29), G(1, 2), G(4, 2024)))],
     [Good EXCEPT !["amount"] = Is(Number(1505))],
     [Good EXCEPT !["amount"] = Is(Number(-1505)), !["status"] = Is(Word("Success"))],
     [Good EXCEPT !["amount"] = Is(Number(10006))],
     [Good EXCEPT !["status"] = Is(Word("?"))],
     [Good EXCEPT !["date"] = Is(Date("-", G(4, 2023), G(2, 2), G(2, 29)))],
     [Good EXCEPT !["date"] = Is(Date("/", G(2, 29), G(2, 2), G(4, 2024)))],
     [Good EXCEPT !["date"] = Is(Date("-", G(2, 4), G(2, 5), G(4, 2024)))],
     [Good EXCEPT !["category"] = Is(Blank)],
     [Good EXCEPT !["category"] = Padded(Word("Uncategorised"))],
     [Good EXCEPT !["other"] = Is(Word("Food"))],
     [Empty EXCEPT !["other"] = Is(Number(1500))]}

\* Surplus fields matter on a blank line only; elsewhere they are ignored.
AllRecords ==
    [text : Texts, surplus : {FALSE}] \cup [text : {Good, Empty}, surplus : {TRUE}]

GoodRecord == {[text |-> Good, surplus |-> FALSE]}
=============================================================================
