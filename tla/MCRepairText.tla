------------------------------ MODULE MCRepairText ------------------------------
(* Small vocabulary for RepairText: the entity in two spellings, a longer name *)
(* that contains it, a literal that quotes it, and columns near and far.       *)
EXTENDS RepairText, TLC

CONSTANTS amount, amount_total, amount_literal, sum, num, day

Plain(n, upper) == [name |-> n, upper |-> upper, edit |-> "none"]
Edited(n, e) == [name |-> n, upper |-> FALSE, edit |-> e]

Similarity == (amount :> 100) @@ (sum :> 80) @@ (num :> 76) @@ (day :> 10)

WrittenWord ==
  {Plain(amount, FALSE), Plain(amount, TRUE), Plain(amount_total, FALSE), Plain(sum, FALSE),
   Plain(amount_literal, FALSE), Plain(amount_literal, TRUE),
   Edited(amount, "cast"), Edited(amount_total, "cast"), Edited(amount_literal, sum)}

MCWritten == [verb : Verb, item : WrittenWord, where : WrittenWord \cup {NoWord}, odd : BOOLEAN]

\* What a failed SQL selects and filters.
FailedWord ==
  {Plain(amount, FALSE), Plain(amount, TRUE), Plain(amount_total, FALSE),
   Plain(amount_literal, FALSE), Plain(amount_literal, TRUE)}

MCFailed ==
  [verb : {"select", "insert", "drop"}, item : FailedWord, where : FailedWord \cup {NoWord}, odd : BOOLEAN]

Of(c, typed) == [column |-> c, typed |-> typed]

MCSnapshot ==
  {<<>>, <<Of(sum, TRUE), Of(day, TRUE)>>, <<Of(sum, TRUE), Of(sum, TRUE)>>, <<Of(num, TRUE), Of(sum, TRUE)>>,
   <<Of(day, TRUE)>>, <<Of(amount, TRUE), Of(sum, TRUE)>>, <<Of(amount, FALSE), Of(amount, TRUE)>>}
=============================================================================
