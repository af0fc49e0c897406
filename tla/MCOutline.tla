----------------------------- MODULE MCOutline -----------------------------
(* OutlineStore on small outlines: a page with a branch two levels deep, a  *)
(* page with two branches, two pages; rows done, blank or in the trash.     *)
EXTENDS OutlineStore

Row(p, key, text, live, done) ==
    [parent |-> p, text |-> text, key |-> key, live |-> live, done |-> done]

Rooted(rows) ==
    [x \in Rows |-> IF x = Root THEN Row(NoParent, 0, "a", TRUE, FALSE)
                    ELSE IF x \in DOMAIN rows THEN rows[x] ELSE NoRow]

\* A branch under a page, open or done at each level.
Branch == {Rooted(<<Row(0, 2, "a", TRUE, FALSE), Row(1, 2, "a", TRUE, b.upper),
                    Row(2, 2, b.text, TRUE, b.lower)>>) :
             b \in {[text |-> "a", upper |-> FALSE, lower |-> TRUE],
                    [text |-> "a", upper |-> TRUE, lower |-> TRUE],
                    [text |-> "", upper |-> TRUE, lower |-> FALSE]}}

\* Two rows under one row of a page, with little room between; one may be in
\* the trash, its key since taken.
Wide == {Rooted(<<Row(0, 2, "a", TRUE, FALSE), Row(1, 2, "", TRUE, FALSE),
                  Row(2, 2, "a", TRUE, FALSE), last>>) :
           last \in {Row(2, 3, "a", TRUE, TRUE), Row(2, 2, "a", FALSE, TRUE)}}

\* A page in the trash with a row of its own, beside a live one.
Pages == {Rooted(<<Row(0, 2, "a", FALSE, FALSE), Row(0, 4, "a", TRUE, FALSE),
                   Row(1, 2, "a", FALSE, TRUE)>>)}

MCTables == Branch \cup Wide \cup Pages
=============================================================================
