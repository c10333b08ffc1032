--------------------------- MODULE MCTransactions ---------------------------
(* Instances of Transactions for TLC: sources with one connection each. *)
EXTENDS Transactions, TLC

CONSTANTS other, bare, main1, other1, bare1, ann, wide, short, full, glyph

OneEach == [c \in Conns |-> IF c = main1 THEN Main ELSE IF c = other1 THEN other ELSE bare]

\* main has room for three bytes: it cuts one user, and the first character of the
\* other user takes four. other has room for both.
NamesOf ==
    [s \in Sources |-> [u \in Users |->
        IF s = Main THEN (IF u = ann THEN short ELSE Nobody)
        ELSE (IF u = ann THEN full ELSE glyph)]]

\* The nesting flow calls for one user or none, the other flow for the other or none.
UserOfEach == [f \in Flows |-> IF f \in Nesters THEN {ann} ELSE {wide}]

=============================================================================
