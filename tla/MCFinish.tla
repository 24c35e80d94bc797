------------------------------ MODULE MCFinish ------------------------------
EXTENDS Finish

(* The suite fails on what only the branch and main together bring, and so  *)
(* do the gates, or they do not.                                            *)
Clash == {{"code", "theirs"}}
Seen == {{}, Clash}
Unseen == {Clash}

(* Two works. The older two of three reports are headed by one of them; the *)
(* file name of the second reaches the other one, the third is the newest   *)
(* and a record cites the first. The feature's specification takes two      *)
(* comments.                                                                *)
OnShelf == <<[by |-> "work", of |-> "login", name |-> "login", cited |-> "journal", old |-> TRUE],
             [by |-> "review", of |-> "login", name |-> "search", cited |-> "nobody", old |-> TRUE],
             [by |-> "work", of |-> "login", name |-> "none", cited |-> "search", old |-> FALSE]>>

Files == <<"spec", "plan">>
TwoParts == [f \in {"spec", "plan"} |-> IF f = "spec" THEN 2 ELSE 1]

Line(w, n, v) == [work |-> w, round |-> n, verdict |-> v]
Blank == [old |-> {}, archive |-> {}, today |-> {}, prose |-> FALSE]
Nowhere == [r \in DOMAIN OnShelf |-> [head |-> 0, index |-> 0, disk |-> 0, hidden |-> FALSE]]

(* A report is committed, hidden, or staged only.                           *)
Kept == {[head |-> 1, index |-> 1, disk |-> 1, hidden |-> h] : h \in BOOLEAN}
Staged == {[head |-> 0, index |-> 1, disk |-> 1, hidden |-> FALSE]}

ReportShelves ==
    {[report |-> <<a, b, [head |-> 1, index |-> 1, disk |-> 1, hidden |-> FALSE]>>,
      plan |-> [w \in {"login", "search"} |-> IF w = "login" THEN "archived" ELSE p],
      journal |-> [old |-> {Line("login", 1, v)}, archive |-> {}, today |-> {}, prose |-> TRUE],
      spec |-> [NoSpec EXCEPT !.there = s], runs |-> 0] :
     a \in Kept, b \in Kept \cup Staged, p \in {"active", "archived"}, v \in {"pass", "block"}, s \in BOOLEAN}

SpecShelves ==
    {[report |-> Nowhere, plan |-> [w \in {"login", "search"} |-> "none"], journal |-> Blank,
      spec |-> [NoSpec EXCEPT !.there = TRUE, !.ticked = TRUE, !.lacks = l], runs |-> 2] :
     l \in {{}, {"criteria"}}}

AllShelves == ReportShelves \cup SpecShelves
=============================================================================
