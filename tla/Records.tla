------------------------------- MODULE Records -------------------------------
(***************************************************************************)
(* The working memory tidy.py clears up: review reports, archived plans    *)
(* and journal shards. What may go is decided at a look and goes by        *)
(* `git rm`, minutes later; old shards are folded by compact_journal.py.   *)
(*                                                                         *)
(* A report is its header, what its file name reaches, who cites it, its   *)
(* age, and its bytes: in HEAD, in the index, on disk; a number names them *)
(* and 0 says there are none. A hidden file is marked assume-unchanged.    *)
(* Reports are numbered by name, which is by date. An issue's number and a *)
(* plan's slug are one name for a work here.                               *)
(***************************************************************************)
EXTENDS Prune

CONSTANTS
    Items,     \* the works
    Feature,   \* the one the spec directory is of
    Shelf      \* per report: header [by, of], name, cited, old

VARIABLES
    report,    \* per report: head, index, disk, hidden
    plan,      \* per work: "none", "active", "archived", or "edited": archived and changed since
    journal    \* REVIEW lines: of old shards, of the archive, of today's shard;
               \* do old shards hold prose

shelved == <<report, plan, journal>>
records == <<pruning, shelved>>

Report == DOMAIN Shelf
OnDisk == {r \in Report : report[r].disk # 0}

(* The line that stands: the highest round; of two, the block.              *)
Lines == journal.old \cup journal.archive \cup journal.today
Over(l, m) == l.round > m.round \/ (l.round = m.round /\ l.verdict = "block")
Stands(w) == {l \in Lines : l.work = w /\ \A m \in Lines \ {l} : m.work = w => Over(l, m)}
Passed(w) == \E l \in Stands(w) : l.verdict = "pass"

Open(w) == plan[w] = "active" \/ (w = Feature /\ spec.there)
Cited(r) == CASE Shelf[r].cited = "journal" -> journal.prose
              [] Shelf[r].cited \in Items -> plan[Shelf[r].cited] # "none"
              [] OTHER -> FALSE

(* The residue: all of it holds, or the report stays. Seeded fault: a file  *)
(* name reaches nobody.                                                     *)
Newest(r) == \A s \in OnDisk : Shelf[s].by # "none" /\ Shelf[s].of = Shelf[r].of => s <= r
HeaderOnly(r) == FALSE
NameReaches(r) == Shelf[r].name \in Items /\ Open(Shelf[r].name)

OldReports == {r \in OnDisk :
    /\ Shelf[r].by # "none" /\ Shelf[r].old
    /\ Passed(Shelf[r].of) /\ ~Open(Shelf[r].of)
    /\ ~Newest(r) /\ ~Cited(r) /\ ~NameReaches(r)}

(* What git could not give back.                                            *)
Unremovable(r) == report[r].index = 0 \/ report[r].head = 0 \/ report[r].disk # report[r].head

(* git rm: what is staged, or edited where git looks, is refused.           *)
GitRemoves(r) ==
    /\ report[r].index # 0 /\ report[r].index = report[r].head
    /\ report[r].hidden \/ report[r].disk \in {0, report[r].index}

OldPlans == {w \in Items : plan[w] \in {"archived", "edited"}}

-----------------------------------------------------------------------------
(* tidy.apply, of what the look found.                                      *)
RemovePlans(found) ==
    /\ plan' = [w \in Items |-> IF w \in found /\ plan[w] = "archived" THEN "none" ELSE plan[w]]
    /\ UNCHANGED <<report, journal>>

RemoveReports(found) ==
    /\ report' = [r \in Report |-> IF r \in found /\ GitRemoves(r)
                                   THEN [report[r] EXCEPT !.index = 0, !.disk = 0] ELSE report[r]]
    /\ UNCHANGED <<plan, journal>>

(* compact_journal: the lines of the old shards go to the archive, then the *)
(* shards go.                                                               *)
FoldLines ==
    /\ journal' = [journal EXCEPT !.archive = @ \cup journal.old]
    /\ UNCHANGED <<report, plan>>
DropShards ==
    /\ journal' = [journal EXCEPT !.old = {}, !.prose = FALSE]
    /\ UNCHANGED <<report, plan>>

-----------------------------------------------------------------------------
(* The people: they edit a report, stage it, commit, attest a round in      *)
(* today's shard, open and archive plans, edit an archived one.             *)
WriteReport(r) ==
    /\ report[r].disk # 0 /\ report[r].disk # 2
    /\ report' = [report EXCEPT ![r].disk = 2]
    /\ UNCHANGED <<plan, journal>>

StageReport(r) ==
    /\ report[r].disk # report[r].index /\ report[r].disk # 0 /\ ~report[r].hidden
    /\ report' = [report EXCEPT ![r].index = report[r].disk]
    /\ UNCHANGED <<plan, journal>>

CommitReports ==
    /\ \E r \in Report : report[r].head # report[r].index
    /\ report' = [r \in Report |-> [report[r] EXCEPT !.head = report[r].index]]
    /\ UNCHANGED <<plan, journal>>

Attest(w, v) ==
    /\ journal.today = {}
    /\ journal' = [journal EXCEPT !.today = {[work |-> w, round |-> 2, verdict |-> v]}]
    /\ UNCHANGED <<report, plan>>

Replan(w, p) ==
    /\ plan[w] # p /\ p \in {"active", "archived", "edited"}
    /\ p = "edited" => plan[w] = "archived"
    /\ plan' = [plan EXCEPT ![w] = p]
    /\ UNCHANGED <<report, journal>>

Keeps == \/ \E r \in Report : WriteReport(r) \/ StageReport(r)
         \/ CommitReports
         \/ \E w \in Items, v \in {"pass", "block"} : Attest(w, v)
         \/ \E w \in Items, p \in {"active", "archived", "edited"} : Replan(w, p)

-----------------------------------------------------------------------------
(* check_review.report_of: the report the next round of w reads - of those  *)
(* whose header names the work, or whose file name or `review:` reaches it  *)
(* where no `work:` does.                                                   *)
Prior(w) == {r \in OnDisk : /\ IF Shelf[r].by = "work" THEN Shelf[r].of = w
                               ELSE Shelf[r].name = w \/ (Shelf[r].by = "review" /\ Shelf[r].of = w)}
NextRoundReads(w) == {r \in Prior(w) : \A s \in Prior(w) : s <= r}
=============================================================================
