-------------------------------- MODULE Prune --------------------------------
(***************************************************************************)
(* publish_and_prune.py: the files of a finished specs/<feature>/ go to    *)
(* its tracking issue as comments, are read back, and only then the        *)
(* directory is removed. With --stage the specification alone is published *)
(* and nothing is removed.                                                 *)
(*                                                                         *)
(* A comment is a mode, a file, the version of its text and a part of it.  *)
(* GitHub may not answer, may post and say it did not, and the maintainer  *)
(* may kill the run; git tells versions of a file apart, nothing else.     *)
(***************************************************************************)
EXTENDS Naturals, Sequences, FiniteSets

CONSTANTS
    SpecFiles,   \* the files, in the order they are published
    Parts,       \* how many comments a file takes
    Denied       \* files and versions .publish-denylist refuses

ASSUME FilesAssumption ==
    SpecFiles # <<>> /\ SpecFiles \in Seq(DOMAIN Parts) /\ Parts \in [DOMAIN Parts -> Nat]

VARIABLES
    spec,        \* the directory: is it there; its files on disk and in HEAD;
                 \* are its tasks ticked; what its plan lacks; does a tracked
                 \* file name it; is its plan in the archive
    issue,       \* the comments that stand there; those posted again by a run
                 \* that could have known
    pruner       \* the run

pruning == <<spec, issue, pruner>>

SpecFile == {SpecFiles[i] : i \in DOMAIN SpecFiles}
NotRunning == [at |-> "idle"]
Comment(mode, f, v, i) == [mode |-> mode, file |-> f, text |-> v, part |-> i]
CommentsOf(mode, f, v) == {Comment(mode, f, v, i) : i \in 1 .. Parts[f]}

Specification == [there : BOOLEAN, disk : [SpecFile -> Nat], head : [SpecFile -> Nat], ticked : BOOLEAN,
                  lacks : SUBSET {"criteria", "issue"}, named : BOOLEAN, kept : BOOLEAN]
NoSpec == [there |-> FALSE, disk |-> [f \in SpecFile |-> 1], head |-> [f \in SpecFile |-> 1],
           ticked |-> FALSE, lacks |-> {}, named |-> FALSE, kept |-> FALSE]
NoComments == [posted |-> {}, again |-> {}]

(* What tidy asks before it lists a directory, and the run once more.       *)
SpecBlocked == spec.lacks # {} \/ spec.named
SpecDirty == spec.disk # spec.head
Finished == spec.there /\ spec.ticked

Judged(mode) ==
    /\ pruner = NotRunning /\ spec.there
    /\ CASE mode = "prune" -> ~SpecBlocked /\ ~SpecDirty
         [] mode = "stage" -> "issue" \notin spec.lacks
    /\ pruner' = [at |-> "next", mode |-> mode, still |-> TRUE,
                  todo |-> IF mode = "prune" THEN SpecFiles ELSE <<Head(SpecFiles)>>]
    /\ UNCHANGED <<spec, issue>>

(* The next file as it is now, and the comments that stand on the issue. A  *)
(* text the denylist names, or comments that cannot be read, end the run.   *)
ReadText ==
    /\ pruner.at = "next" /\ pruner.todo # <<>>
    /\ LET f == Head(pruner.todo) IN
          pruner' \in {NotRunning} \cup
              IF <<f, spec.disk[f]>> \in Denied THEN {}
              ELSE {[at |-> "post", mode |-> pruner.mode, still |-> pruner.still, todo |-> pruner.todo,
                     text |-> spec.disk[f], held |-> issue.posted, part |-> 1]}
    /\ UNCHANGED <<spec, issue>>

(* Is the comment there already? Seeded fault: nobody looks.                *)
PostsAnew(c, held) == FALSE
Held(c, held) == c \in held

This == Comment(pruner.mode, Head(pruner.todo), pruner.text, pruner.part)

Posts(c) == issue' = [issue EXCEPT !.posted = @ \cup {c}, !.again = @ \cup (issue.posted \cap {c})]

(* gh posts it, or says that it failed and REST posts it - a second time,   *)
(* if gh had posted it. Or that fails, too.                                 *)
PostPart ==
    /\ pruner.at = "post" /\ pruner.part <= Parts[Head(pruner.todo)]
    /\ IF Held(This, pruner.held) THEN UNCHANGED issue ELSE Posts(This)
    /\ pruner' = [pruner EXCEPT !.part = @ + 1]
    /\ UNCHANGED spec

PostFails ==
    /\ pruner.at = "post" /\ pruner.part <= Parts[Head(pruner.todo)]
    /\ ~Held(This, pruner.held)
    /\ Posts(This) \/ UNCHANGED issue
    /\ pruner' = NotRunning
    /\ UNCHANGED spec

(* Read back: every part stands there, or the run ends.                     *)
ReadBack ==
    /\ pruner.at = "post" /\ pruner.part > Parts[Head(pruner.todo)]
    /\ pruner' \in {NotRunning} \cup
          IF CommentsOf(pruner.mode, Head(pruner.todo), pruner.text) \subseteq issue.posted
          THEN {[at |-> "next", mode |-> pruner.mode, still |-> pruner.still, todo |-> Tail(pruner.todo)]}
          ELSE {}
    /\ UNCHANGED <<spec, issue>>

(* The plan goes to the archive, then `git rm -r`: it refuses what differs  *)
(* from HEAD, and nothing is forced.                                        *)
KeepPlan ==
    /\ pruner.at = "next" /\ pruner.todo = <<>>
    /\ IF pruner.mode = "prune"
       THEN /\ spec' = [spec EXCEPT !.kept = TRUE]
            /\ pruner' = [at |-> "remove", still |-> pruner.still]
       ELSE UNCHANGED spec /\ pruner' = NotRunning
    /\ UNCHANGED issue

RemoveSpec ==
    /\ pruner.at = "remove"
    /\ spec' = IF SpecDirty THEN spec ELSE [spec EXCEPT !.there = FALSE]
    /\ pruner' = NotRunning
    /\ UNCHANGED issue

PruneDies ==
    /\ pruner # NotRunning /\ pruner' = NotRunning
    /\ UNCHANGED <<spec, issue>>

Prunes == ReadText \/ PostPart \/ PostFails \/ ReadBack \/ KeepPlan \/ RemoveSpec \/ PruneDies

-----------------------------------------------------------------------------
(* The people: they write on, commit, account for what is missing, name the *)
(* directory elsewhere, delete a comment.                                   *)
Unsettled == IF pruner = NotRunning THEN pruner ELSE [pruner EXCEPT !.still = FALSE]

WriteSpec(f) ==
    /\ spec.there /\ spec.disk[f] = 1 /\ spec' = [spec EXCEPT !.disk[f] = 2]
    /\ pruner' = Unsettled /\ UNCHANGED issue

CommitSpec ==
    /\ spec.there /\ SpecDirty /\ spec' = [spec EXCEPT !.head = spec.disk]
    /\ pruner' = Unsettled /\ UNCHANGED issue

CompletePlan ==
    /\ spec.there /\ spec.lacks # {} /\ spec' = [spec EXCEPT !.lacks = {}]
    /\ pruner' = Unsettled /\ UNCHANGED issue

NameSpec ==
    /\ spec.there /\ ~spec.named /\ spec' = [spec EXCEPT !.named = TRUE]
    /\ pruner' = Unsettled /\ UNCHANGED issue

DropComment(c) ==
    /\ c \in issue.posted
    /\ issue' = [issue EXCEPT !.posted = @ \ {c}]
    /\ pruner' = Unsettled /\ UNCHANGED spec

Writes == \/ \E f \in SpecFile : WriteSpec(f)
          \/ CommitSpec \/ CompletePlan \/ NameSpec
          \/ \E c \in issue.posted : DropComment(c)

-----------------------------------------------------------------------------
(* The directory goes as it is in HEAD; unless somebody worked on it while  *)
(* the run went on, all of that text stands on the issue by then, the plan  *)
(* lacks nothing and is in the archive, and nobody outside names it. A run  *)
(* killed, refused or unanswered and started again posts nothing that stood *)
(* there when it looked.                                                    *)
PublishedThenPruned ==
    [][/\ spec.there /\ ~spec'.there =>
             /\ ~SpecDirty /\ spec.kept
             /\ pruner.still =>
                   /\ ~SpecBlocked
                   /\ \A f \in SpecFile : CommentsOf("prune", f, spec.head[f]) \subseteq issue.posted
       /\ issue'.again = issue.again]_pruning
=============================================================================
