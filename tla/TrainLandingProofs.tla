------------------------- MODULE TrainLandingProofs -------------------------
(***************************************************************************)
(* Proofs about TrainLanding, for any branches, bounds and number of runs. *)
(*                                                                         *)
(* The argument: what boards is covered at the SHA it is pinned at, what   *)
(* passed is the board that is left, so the staging tree is reviewed; past *)
(* the push all of it is on origin, past the fast-forward on main, and the *)
(* cleanup only touches what boarded. For the holds: a commit's past comes  *)
(* with it, so a tip that left could land only inside someone aboard.       *)
(***************************************************************************)
EXTENDS TrainLanding, TLAPS

(* Every branch commit of S is in a covered history.                        *)
Reviewed(S) ==
    \A c \in S : c[1] \in Branches => \E b \in Branches : \E H \in covered[b] : c \in H

Settling == {"report", "delete", "copy"}
AfterMerge == {"clean"} \cup Settling

RefsReviewed == Reviewed(main) /\ Reviewed(origin)
BaseIsOld == tracking \subseteq origin /\ base \subseteq origin
BoardIsReviewed == \A b \in board : pinned[b] \in covered[b]
PassIsOfBoard ==
    /\ passed => tree = board
    /\ pc \in {"check", "depart"} \cup OnMain => passed
    /\ pc \in {"read", "board"} => ~passed
StagedIsOut ==
    /\ pc \in OnMain /\ push => Staged \subseteq origin
    /\ pc \in AfterMerge => Staged \subseteq main /\ todo \subseteq board
SettlesOne ==
    pc \in Settling =>
        \E b \in board : cur = {b} /\ (pc = "copy" => push /\ lease \subseteq pinned[b])

IInv == /\ TypeOK /\ RefsReviewed /\ BaseIsOld /\ BoardIsReviewed
        /\ PassIsOfBoard /\ StagedIsOut /\ SettlesOne /\ LocalNeverAhead

-----------------------------------------------------------------------------
(* A run that ends forgets, whatever it was doing.                          *)
LEMMA EndsKeeps == ASSUME IInv, Ends PROVE IInv'
<1> USE DEF Ends, refs, words
<1>1. TypeOK'
  <2>1. tip' = tip /\ copy' = copy /\ main' = main /\ origin' = origin /\ tracking' = tracking
        /\ made' = made /\ covered' = covered /\ log' = log /\ fetched' = fetched
        /\ push' = push /\ runs' = runs /\ done' = done
    OBVIOUS
  <2>2. pinned' \in [Branches -> Refs] BY DEF Nothing, Refs
  <2>3. base' \in Refs /\ lease' \in Refs BY DEF Refs
  <2> QED BY <2>1, <2>2, <2>3 DEF IInv, TypeOK
<1>2. RefsReviewed' BY DEF IInv, RefsReviewed, Reviewed
<1>3. BaseIsOld' /\ BoardIsReviewed' BY DEF IInv, BaseIsOld, BoardIsReviewed
<1>4. PassIsOfBoard' BY DEF PassIsOfBoard, OnMain
<1>5. StagedIsOut' /\ SettlesOne' BY DEF StagedIsOut, SettlesOne, OnMain, AfterMerge, Settling
<1>6. LocalNeverAhead' BY DEF IInv, LocalNeverAhead
<1> QED BY <1>1, <1>2, <1>3, <1>4, <1>5, <1>6 DEF IInv
(* What the staging tree holds is well-formed and reviewed once the board   *)
(* passed.                                                                  *)
LEMMA StagedTyped == ASSUME IInv PROVE Staged \in Refs
BY DEF IInv, TypeOK, Staged, Brings, Refs

LEMMA StagedReviewed == ASSUME IInv, passed PROVE Reviewed(Staged)
<1> SUFFICES ASSUME NEW c \in Staged, c[1] \in Branches
             PROVE \E b \in Branches : \E H \in covered[b] : c \in H
    BY DEF Reviewed
<1>1. CASE c \in base
    <2>1. c \in origin BY <1>1 DEF IInv, BaseIsOld
    <2> QED BY <2>1 DEF IInv, RefsReviewed, Reviewed
<1>2. CASE c \notin base
    <2>1. PICK b \in tree : c \in pinned[b] BY <1>2 DEF Staged, Brings
    <2>2. b \in board BY <2>1 DEF IInv, PassIsOfBoard
    <2>3. b \in Branches BY <2>2 DEF IInv, TypeOK
    <2> QED BY <2>1, <2>2, <2>3 DEF IInv, BoardIsReviewed
<1> QED BY <1>1, <1>2

LEMMA FetchKeeps == ASSUME IInv, Fetch PROVE IInv'
<1> USE DEF Fetch, refs, words, boarding, judged, cleaning, told
<1>1. TypeOK' BY BoundsAssumption DEF IInv, TypeOK, OnMain
<1>2. RefsReviewed' BY DEF IInv, RefsReviewed, Reviewed
<1>3. BaseIsOld' BY DEF IInv, BaseIsOld
<1>4. BoardIsReviewed' BY DEF IInv, BoardIsReviewed
<1>5. PassIsOfBoard' BY DEF IInv, PassIsOfBoard, OnMain
<1>6. StagedIsOut' BY DEF IInv, StagedIsOut, OnMain, AfterMerge, Settling, Staged, Brings
<1>7. SettlesOne' BY DEF IInv, SettlesOne, Settling
<1>8. LocalNeverAhead' BY DEF IInv, LocalNeverAhead
<1> QED BY <1>1, <1>2, <1>3, <1>4, <1>5, <1>6, <1>7, <1>8 DEF IInv
LEMMA PinKeeps == ASSUME IInv, Pin PROVE IInv'
<1> USE DEF Pin, refs, words, boarding, judged, cleaning, told
<1>1. TypeOK' BY DEF IInv, TypeOK, OnMain
<1>2. RefsReviewed' BY DEF IInv, RefsReviewed, Reviewed
<1>3. BaseIsOld' BY DEF IInv, BaseIsOld
<1>4. BoardIsReviewed' BY DEF IInv, BoardIsReviewed
<1>5. PassIsOfBoard' BY DEF IInv, PassIsOfBoard, OnMain
<1>6. StagedIsOut' BY DEF IInv, StagedIsOut, OnMain, AfterMerge, Settling, Staged, Brings
<1>7. SettlesOne' BY DEF IInv, SettlesOne, Settling
<1>8. LocalNeverAhead' BY DEF IInv, LocalNeverAhead
<1> QED BY <1>1, <1>2, <1>3, <1>4, <1>5, <1>6, <1>7, <1>8 DEF IInv
LEMMA ReadReportsKeeps == ASSUME IInv, ReadReports PROVE IInv'
<1> USE DEF ReadReports, refs, words, boarding, judged, cleaning, told
<1>1. TypeOK' BY DEF IInv, TypeOK, OnMain, Known
<1>2. RefsReviewed' BY DEF IInv, RefsReviewed, Reviewed
<1>3. BaseIsOld' BY DEF IInv, BaseIsOld
<1>4. BoardIsReviewed' BY DEF IInv, BoardIsReviewed
<1>5. PassIsOfBoard' BY DEF IInv, PassIsOfBoard, OnMain
<1>6. StagedIsOut' BY DEF IInv, StagedIsOut, OnMain, AfterMerge, Settling, Staged, Brings
<1>7. SettlesOne' BY DEF IInv, SettlesOne, Settling
<1>8. LocalNeverAhead' BY DEF IInv, LocalNeverAhead
<1> QED BY <1>1, <1>2, <1>3, <1>4, <1>5, <1>6, <1>7, <1>8 DEF IInv
LEMMA BoardKeeps == ASSUME IInv, Board PROVE IInv'
<1> USE DEF Board, refs, words, boarding, judged, cleaning, told
<1>1. TypeOK' BY DEF IInv, TypeOK, OnMain
<1>2. RefsReviewed' BY DEF IInv, RefsReviewed, Reviewed
<1>3. BaseIsOld' BY DEF IInv, BaseIsOld
<1>4. BoardIsReviewed' BY DEF IInv, BoardIsReviewed
<1>5. PassIsOfBoard' BY DEF IInv, PassIsOfBoard, OnMain
<1>6. StagedIsOut' BY DEF IInv, StagedIsOut, OnMain, AfterMerge, Settling, Staged, Brings
<1>7. SettlesOne' BY DEF IInv, SettlesOne, Settling
<1>8. LocalNeverAhead' BY DEF IInv, LocalNeverAhead
<1> QED BY <1>1, <1>2, <1>3, <1>4, <1>5, <1>6, <1>7, <1>8 DEF IInv
LEMMA JudgeKeeps == ASSUME IInv, Judge PROVE IInv'
<1> USE DEF Judge, J!Pass, refs, words, boarding, judged, cleaning, told
<1>1. TypeOK' BY DEF IInv, TypeOK, OnMain
<1>2. RefsReviewed' BY DEF IInv, RefsReviewed, Reviewed
<1>3. BaseIsOld' BY DEF IInv, BaseIsOld
<1>4. BoardIsReviewed' BY DEF IInv, BoardIsReviewed
<1>5. PassIsOfBoard' BY DEF IInv, PassIsOfBoard, OnMain
<1>6. StagedIsOut' BY DEF IInv, StagedIsOut, OnMain, AfterMerge, Settling, Staged, Brings
<1>7. SettlesOne' BY DEF IInv, SettlesOne, Settling
<1>8. LocalNeverAhead' BY DEF IInv, LocalNeverAhead
<1> QED BY <1>1, <1>2, <1>3, <1>4, <1>5, <1>6, <1>7, <1>8 DEF IInv
LEMMA HoldCheckKeeps == ASSUME IInv, HoldCheck PROVE IInv'
<1> USE DEF HoldCheck, J!Recall, refs, words, boarding, judged, cleaning, told
<1>1. TypeOK' BY DEF IInv, TypeOK, OnMain, Known, AllLeave
<1>2. RefsReviewed' BY DEF IInv, RefsReviewed, Reviewed
<1>3. BaseIsOld' BY DEF IInv, BaseIsOld
<1>4. BoardIsReviewed' BY DEF IInv, BoardIsReviewed
<1>5. PassIsOfBoard' BY DEF IInv, PassIsOfBoard, OnMain
<1>6. StagedIsOut' BY DEF IInv, StagedIsOut, OnMain, AfterMerge, Settling, Staged, Brings
<1>7. SettlesOne' BY DEF IInv, SettlesOne, Settling
<1>8. LocalNeverAhead' BY DEF IInv, LocalNeverAhead
<1> QED BY <1>1, <1>2, <1>3, <1>4, <1>5, <1>6, <1>7, <1>8 DEF IInv
LEMMA PushKeeps == ASSUME IInv, Push PROVE IInv'
<1> USE DEF Push, Departs, FastForward, refs, words, boarding, judged, cleaning, told
<1>1. TypeOK' BY StagedTyped DEF IInv, TypeOK, OnMain
<1>2. RefsReviewed' BY StagedReviewed DEF IInv, RefsReviewed, Reviewed, PassIsOfBoard
<1>3. BaseIsOld' BY DEF IInv, BaseIsOld
<1>4. BoardIsReviewed' BY DEF IInv, BoardIsReviewed
<1>5. PassIsOfBoard' BY DEF IInv, PassIsOfBoard, OnMain
<1>6. StagedIsOut' BY DEF IInv, StagedIsOut, OnMain, AfterMerge, Settling, Staged, Brings
<1>7. SettlesOne' BY DEF IInv, SettlesOne, Settling
<1>8. LocalNeverAhead' BY DEF IInv, LocalNeverAhead
<1> QED BY <1>1, <1>2, <1>3, <1>4, <1>5, <1>6, <1>7, <1>8 DEF IInv
LEMMA WithoutPushKeeps == ASSUME IInv, WithoutPush PROVE IInv'
<1> USE DEF WithoutPush, Departs, refs, words, boarding, judged, cleaning, told
<1>1. TypeOK' BY DEF IInv, TypeOK, OnMain
<1>2. RefsReviewed' BY DEF IInv, RefsReviewed, Reviewed
<1>3. BaseIsOld' BY DEF IInv, BaseIsOld
<1>4. BoardIsReviewed' BY DEF IInv, BoardIsReviewed
<1>5. PassIsOfBoard' BY DEF IInv, PassIsOfBoard, OnMain
<1>6. StagedIsOut' BY DEF IInv, StagedIsOut, OnMain, AfterMerge, Settling, Staged, Brings
<1>7. SettlesOne' BY DEF IInv, SettlesOne, Settling
<1>8. LocalNeverAhead' BY DEF IInv, LocalNeverAhead
<1> QED BY <1>1, <1>2, <1>3, <1>4, <1>5, <1>6, <1>7, <1>8 DEF IInv
LEMMA MergeKeeps == ASSUME IInv, Merge PROVE IInv'
<1> USE DEF Merge, Landed, refs, words, boarding, judged, cleaning, told
<1>1. TypeOK' BY StagedTyped DEF IInv, TypeOK, OnMain, Refs
<1>2. RefsReviewed' BY StagedReviewed DEF IInv, RefsReviewed, Reviewed, PassIsOfBoard, OnMain
<1>3. BaseIsOld' BY DEF IInv, BaseIsOld
<1>4. BoardIsReviewed' BY DEF IInv, BoardIsReviewed
<1>5. PassIsOfBoard' BY DEF IInv, PassIsOfBoard, OnMain
<1>6. StagedIsOut' BY DEF IInv, StagedIsOut, OnMain, AfterMerge, Settling, Staged, Brings
<1>7. SettlesOne' BY DEF IInv, SettlesOne, Settling
<1>8. LocalNeverAhead' BY DEF IInv, LocalNeverAhead, StagedIsOut, OnMain
<1> QED BY <1>1, <1>2, <1>3, <1>4, <1>5, <1>6, <1>7, <1>8 DEF IInv
LEMMA MovedKeeps == ASSUME IInv, Moved PROVE IInv'
<1> USE DEF Moved, refs, words, boarding, judged, cleaning, told
<1>1. TypeOK' BY DEF IInv, TypeOK, OnMain
<1>2. RefsReviewed' BY DEF IInv, RefsReviewed, Reviewed
<1>3. BaseIsOld' BY DEF IInv, BaseIsOld
<1>4. BoardIsReviewed' BY DEF IInv, BoardIsReviewed
<1>5. PassIsOfBoard' BY DEF IInv, PassIsOfBoard, OnMain
<1>6. StagedIsOut' BY DEF IInv, StagedIsOut, OnMain, AfterMerge, Settling, Staged, Brings
<1>7. SettlesOne' BY DEF IInv, SettlesOne, Settling
<1>8. LocalNeverAhead' BY DEF IInv, LocalNeverAhead
<1> QED BY <1>1, <1>2, <1>3, <1>4, <1>5, <1>6, <1>7, <1>8 DEF IInv
LEMMA SettleKeeps == ASSUME IInv, Settle PROVE IInv'
<1> USE DEF Settle, Next1, refs, words, boarding, judged, cleaning, told
<1>1. TypeOK' BY DEF IInv, TypeOK, OnMain
<1>2. RefsReviewed' BY DEF IInv, RefsReviewed, Reviewed
<1>3. BaseIsOld' BY DEF IInv, BaseIsOld
<1>4. BoardIsReviewed' BY DEF IInv, BoardIsReviewed
<1>5. PassIsOfBoard' BY DEF IInv, PassIsOfBoard, OnMain
<1>6. StagedIsOut' BY DEF IInv, StagedIsOut, OnMain, AfterMerge, Settling, Staged, Brings
<1>7. SettlesOne' BY DEF IInv, SettlesOne, StagedIsOut, AfterMerge, Settling
<1>8. LocalNeverAhead' BY DEF IInv, LocalNeverAhead
<1> QED BY <1>1, <1>2, <1>3, <1>4, <1>5, <1>6, <1>7, <1>8 DEF IInv
LEMMA ReportDoneKeeps == ASSUME IInv, ReportDone PROVE IInv'
<1> USE DEF ReportDone, refs, words, boarding, judged, cleaning, told
<1>1. TypeOK' BY DEF IInv, TypeOK, OnMain
<1>2. RefsReviewed' BY DEF IInv, RefsReviewed, Reviewed
<1>3. BaseIsOld' BY DEF IInv, BaseIsOld
<1>4. BoardIsReviewed' BY DEF IInv, BoardIsReviewed
<1>5. PassIsOfBoard' BY DEF IInv, PassIsOfBoard, OnMain
<1>6. StagedIsOut' BY DEF IInv, StagedIsOut, OnMain, AfterMerge, Settling, Staged, Brings
<1>7. SettlesOne' BY DEF IInv, SettlesOne, Settling
<1>8. LocalNeverAhead' BY DEF IInv, LocalNeverAhead
<1> QED BY <1>1, <1>2, <1>3, <1>4, <1>5, <1>6, <1>7, <1>8 DEF IInv
LEMMA DeleteLocalKeeps == ASSUME IInv, DeleteLocal PROVE IInv'
<1> USE DEF DeleteLocal, AsBoarded, refs, words, boarding, judged, cleaning, told
<1>1. TypeOK' BY DEF IInv, TypeOK, OnMain, Refs
<1>2. RefsReviewed' BY DEF IInv, RefsReviewed, Reviewed
<1>3. BaseIsOld' BY DEF IInv, BaseIsOld
<1>4. BoardIsReviewed' BY DEF IInv, BoardIsReviewed
<1>5. PassIsOfBoard' BY DEF IInv, PassIsOfBoard, OnMain
<1>6. StagedIsOut' BY DEF IInv, StagedIsOut, OnMain, AfterMerge, Settling, Staged, Brings
<1>7. SettlesOne' BY DEF IInv, SettlesOne, Settling
<1>8. LocalNeverAhead' BY DEF IInv, LocalNeverAhead
<1> QED BY <1>1, <1>2, <1>3, <1>4, <1>5, <1>6, <1>7, <1>8 DEF IInv
LEMMA KeepLocalKeeps == ASSUME IInv, KeepLocal PROVE IInv'
<1> USE DEF KeepLocal, refs, words, boarding, judged, cleaning, told
<1>1. TypeOK' BY DEF IInv, TypeOK, OnMain
<1>2. RefsReviewed' BY DEF IInv, RefsReviewed, Reviewed
<1>3. BaseIsOld' BY DEF IInv, BaseIsOld
<1>4. BoardIsReviewed' BY DEF IInv, BoardIsReviewed
<1>5. PassIsOfBoard' BY DEF IInv, PassIsOfBoard, OnMain
<1>6. StagedIsOut' BY DEF IInv, StagedIsOut, OnMain, AfterMerge, Settling, Staged, Brings
<1>7. SettlesOne' BY DEF IInv, SettlesOne, Settling
<1>8. LocalNeverAhead' BY DEF IInv, LocalNeverAhead
<1> QED BY <1>1, <1>2, <1>3, <1>4, <1>5, <1>6, <1>7, <1>8 DEF IInv
LEMMA DeleteCopyKeeps == ASSUME IInv, DeleteCopy PROVE IInv'
<1> USE DEF DeleteCopy, refs, words, boarding, judged, cleaning, told
<1>1. TypeOK' BY DEF IInv, TypeOK, OnMain, Refs
<1>2. RefsReviewed' BY DEF IInv, RefsReviewed, Reviewed
<1>3. BaseIsOld' BY DEF IInv, BaseIsOld
<1>4. BoardIsReviewed' BY DEF IInv, BoardIsReviewed
<1>5. PassIsOfBoard' BY DEF IInv, PassIsOfBoard, OnMain
<1>6. StagedIsOut' BY DEF IInv, StagedIsOut, OnMain, AfterMerge, Settling, Staged, Brings
<1>7. SettlesOne' BY DEF IInv, SettlesOne, Settling
<1>8. LocalNeverAhead' BY DEF IInv, LocalNeverAhead
<1> QED BY <1>1, <1>2, <1>3, <1>4, <1>5, <1>6, <1>7, <1>8 DEF IInv
LEMMA RelentKeeps == ASSUME IInv, Relent PROVE IInv'
<1> USE DEF Relent, Lags, refs, words, boarding, judged, cleaning, told
<1>1. TypeOK' BY DEF IInv, TypeOK, OnMain, Refs
<1>2. RefsReviewed' BY DEF IInv, RefsReviewed, Reviewed
<1>3. BaseIsOld' BY DEF IInv, BaseIsOld
<1>4. BoardIsReviewed' BY DEF IInv, BoardIsReviewed
<1>5. PassIsOfBoard' BY DEF IInv, PassIsOfBoard, OnMain
<1>6. StagedIsOut' BY DEF IInv, StagedIsOut, OnMain, AfterMerge, Settling, Staged, Brings
<1>7. SettlesOne' BY DEF IInv, SettlesOne, Settling
<1>8. LocalNeverAhead' BY DEF IInv, LocalNeverAhead
<1> QED BY <1>1, <1>2, <1>3, <1>4, <1>5, <1>6, <1>7, <1>8 DEF IInv
LEMMA KeepCopyKeeps == ASSUME IInv, KeepCopy PROVE IInv'
<1> USE DEF KeepCopy, refs, words, boarding, judged, cleaning, told
<1>1. TypeOK' BY DEF IInv, TypeOK, OnMain
<1>2. RefsReviewed' BY DEF IInv, RefsReviewed, Reviewed
<1>3. BaseIsOld' BY DEF IInv, BaseIsOld
<1>4. BoardIsReviewed' BY DEF IInv, BoardIsReviewed
<1>5. PassIsOfBoard' BY DEF IInv, PassIsOfBoard, OnMain
<1>6. StagedIsOut' BY DEF IInv, StagedIsOut, OnMain, AfterMerge, Settling, Staged, Brings
<1>7. SettlesOne' BY DEF IInv, SettlesOne, Settling
<1>8. LocalNeverAhead' BY DEF IInv, LocalNeverAhead
<1> QED BY <1>1, <1>2, <1>3, <1>4, <1>5, <1>6, <1>7, <1>8 DEF IInv

-----------------------------------------------------------------------------
(* Everybody else.                                                          *)

LEMMA WorkKeeps == ASSUME IInv, NEW b \in Branches, Work(b) PROVE IInv'
<1> USE DEF Work, Fresh, New, Still, refs, words, boarding, judged, cleaning, told
<1>1. TypeOK' BY DEF IInv, TypeOK, OnMain, Refs, Commits
<1>2. RefsReviewed' BY DEF IInv, RefsReviewed, Reviewed
<1>3. BaseIsOld' BY DEF IInv, BaseIsOld
<1>4. BoardIsReviewed' BY DEF IInv, BoardIsReviewed
<1>5. PassIsOfBoard' BY DEF IInv, PassIsOfBoard, OnMain
<1>6. StagedIsOut' BY DEF IInv, StagedIsOut, OnMain, AfterMerge, Settling, Staged, Brings
<1>7. SettlesOne' BY DEF IInv, SettlesOne, Settling
<1>8. LocalNeverAhead' BY DEF IInv, LocalNeverAhead
<1> QED BY <1>1, <1>2, <1>3, <1>4, <1>5, <1>6, <1>7, <1>8 DEF IInv

LEMMA AmendKeeps == ASSUME IInv, NEW b \in Branches, Amend(b) PROVE IInv'
<1> USE DEF Amend, Fresh, New, Still, refs, words, boarding, judged, cleaning, told
<1>1. TypeOK' BY DEF IInv, TypeOK, OnMain, Refs, Commits
<1>2. RefsReviewed' BY DEF IInv, RefsReviewed, Reviewed
<1>3. BaseIsOld' BY DEF IInv, BaseIsOld
<1>4. BoardIsReviewed' BY DEF IInv, BoardIsReviewed
<1>5. PassIsOfBoard' BY DEF IInv, PassIsOfBoard, OnMain
<1>6. StagedIsOut' BY DEF IInv, StagedIsOut, OnMain, AfterMerge, Settling, Staged, Brings
<1>7. SettlesOne' BY DEF IInv, SettlesOne, Settling
<1>8. LocalNeverAhead' BY DEF IInv, LocalNeverAhead
<1> QED BY <1>1, <1>2, <1>3, <1>4, <1>5, <1>6, <1>7, <1>8 DEF IInv

LEMMA AttestKeeps == ASSUME IInv, NEW b \in Branches, Attest(b) PROVE IInv'
<1> USE DEF Attest, Fresh, New, Still, refs, words, boarding, judged, cleaning, told
<1>1. TypeOK' BY DEF IInv, TypeOK, OnMain, Refs, Commits
<1>2. RefsReviewed' BY DEF IInv, RefsReviewed, Reviewed
<1>3. BaseIsOld' BY DEF IInv, BaseIsOld
<1>4. BoardIsReviewed' BY DEF IInv, BoardIsReviewed
<1>5. PassIsOfBoard' BY DEF IInv, PassIsOfBoard, OnMain
<1>6. StagedIsOut' BY DEF IInv, StagedIsOut, OnMain, AfterMerge, Settling, Staged, Brings
<1>7. SettlesOne' BY DEF IInv, SettlesOne, Settling
<1>8. LocalNeverAhead' BY DEF IInv, LocalNeverAhead
<1> QED BY <1>1, <1>2, <1>3, <1>4, <1>5, <1>6, <1>7, <1>8 DEF IInv

LEMMA PushCopyKeeps == ASSUME IInv, NEW b \in Branches, PushCopy(b) PROVE IInv'
<1> USE DEF PushCopy, Still, refs, words, boarding, judged, cleaning, told
<1>1. TypeOK' BY DEF IInv, TypeOK, OnMain, Refs, Commits
<1>2. RefsReviewed' BY DEF IInv, RefsReviewed, Reviewed
<1>3. BaseIsOld' BY DEF IInv, BaseIsOld
<1>4. BoardIsReviewed' BY DEF IInv, BoardIsReviewed
<1>5. PassIsOfBoard' BY DEF IInv, PassIsOfBoard, OnMain
<1>6. StagedIsOut' BY DEF IInv, StagedIsOut, OnMain, AfterMerge, Settling, Staged, Brings
<1>7. SettlesOne' BY DEF IInv, SettlesOne, Settling
<1>8. LocalNeverAhead' BY DEF IInv, LocalNeverAhead
<1> QED BY <1>1, <1>2, <1>3, <1>4, <1>5, <1>6, <1>7, <1>8 DEF IInv

LEMMA PushFromElsewhereKeeps == ASSUME IInv, NEW b \in Branches, PushFromElsewhere(b) PROVE IInv'
<1> USE DEF PushFromElsewhere, Fresh, New, Still, refs, words, boarding, judged, cleaning, told
<1>1. TypeOK' BY DEF IInv, TypeOK, OnMain, Refs, Commits
<1>2. RefsReviewed' BY DEF IInv, RefsReviewed, Reviewed
<1>3. BaseIsOld' BY DEF IInv, BaseIsOld
<1>4. BoardIsReviewed' BY DEF IInv, BoardIsReviewed
<1>5. PassIsOfBoard' BY DEF IInv, PassIsOfBoard, OnMain
<1>6. StagedIsOut' BY DEF IInv, StagedIsOut, OnMain, AfterMerge, Settling, Staged, Brings
<1>7. SettlesOne' BY DEF IInv, SettlesOne, Settling
<1>8. LocalNeverAhead' BY DEF IInv, LocalNeverAhead
<1> QED BY <1>1, <1>2, <1>3, <1>4, <1>5, <1>6, <1>7, <1>8 DEF IInv

LEMMA WriteKeeps == ASSUME IInv, NEW r \in Report, Write(r) PROVE IInv'
<1> USE DEF Write, Still, refs, words, boarding, judged, cleaning, told
<1>1. TypeOK'
  <2>1. log' \in Seq(Report) /\ DOMAIN log \subseteq DOMAIN log'
    BY DEF IInv, TypeOK
  <2> QED BY <2>1 DEF IInv, TypeOK
<1>2. RefsReviewed' BY DEF IInv, RefsReviewed, Reviewed
<1>3. BaseIsOld' BY DEF IInv, BaseIsOld
<1>4. BoardIsReviewed' BY DEF IInv, BoardIsReviewed
<1>5. PassIsOfBoard' BY DEF IInv, PassIsOfBoard, OnMain
<1>6. StagedIsOut' BY DEF IInv, StagedIsOut, OnMain, AfterMerge, Settling, Staged, Brings
<1>7. SettlesOne' BY DEF IInv, SettlesOne, Settling
<1>8. LocalNeverAhead' BY DEF IInv, LocalNeverAhead
<1> QED BY <1>1, <1>2, <1>3, <1>4, <1>5, <1>6, <1>7, <1>8 DEF IInv

LEMMA MainMovesElsewhereKeeps == ASSUME IInv, MainMovesElsewhere PROVE IInv'
<1> USE DEF MainMovesElsewhere, Fresh, New, Still, refs, words, boarding, judged, cleaning, told
<1>1. TypeOK' BY StrangersAssumption DEF IInv, Strangers, TypeOK, OnMain, Refs, Commits
<1>2. RefsReviewed' BY StrangersAssumption DEF IInv, Strangers, RefsReviewed, Reviewed
<1>3. BaseIsOld' BY DEF IInv, BaseIsOld
<1>4. BoardIsReviewed' BY DEF IInv, BoardIsReviewed
<1>5. PassIsOfBoard' BY DEF IInv, PassIsOfBoard, OnMain
<1>6. StagedIsOut' BY DEF IInv, StagedIsOut, OnMain, AfterMerge, Settling, Staged, Brings
<1>7. SettlesOne' BY DEF IInv, SettlesOne, Settling
<1>8. LocalNeverAhead' BY StrangersAssumption DEF IInv, Strangers, LocalNeverAhead
<1> QED BY <1>1, <1>2, <1>3, <1>4, <1>5, <1>6, <1>7, <1>8 DEF IInv

LEMMA CommitOnMainKeeps == ASSUME IInv, CommitOnMain PROVE IInv'
<1> USE DEF CommitOnMain, Fresh, New, Still, refs, words, boarding, judged, cleaning, told
<1>1. TypeOK' BY StrangersAssumption DEF IInv, Strangers, TypeOK, OnMain, Refs, Commits
<1>2. RefsReviewed' BY StrangersAssumption DEF IInv, Strangers, RefsReviewed, Reviewed
<1>3. BaseIsOld' BY DEF IInv, BaseIsOld
<1>4. BoardIsReviewed' BY DEF IInv, BoardIsReviewed
<1>5. PassIsOfBoard' BY DEF IInv, PassIsOfBoard, OnMain
<1>6. StagedIsOut' BY DEF IInv, StagedIsOut, OnMain, AfterMerge, Settling, Staged, Brings
<1>7. SettlesOne' BY DEF IInv, SettlesOne, Settling
<1>8. LocalNeverAhead' BY StrangersAssumption DEF IInv, Strangers, LocalNeverAhead
<1> QED BY <1>1, <1>2, <1>3, <1>4, <1>5, <1>6, <1>7, <1>8 DEF IInv

-----------------------------------------------------------------------------
LEMMA Initially == Init => IInv
<1> SUFFICES ASSUME Init PROVE IInv OBVIOUS
<1> USE DEF Init
<1>1. TypeOK
  <2>1. PICK s \in Starts : /\ tip = s.tip /\ covered = s.covered /\ made = s.made /\ push = s.push
                            /\ log = s.log /\ runs = s.runs
    OBVIOUS
  <2>2. s \in Start BY StartsAssumption
  <2>3. /\ tip \in [Branches -> Refs] /\ covered \in [Branches -> SUBSET Refs]
        /\ made \in [Branches \cup Strangers -> Nat] /\ push \in BOOLEAN
    BY <2>1, <2>2 DEF Start
  <2>4. pinned \in [Branches -> Refs] BY DEF Nothing, Refs
  <2>5. {} \in Refs BY DEF Refs
  <2>6. log \in Seq(Report) /\ runs \in 0..MaxRuns BY <2>1, <2>2 DEF Start
  <2>7. fetched \subseteq DOMAIN log /\ seen \subseteq DOMAIN log
        /\ atPin \subseteq DOMAIN log /\ atCheck \subseteq DOMAIN log
    OBVIOUS
  <2>8. passed \in BOOLEAN /\ pc = "idle" OBVIOUS
  <2>9. copy = tip /\ main = {} /\ origin = {} /\ tracking = {} /\ base = {} /\ lease = {}
        /\ board = {} /\ tree = {} /\ todo = {} /\ cur = {} /\ done = {} /\ left = {}
    OBVIOUS
  <2> HIDE DEF Init
  <2> QED BY <2>3, <2>4, <2>5, <2>6, <2>7, <2>8, <2>9 DEF TypeOK
<1>2. RefsReviewed /\ BaseIsOld /\ BoardIsReviewed
  BY DEF RefsReviewed, Reviewed, BaseIsOld, BoardIsReviewed
<1>3. PassIsOfBoard /\ StagedIsOut /\ SettlesOne /\ LocalNeverAhead
  BY DEF PassIsOfBoard, StagedIsOut, SettlesOne, LocalNeverAhead, OnMain, AfterMerge, Settling
<1> QED BY <1>1, <1>2, <1>3 DEF IInv

LEMMA Inductive == IInv /\ [Next]_vars => IInv'
<1> SUFFICES ASSUME IInv, [Next]_vars PROVE IInv' OBVIOUS
<1>1. CASE Run
  <2>1. CASE Finish \/ Abort \/ PushRejected
    BY <2>1, EndsKeeps DEF Finish, Abort, PushRejected, OnRejection
  <2> QED
    BY <1>1, <2>1, FetchKeeps, PinKeeps, ReadReportsKeeps, BoardKeeps, JudgeKeeps, HoldCheckKeeps,
       PushKeeps, WithoutPushKeeps, MergeKeeps, MovedKeeps, SettleKeeps, ReportDoneKeeps,
       DeleteLocalKeeps, KeepLocalKeeps, DeleteCopyKeeps, RelentKeeps, KeepCopyKeeps
    DEF Run
<1>2. CASE Others
  BY <1>2, WorkKeeps, AmendKeeps, AttestKeeps, PushCopyKeeps, PushFromElsewhereKeeps,
     WriteKeeps, MainMovesElsewhereKeeps, CommitOnMainKeeps
  DEF Others
<1>3. CASE UNCHANGED vars
  <2> USE <1>3 DEF vars, refs, words, boarding, judged, cleaning, told
  <2>1. TypeOK' BY DEF IInv, TypeOK
  <2>2. RefsReviewed' /\ BaseIsOld' /\ BoardIsReviewed'
    BY DEF IInv, RefsReviewed, Reviewed, BaseIsOld, BoardIsReviewed
  <2>3. PassIsOfBoard' /\ StagedIsOut' BY DEF IInv, PassIsOfBoard, StagedIsOut, Staged, Brings
  <2>4. SettlesOne' /\ LocalNeverAhead' BY DEF IInv, SettlesOne, LocalNeverAhead
  <2> QED BY <2>1, <2>2, <2>3, <2>4 DEF IInv
<1> QED BY <1>1, <1>2, <1>3 DEF Next

(* Every reachable state is well-formed: no step leaves the types of the    *)
(* refs, the reports and the run's own variables.                           *)
THEOREM LandingTypes == Spec => []TypeOK
<1>1. IInv => TypeOK BY DEF IInv
<1> QED BY <1>1, Initially, Inductive, PTL DEF Spec

(* What reaches main, on the clone and on origin, was reviewed: the train   *)
(* merges the SHAs boarding judged (#391).                                  *)
THEOREM MainStaysReviewed == Spec => []MainIsReviewed
<1>1. IInv => MainIsReviewed BY DEF IInv, RefsReviewed, Reviewed, MainIsReviewed
<1> QED BY <1>1, Initially, Inductive, PTL DEF Spec

(* Origin first, the clone second: with a push, local main has no branch    *)
(* commit origin does not have.                                             *)
THEOREM OriginFirst == Spec => []LocalNeverAhead
<1>1. IInv => LocalNeverAhead BY DEF IInv
<1> QED BY <1>1, Initially, Inductive, PTL DEF Spec

-----------------------------------------------------------------------------
(* Steps.                                                                   *)

(* The train only ever fast-forwards origin's main.                         *)
THEOREM OriginIsFastForwarded == Spec => OriginOnlyGrows
<1>1. ASSUME [Next]_vars PROVE origin \subseteq origin'
  <2>1. CASE Push BY <2>1 DEF Push, FastForward
  <2>2. CASE MainMovesElsewhere BY <2>2 DEF MainMovesElsewhere
  <2>3. CASE UNCHANGED origin BY <2>3
  <2> QED BY <1>1, <2>1, <2>2, <2>3
      DEF Next, Run, Others, vars, refs, Fetch, Pin, ReadReports, Board, Judge, HoldCheck,
          PushRejected, OnRejection, WithoutPush, Merge, Moved, Settle, ReportDone, DeleteLocal,
          KeepLocal, DeleteCopy, Relent, KeepCopy, Finish, Abort, Ends,
          Work, Amend, Attest, PushCopy, PushFromElsewhere, Write, CommitOnMain
<1> QED BY <1>1, PTL DEF Spec, OriginOnlyGrows

(* Past the fast-forward, what boarded is on main, and on origin.           *)
LEMMA BoardedIsOut ==
    ASSUME IInv, pc \in Settling, NEW b \in board
    PROVE pinned[b] \subseteq main /\ (push => pinned[b] \subseteq origin)
<1>1. passed /\ tree = board BY DEF IInv, PassIsOfBoard, OnMain, Settling
<1>2. pinned[b] \subseteq Staged BY <1>1 DEF Staged, Brings
<1> QED BY <1>2 DEF IInv, StagedIsOut, OnMain, AfterMerge, Settling

(* `done` is told only of what is on main.                                  *)
THEOREM DoneIsOnMain == Spec => DoneIsLanded
<1> DEFINE Told == \A b \in done' \ done :
              pinned[b] \subseteq main /\ (push => pinned[b] \subseteq origin)
<1>1. ASSUME IInv, [Next]_vars PROVE Told
  <2>1. CASE ReportDone
    <3>1. pc \in Settling BY <2>1 DEF ReportDone, Settling
    <3>2. done' = done \cup cur BY <2>1 DEF ReportDone
    <3>3. cur \subseteq board BY <1>1, <3>1 DEF IInv, SettlesOne
    <3> QED BY <3>1, <3>2, <3>3, BoardedIsOut, <1>1
  <2>2. CASE UNCHANGED done BY <2>2
  <2> QED BY <1>1, <2>1, <2>2
      DEF Next, Run, Others, Still, vars, Fetch, Pin, ReadReports, Board, Judge, HoldCheck,
          Push, PushRejected, OnRejection, WithoutPush, Merge, Moved, Settle, DeleteLocal,
          KeepLocal, DeleteCopy, Relent, KeepCopy, Finish, Abort, Ends,
          Work, Amend, Attest, PushCopy, PushFromElsewhere, Write, MainMovesElsewhere, CommitOnMain
<1> QED BY <1>1, Initially, Inductive, PTL DEF Spec, DoneIsLanded

(* No branch and no copy is deleted with a commit main does not have.       *)
THEOREM DeletesLoseNothing == Spec => NothingIsLost
<1> DEFINE Kept == \A b \in Branches :
              /\ tip[b] # {} /\ tip'[b] = {} => tip[b] \subseteq main
              /\ copy[b] # {} /\ copy'[b] = {} => copy[b] \subseteq origin
<1>1. ASSUME IInv, [Next]_vars PROVE Kept
  <2>1. CASE DeleteLocal
    <3>1. pc \in Settling BY <2>1 DEF DeleteLocal, Settling
    <3>2. PICK b \in cur : tip[b] = pinned[b] /\ tip' = [tip EXCEPT ![b] = {}]
      BY <2>1 DEF DeleteLocal, AsBoarded
    <3>3. b \in board BY <1>1, <3>1 DEF IInv, SettlesOne
    <3>4. tip[b] \subseteq main BY <3>1, <3>2, <3>3, BoardedIsOut, <1>1
    <3>5. copy' = copy BY <2>1 DEF DeleteLocal
    <3> QED BY <3>2, <3>4, <3>5, <1>1 DEF IInv, TypeOK
  <2>2. CASE DeleteCopy
    <3>1. pc \in Settling /\ pc = "copy" BY <2>2 DEF DeleteCopy, Settling
    <3>2. PICK b \in cur : copy[b] = lease /\ copy' = [copy EXCEPT ![b] = {}]
      BY <2>2 DEF DeleteCopy
    <3>3. b \in board /\ push /\ lease \subseteq pinned[b]
      BY <1>1, <3>1 DEF IInv, SettlesOne
    <3>4. copy[b] \subseteq origin BY <3>1, <3>2, <3>3, BoardedIsOut, <1>1
    <3>5. tip' = tip BY <2>2 DEF DeleteCopy
    <3> QED BY <3>2, <3>4, <3>5, <1>1 DEF IInv, TypeOK
  <2>3. ASSUME NEW b \in Branches, Work(b) \/ Amend(b) \/ Attest(b) PROVE Kept
    <3>1. copy' = copy /\ tip'[b] # {} /\ \A c \in Branches \ {b} : tip'[c] = tip[c]
      BY <1>1, <2>3 DEF Work, Amend, Attest, IInv, TypeOK, refs
    <3> QED BY <3>1
  <2>4. ASSUME NEW b \in Branches, PushCopy(b) \/ PushFromElsewhere(b) PROVE Kept
    <3>1. tip' = tip /\ copy'[b] # {} /\ \A c \in Branches \ {b} : copy'[c] = copy[c]
      BY <1>1, <2>4 DEF PushCopy, PushFromElsewhere, IInv, TypeOK, refs
    <3> QED BY <3>1
  <2>5. CASE UNCHANGED <<tip, copy>> BY <2>5
  <2> QED BY <1>1, <2>1, <2>2, <2>3, <2>4, <2>5
      DEF Next, Run, Others, vars, refs, Fetch, Pin, ReadReports, Board, Judge, HoldCheck,
          Push, PushRejected, OnRejection, WithoutPush, Merge, Moved, Settle, ReportDone,
          KeepLocal, Relent, KeepCopy, Finish, Abort, Ends, Write, MainMovesElsewhere, CommitOnMain
<1> QED BY <1>1, Initially, Inductive, PTL DEF Spec, NothingIsLost

-----------------------------------------------------------------------------
(* What a held branch keeps out. The histories are those git keeps: `past`  *)
(* is what each commit reaches, and whatever holds a commit holds its past. *)
Made == {c \in Commits : c[2] <= made[c[1]]}
Closed(S, past, upto) == S \subseteq upto /\ \A c \in S : past[c] \subseteq S
Stands(S, past) == S # {} => \E c \in S : past[c] = S
Lineage(past) ==
    /\ \A c \in Made :
          /\ c \in past[c] /\ past[c] \subseteq Made
          /\ \A d \in past[c] : past[d] \subseteq past[c] /\ (c \in past[d] => d = c)
    /\ \A b \in Branches :
          /\ Closed(tip[b], past, Made) /\ Stands(tip[b], past)
          /\ Closed(pinned[b], past, Made) /\ Stands(pinned[b], past)
          /\ <<b, made[b]>> \in tip[b] => past[<<b, made[b]>>] = tip[b]
    /\ Closed(base, past, Made) /\ Closed(origin, past, Made) /\ Closed(tracking, past, Made)

HistoryInv == \E past : Lineage(past)

(* Who is aboard brings something, and nothing that has left; at the push   *)
(* nobody aboard has a word against it.                                     *)
BoardInv ==
    /\ \A b \in board \cup left : ~(pinned[b] \subseteq base)
    /\ \A h \in left, b \in board : ~(pinned[h] \subseteq pinned[b])
    /\ pc \in {"depart"} \cup OnMain =>
          /\ \A b \in board : ~Holds(b, atCheck)
          /\ \A i \in atCheck \ seen :
                log[i].state = "blocked" /\ ReadBefore(log[i].host) => log[i].worker \notin board
    /\ pc \in {"idle", "pin"} => board = {} /\ left = {}

HeldInv == IInv /\ HistoryInv /\ BoardInv

(* A new commit on top of what a ref holds.                                 *)
LEMMA OneMore ==
    ASSUME IInv, NEW who \in Branches \cup Strangers, NEW limit, Fresh(who, limit)
    PROVE /\ New(who) \in Commits /\ New(who) \notin Made
          /\ Made' = Made \cup {c \in Commits : c[1] = who /\ c[2] = made[who] + 1}
          /\ New(who) \in Made' /\ Made \subseteq Made'
          /\ \A c \in Made' : c \in Made \/ c = New(who)
          /\ made'[who] = made[who] + 1
<1>1. made \in [Branches \cup Strangers -> Nat] BY DEF IInv, TypeOK
<1>2. made' = [made EXCEPT ![who] = @ + 1] BY DEF Fresh
<1>3. made'[who] = made[who] + 1 /\ made[who] \in Nat BY <1>1, <1>2
<1>4. \A w \in (Branches \cup Strangers) \ {who} : made'[w] = made[w] BY <1>1, <1>2
<1>5. New(who) \in Commits /\ New(who)[1] = who /\ New(who)[2] = made[who] + 1 BY <1>3 DEF New, Commits
<1>6. \A c \in Commits : c[1] \in Branches \cup Strangers /\ c[2] \in Nat /\ c = <<c[1], c[2]>> BY DEF Commits
<1>7. \A c \in Commits : c[2] <= made'[c[1]] <=> c[2] <= made[c[1]] \/ (c[1] = who /\ c[2] = made[who] + 1)
  <2> SUFFICES ASSUME NEW c \in Commits
               PROVE c[2] <= made'[c[1]] <=> c[2] <= made[c[1]] \/ (c[1] = who /\ c[2] = made[who] + 1)
    OBVIOUS
  <2>1. c[2] \in Nat /\ c[1] \in Branches \cup Strangers BY <1>6
  <2>2. CASE c[1] = who BY <2>1, <2>2, <1>3
  <2>3. CASE c[1] # who BY <2>1, <2>3, <1>4
  <2> QED BY <2>2, <2>3
<1>8. New(who) \notin Made BY <1>3, <1>5 DEF Made
<1>9. Made' = Made \cup {c \in Commits : c[1] = who /\ c[2] = made[who] + 1} BY <1>7 DEF Made
<1>10. \A c \in Made' : c \in Made \/ c = New(who) BY <1>9, <1>6 DEF New
<1> QED BY <1>3, <1>5, <1>8, <1>9, <1>10

(* The lineage then: the new commit reaches S and itself.                   *)
Longer(past, n, S) == [c \in Commits |-> IF c = n THEN S \cup {n} ELSE past[c]]

LEMMA GrowsOn ==
    ASSUME IInv, NEW past, Lineage(past), NEW who \in Branches \cup Strangers, NEW limit, Fresh(who, limit),
           NEW S \in SUBSET Commits, Closed(S, past, Made), NEW n, n = New(who)
    PROVE LET after == Longer(past, n, S)
          IN /\ \A c \in Made : after[c] = past[c]
             /\ after[n] = S \cup {n}
             /\ \A c \in Made' :
                  /\ c \in after[c] /\ after[c] \subseteq Made'
                  /\ \A d \in after[c] : after[d] \subseteq after[c] /\ (c \in after[d] => d = c)
             /\ \A X : Closed(X, past, Made) => Closed(X, after, Made')
             /\ \A X : Closed(X, past, Made) /\ Stands(X, past) => Stands(X, after)
             /\ Closed(S \cup {n}, after, Made')
             /\ \A X : Closed(X, past, Made) => n \notin X
<1> DEFINE after == Longer(past, n, S)
<1>0. Made \subseteq Commits BY DEF Made
<1>1. /\ n \in Commits /\ n \notin Made /\ n \in Made' /\ Made \subseteq Made'
      /\ \A c \in Made' : c \in Made \/ c = n
  BY OneMore
<1>2. after[n] = S \cup {n} BY <1>1 DEF Longer
<1>3. \A c \in Made : after[c] = past[c] BY <1>0, <1>1 DEF Longer
<1>4. S \subseteq Made /\ \A c \in S : past[c] \subseteq S BY DEF Closed
<1>5. \A c \in Made : /\ c \in past[c] /\ past[c] \subseteq Made
                      /\ \A d \in past[c] : past[d] \subseteq past[c] /\ (c \in past[d] => d = c)
  BY DEF Lineage
<1> HIDE DEF after
<1>6. ASSUME NEW c \in Made'
      PROVE /\ c \in after[c] /\ after[c] \subseteq Made'
            /\ \A d \in after[c] : after[d] \subseteq after[c] /\ (c \in after[d] => d = c)
  <2>1. CASE c \in Made
    <3>1. after[c] = past[c] BY <2>1, <1>3
    <3>2. \A d \in after[c] : d \in Made /\ after[d] = past[d] BY <2>1, <3>1, <1>3, <1>5
    <3> QED BY <2>1, <3>1, <3>2, <1>1, <1>5
  <2>2. CASE c = n
    <3>1. after[c] = S \cup {n} BY <2>2, <1>2
    <3>2. ASSUME NEW d \in S PROVE after[d] \subseteq S /\ n \notin after[d]
      <4>1. d \in Made /\ after[d] = past[d] BY <1>3, <1>4
      <4> QED BY <4>1, <1>1, <1>4
    <3> QED BY <2>2, <3>1, <3>2, <1>1, <1>2, <1>4
  <2> QED BY <2>1, <2>2, <1>1
<1>7. ASSUME NEW X, Closed(X, past, Made)
      PROVE n \notin X /\ Closed(X, after, Made') /\ (Stands(X, past) => Stands(X, after))
  <2>1. X \subseteq Made /\ \A c \in X : after[c] = past[c] /\ past[c] \subseteq X BY <1>3, <1>7 DEF Closed
  <2> QED BY <2>1, <1>1 DEF Closed, Stands
<1>8. Closed(S \cup {n}, after, Made')
  <2>1. S \subseteq Made' /\ n \in Made' BY <1>1, <1>4
  <2>2. \A c \in S : after[c] = past[c] /\ past[c] \subseteq S BY <1>3, <1>4
  <2>3. \A c \in S \cup {n} : after[c] \subseteq S \cup {n} BY <2>2, <1>2
  <2> QED BY <2>1, <2>3 DEF Closed
<1> QED BY <1>2, <1>3, <1>6, <1>7, <1>8 DEF after

(* The lineage of refs that move where others stand, or go.                 *)
LEMMA SameLineage ==
    ASSUME IInv, NEW past, Lineage(past), made' = made,
           \A b \in Branches : tip'[b] \in {tip[b], {}},
           \A b \in Branches : pinned'[b] \in {pinned[b], tip[b], {}},
           base' \in {base, tracking, {}}, origin' \in {origin, Staged},
           tracking' \in {tracking, origin, Staged}
    PROVE Lineage(past)'
<1>1. Made' = Made BY DEF Made
<1>2. \A X : Closed(X, past, Made') <=> Closed(X, past, Made) BY <1>1 DEF Closed
<1>3. Closed({}, past, Made) /\ Stands({}, past) BY DEF Closed, Stands
<1>4. Closed(Staged, past, Made)
  <2>1. tree \subseteq Branches BY DEF IInv, TypeOK
  <2>2. \A b \in tree : Closed(pinned[b], past, Made) BY <2>1 DEF Lineage
  <2>3. Closed(base, past, Made) BY DEF Lineage
  <2> QED BY <2>2, <2>3 DEF Staged, Brings, Closed
<1>5. \A b \in Branches : Closed(tip'[b], past, Made) /\ Stands(tip'[b], past)
  BY <1>3 DEF Lineage
<1>6. \A b \in Branches : Closed(pinned'[b], past, Made) /\ Stands(pinned'[b], past)
  BY <1>3 DEF Lineage
<1>7. Closed(base', past, Made) /\ Closed(origin', past, Made) /\ Closed(tracking', past, Made)
  BY <1>3, <1>4 DEF Lineage
<1>8. \A b \in Branches : <<b, made[b]>> \in tip'[b] => past[<<b, made[b]>>] = tip'[b]
  BY DEF Lineage
<1>9. \A b \in Branches : Closed(tip'[b], past, Made') /\ Closed(pinned'[b], past, Made')
  BY <1>1, <1>5, <1>6 DEF Closed
<1>10. Closed(base', past, Made') /\ Closed(origin', past, Made') /\ Closed(tracking', past, Made')
  BY <1>1, <1>7 DEF Closed
<1>11. \A c \in Made : /\ c \in past[c] /\ past[c] \subseteq Made
                       /\ \A d \in past[c] : past[d] \subseteq past[c] /\ (c \in past[d] => d = c)
  BY DEF Lineage
<1> HIDE DEF Closed
<1> QED BY <1>1, <1>5, <1>6, <1>8, <1>9, <1>10, <1>11 DEF Lineage, Stands

(* A commit on a branch, on top of what the branch keeps.                   *)
LEMMA TipGrows ==
    ASSUME IInv, HistoryInv, NEW b \in Branches, NEW limit, Fresh(b, limit),
           NEW S \in SUBSET Commits, \A past : Lineage(past) => Closed(S, past, Made),
           tip' = [tip EXCEPT ![b] = S \cup {New(b)}],
           pinned' = pinned, base' = base, origin' = origin, tracking' = tracking
    PROVE HistoryInv'
<1>1. PICK past : Lineage(past) BY DEF HistoryInv
<1>2. PICK n : n = New(b) OBVIOUS
<1> DEFINE after == Longer(past, n, S)
<1>3. /\ \A c \in Made : after[c] = past[c]
      /\ after[n] = S \cup {n}
      /\ \A c \in Made' :
           /\ c \in after[c] /\ after[c] \subseteq Made'
           /\ \A d \in after[c] : after[d] \subseteq after[c] /\ (c \in after[d] => d = c)
      /\ \A X : Closed(X, past, Made) => Closed(X, after, Made')
      /\ \A X : Closed(X, past, Made) /\ Stands(X, past) => Stands(X, after)
      /\ Closed(S \cup {n}, after, Made')
      /\ \A X : Closed(X, past, Made) => n \notin X
  BY <1>1, <1>2, GrowsOn
<1> HIDE DEF after
<1>4. \A x \in Branches : tip'[x] = IF x = b THEN S \cup {n} ELSE tip[x]
  BY <1>2 DEF IInv, TypeOK
<1>5. \A x \in Branches : made'[x] = IF x = b THEN made[b] + 1 ELSE made[x]
  BY DEF Fresh, IInv, TypeOK
<1>6. Made \subseteq Made' BY OneMore
<1>7. \A x \in Branches : Closed(tip'[x], after, Made') /\ Stands(tip'[x], after)
  <2>1. \A x \in Branches : Closed(tip[x], past, Made) /\ Stands(tip[x], past) BY <1>1 DEF Lineage
  <2>2. Stands(S \cup {n}, after) BY <1>3 DEF Stands
  <2> QED BY <2>1, <2>2, <1>3, <1>4
<1>8. \A x \in Branches : Closed(pinned[x], after, Made') /\ Stands(pinned[x], after)
  BY <1>1, <1>3 DEF Lineage
<1>9. Closed(base, after, Made') /\ Closed(origin, after, Made') /\ Closed(tracking, after, Made')
  BY <1>1, <1>3 DEF Lineage
<1>10. ASSUME NEW x \in Branches, <<x, made'[x]>> \in tip'[x]
       PROVE after[<<x, made'[x]>>] = tip'[x]
  <2>1. CASE x = b
    <3>1. <<x, made'[x]>> = n BY <2>1, <1>2, <1>5 DEF New
    <3> QED BY <3>1, <2>1, <1>3, <1>4
  <2>2. CASE x # b
    <3>1. <<x, made[x]>> \in tip[x] /\ tip'[x] = tip[x] /\ made'[x] = made[x] BY <2>2, <1>10, <1>4, <1>5
    <3>2. past[<<x, made[x]>>] = tip[x] /\ tip[x] \subseteq Made BY <1>1, <3>1 DEF Lineage, Closed
    <3> QED BY <3>1, <3>2, <1>3
  <2> QED BY <2>1, <2>2
<1>11. Lineage(after)'
  BY <1>3, <1>7, <1>8, <1>9, <1>10 DEF Lineage, Stands
<1> QED BY <1>11 DEF HistoryInv

(* A commit elsewhere: on a branch's copy, on main here, on origin's main.  *)
LEMMA ElsewhereGrows ==
    ASSUME IInv, HistoryInv, NEW who \in Branches \cup Strangers, NEW limit, Fresh(who, limit),
           origin' \in {origin, origin \cup {New(who)}},
           tip' = tip, pinned' = pinned, base' = base, tracking' = tracking
    PROVE HistoryInv'
<1>1. PICK past : Lineage(past) BY DEF HistoryInv
<1>2. PICK n : n = New(who) OBVIOUS
<1>3. PICK S : S = origin OBVIOUS
<1>4. S \in SUBSET Commits /\ Closed(S, past, Made) BY <1>1, <1>3 DEF IInv, TypeOK, Refs, Lineage
<1> DEFINE after == Longer(past, n, S)
<1>5. /\ \A c \in Made : after[c] = past[c]
      /\ \A c \in Made' :
           /\ c \in after[c] /\ after[c] \subseteq Made'
           /\ \A d \in after[c] : after[d] \subseteq after[c] /\ (c \in after[d] => d = c)
      /\ \A X : Closed(X, past, Made) => Closed(X, after, Made')
      /\ \A X : Closed(X, past, Made) /\ Stands(X, past) => Stands(X, after)
      /\ Closed(S \cup {n}, after, Made')
      /\ \A X : Closed(X, past, Made) => n \notin X
  BY <1>1, <1>2, <1>4, GrowsOn
<1> HIDE DEF after
<1>6. \A x \in Branches : x # who => made'[x] = made[x]
  BY DEF Fresh, IInv, TypeOK
<1>7. who \in Branches => <<who, made'[who]>> = n BY <1>2, OneMore DEF New
<1>8. \A x \in Branches : /\ Closed(tip[x], after, Made') /\ Stands(tip[x], after)
                          /\ Closed(pinned[x], after, Made') /\ Stands(pinned[x], after)
  BY <1>1, <1>5 DEF Lineage
<1>9. Closed(base, after, Made') /\ Closed(origin', after, Made') /\ Closed(tracking, after, Made')
  BY <1>1, <1>2, <1>3, <1>5 DEF Lineage
<1>10. ASSUME NEW x \in Branches, <<x, made'[x]>> \in tip[x]
       PROVE after[<<x, made'[x]>>] = tip[x]
  <2>1. Closed(tip[x], past, Made) BY <1>1 DEF Lineage
  <2>2. x # who BY <2>1, <1>5, <1>7, <1>10
  <2>3. past[<<x, made[x]>>] = tip[x] /\ tip[x] \subseteq Made BY <1>1, <1>6, <1>10, <2>2 DEF Lineage, Closed
  <2> QED BY <2>2, <2>3, <1>5, <1>6, <1>10
<1>11. Lineage(after)'
  BY <1>5, <1>8, <1>9, <1>10 DEF Lineage, Stands
<1> QED BY <1>11 DEF HistoryInv

LEMMA HistoryKept == ASSUME IInv, HistoryInv, [Next]_vars PROVE HistoryInv'
<1>1. CASE made' = made /\ ~\E b \in Branches : Work(b) \/ Amend(b) \/ Attest(b)
  <2>1. PICK past : Lineage(past) BY DEF HistoryInv
  <2>2. \A b \in Branches : tip'[b] \in {tip[b], {}}
    <3>1. tip' = tip \/ \E b \in Branches : tip' = [tip EXCEPT ![b] = {}]
      <4>1. CASE DeleteLocal
        <5>1. cur \subseteq Branches BY DEF IInv, TypeOK
        <5> QED BY <4>1, <5>1 DEF DeleteLocal
      <4> QED BY <1>1, <4>1
        DEF Next, Run, Others, vars, refs, Fetch, Pin, ReadReports, Board, Judge, HoldCheck, Push, PushRejected,
            OnRejection, WithoutPush, Merge, Moved, Settle, ReportDone, KeepLocal, DeleteCopy,
            Relent, KeepCopy, Finish, Abort, Ends, PushCopy, PushFromElsewhere, Write,
            MainMovesElsewhere, CommitOnMain
    <3> QED BY <3>1 DEF IInv, TypeOK
  <2>3. \A b \in Branches : pinned'[b] \in {pinned[b], tip[b], {}}
    <3>1. pinned' \in {pinned, tip, Nothing}
      BY <1>1 DEF Next, Run, Others, Still, vars, boarding, Fetch, Pin, ReadReports, Board, Judge, HoldCheck,
            Push, PushRejected, OnRejection, WithoutPush, Merge, Moved, Settle, ReportDone, DeleteLocal,
            KeepLocal, DeleteCopy, Relent, KeepCopy, Finish, Abort, Ends, PushCopy,
            PushFromElsewhere, Write, MainMovesElsewhere, CommitOnMain
    <3> QED BY <3>1 DEF Nothing
  <2>4. base' \in {base, tracking, {}}
      BY <1>1 DEF Next, Run, Others, Still, vars, boarding, Fetch, Pin, ReadReports, Board, Judge, HoldCheck,
            Push, PushRejected, OnRejection, WithoutPush, Merge, Moved, Settle, ReportDone, DeleteLocal,
            KeepLocal, DeleteCopy, Relent, KeepCopy, Finish, Abort, Ends, PushCopy,
            PushFromElsewhere, Write, MainMovesElsewhere, CommitOnMain
  <2>5. ~MainMovesElsewhere /\ \A b \in Branches : ~PushFromElsewhere(b)
    <3> SUFFICES ASSUME NEW who \in Branches \cup Strangers, NEW limit, Fresh(who, limit) PROVE FALSE
      BY DEF MainMovesElsewhere, PushFromElsewhere, Strangers
    <3> QED BY <1>1 DEF Fresh, IInv, TypeOK
  <2>6. origin' \in {origin, Staged} /\ tracking' \in {tracking, origin, Staged}
      BY <1>1, <2>5 DEF Next, Run, Others, vars, refs, Fetch, Pin, ReadReports, Board, Judge, HoldCheck,
            Push, PushRejected, OnRejection, WithoutPush, Merge, Moved, Settle, ReportDone, DeleteLocal,
            KeepLocal, DeleteCopy, Relent, KeepCopy, Finish, Abort, Ends, PushCopy,
            Write, CommitOnMain
  <2>7. Lineage(past)' BY <1>1, <2>1, <2>2, <2>3, <2>4, <2>6, SameLineage
  <2> QED BY <2>7 DEF HistoryInv
<1>2. ASSUME NEW b \in Branches, Work(b) \/ Attest(b) PROVE HistoryInv'
  <2>1. PICK limit : Fresh(b, limit) BY <1>2 DEF Work, Attest
  <2>2. /\ tip' = [tip EXCEPT ![b] = tip[b] \cup {New(b)}]
        /\ pinned' = pinned /\ base' = base /\ origin' = origin /\ tracking' = tracking
    BY <1>2 DEF Work, Attest, Still, boarding
  <2>3. tip[b] \in SUBSET Commits /\ \A past : Lineage(past) => Closed(tip[b], past, Made)
    BY DEF IInv, TypeOK, Refs, Lineage
  <2> QED BY <2>1, <2>2, <2>3, TipGrows
<1>3. ASSUME NEW b \in Branches, Amend(b) PROVE HistoryInv'
  <2>1. PICK old : old = <<b, made[b]>> OBVIOUS
  <2>2. PICK S : S = tip[b] \ {old} OBVIOUS
  <2>3. /\ old \in tip[b] /\ Fresh(b, MaxCommits)
        /\ tip' = [tip EXCEPT ![b] = S \cup {New(b)}]
        /\ pinned' = pinned /\ base' = base /\ origin' = origin /\ tracking' = tracking
    BY <1>3, <2>1, <2>2 DEF Amend, Still, boarding
  <2>4. S \in SUBSET Commits BY <2>2 DEF IInv, TypeOK, Refs
  <2>5. ASSUME NEW past, Lineage(past) PROVE Closed(S, past, Made)
    <3>1. Closed(tip[b], past, Made) /\ past[old] = tip[b] BY <2>1, <2>3, <2>5 DEF Lineage
    <3>2. ASSUME NEW c \in S PROVE old \notin past[c]
      <4>1. c \in Made /\ c # old /\ c \in past[old] BY <2>2, <3>1 DEF Closed
      <4> QED BY <4>1, <2>5 DEF Lineage
    <3> QED BY <2>2, <3>1, <3>2 DEF Closed
  <2> QED BY <2>3, <2>4, <2>5, TipGrows
<1>4. ASSUME NEW b \in Branches, PushFromElsewhere(b) PROVE HistoryInv'
  BY <1>4, ElsewhereGrows DEF PushFromElsewhere, Still, boarding
<1>5. CASE MainMovesElsewhere \/ CommitOnMain
  <2>1. PICK who \in Strangers : \E limit : Fresh(who, limit) /\ origin' \in {origin, origin \cup {New(who)}}
    BY <1>5 DEF MainMovesElsewhere, CommitOnMain, Strangers
  <2>2. tip' = tip /\ pinned' = pinned /\ base' = base /\ tracking' = tracking
    BY <1>5 DEF MainMovesElsewhere, CommitOnMain, Still, boarding
  <2>3. PICK limit : Fresh(who, limit) /\ origin' \in {origin, origin \cup {New(who)}} BY <2>1
  <2> QED BY <2>2, <2>3, ElsewhereGrows
<1>6. CASE Run \/ UNCHANGED vars
  <2>1. made' = made
    BY <1>6 DEF Run, vars, refs, Fetch, Pin, ReadReports, Board, Judge, HoldCheck, Push, PushRejected,
        OnRejection, WithoutPush, Merge, Moved, Settle, ReportDone, DeleteLocal, KeepLocal, DeleteCopy,
        Relent, KeepCopy, Finish, Abort, Ends
  <2> QED BY <2>1, <1>1, <1>2, <1>3
<1>7. ASSUME NEW b \in Branches, PushCopy(b) PROVE HistoryInv'
  <2>1. made' = made BY <1>7 DEF PushCopy
  <2> QED BY <2>1, <1>1, <1>2, <1>3
<1>8. ASSUME NEW r \in Report, Write(r) PROVE HistoryInv'
  <2>1. made' = made BY <1>8 DEF Write, refs
  <2> QED BY <2>1, <1>1, <1>2, <1>3
<1> QED BY <1>2, <1>3, <1>4, <1>5, <1>6, <1>7, <1>8 DEF Next, Others

LEMMA HistoryInitially == Init => HistoryInv
<1> SUFFICES ASSUME Init PROVE HistoryInv OBVIOUS
<1>1. PICK s \in Starts : tip = s.tip /\ made = s.made BY DEF Init
<1>2. PICK known \in [Begun(s) -> SUBSET Begun(s)] : Descends(s, known) BY HistoryAssumption
<1>3. PICK past : past = [c \in Commits |-> IF c \in Begun(s) THEN known[c] ELSE {c}] OBVIOUS
<1>4. TypeOK BY Initially DEF IInv
<1>5. Begun(s) \subseteq Commits /\ \A b \in Branches : tip[b] \subseteq Begun(s)
  BY <1>1, <1>4 DEF Begun, TypeOK, Refs
<1>6. Begun(s) \subseteq Made BY <1>1, <1>2, <1>5 DEF Made, Descends
<1>7. \A c \in Begun(s) : past[c] = known[c] /\ known[c] \subseteq Begun(s) BY <1>2, <1>3, <1>5
<1>8. \A c \in Made \ Begun(s) : past[c] = {c} BY <1>3 DEF Made
<1>9. \A c \in Made : /\ c \in past[c] /\ past[c] \subseteq Made
                      /\ \A d \in past[c] : past[d] \subseteq past[c] /\ (c \in past[d] => d = c)
  BY <1>2, <1>6, <1>7, <1>8 DEF Descends
<1>10. ASSUME NEW b \in Branches
       PROVE /\ Closed(tip[b], past, Made) /\ Stands(tip[b], past)
             /\ <<b, made[b]>> \in tip[b] => past[<<b, made[b]>>] = tip[b]
  <2>1. tip[b] # {} => \E c \in tip[b] : past[c] = tip[b] BY <1>1, <1>2, <1>5, <1>7 DEF Descends
  <2>2. \A c \in tip[b] : past[c] \subseteq tip[b]
    <3>1. ASSUME NEW c \in tip[b] PROVE past[c] \subseteq tip[b]
      <4>1. PICK t \in tip[b] : past[t] = tip[b] BY <2>1
      <4> QED BY <4>1, <1>5, <1>6, <1>9
    <3> QED BY <3>1
  <2>3. <<b, made[b]>> \in tip[b] => past[<<b, made[b]>>] = tip[b]
    BY <1>1, <1>2, <1>5, <1>7 DEF Descends
  <2> QED BY <2>1, <2>2, <2>3, <1>5, <1>6 DEF Closed, Stands
<1>11. /\ \A b \in Branches : pinned[b] = {} 
       /\ base = {} /\ origin = {} /\ tracking = {}
  BY DEF Init, Nothing
<1>12. Closed({}, past, Made) /\ Stands({}, past) BY DEF Closed, Stands
<1>13. Lineage(past) BY <1>9, <1>10, <1>11, <1>12 DEF Lineage
<1> QED BY <1>13 DEF HistoryInv

(* A check that finds no word against anybody aboard, or sends home whoever *)
(* has one and whoever contains its tip.                                    *)
LEMMA CheckHolds == ASSUME IInv, BoardInv, HoldCheck PROVE BoardInv'
<1> USE DEF HoldCheck, OnMain
<1>1. /\ pinned' = pinned /\ base' = base /\ seen' = seen /\ log' = log
      /\ fetched' \in {fetched, DOMAIN log} /\ atCheck' = Known'
  BY DEF boarding
<1>2. PICK off : off = AllLeave({b \in board : HeldSince(b, Known')}) OBVIOUS
<1>3. /\ left' = left \cup off
      /\ off = {} => pc' = "depart" /\ board' = board
      /\ off # {} => board' = board \ off /\ pc' = "judge"
  BY <1>2 DEF judged
<1>4. off \subseteq board /\ {b \in board : HeldSince(b, Known')} \subseteq off BY <1>2 DEF AllLeave
<1>5. \A b \in board' \cup left' : ~(pinned'[b] \subseteq base')
  BY <1>1, <1>3, <1>4 DEF BoardInv
<1>6. ASSUME NEW h \in left', NEW b \in board' PROVE ~(pinned'[h] \subseteq pinned'[b])
  <2>1. CASE h \in left BY <2>1, <1>1, <1>3, <1>6 DEF BoardInv
  <2>2. CASE h \in off
    <3>1. PICK d \in {x \in board : HeldSince(x, Known')} : pinned[d] \subseteq pinned[h]
      BY <2>2, <1>2 DEF AllLeave
    <3>2. b \in board /\ b \notin off BY <1>3, <1>6, <2>2
    <3>3. ~(pinned[d] \subseteq pinned[b]) BY <3>1, <3>2, <1>2 DEF AllLeave
    <3> QED BY <1>1, <3>1, <3>3
  <2> QED BY <2>1, <2>2, <1>3
<1>7. ASSUME pc' = "depart"
      PROVE /\ \A b \in board' : ~Holds(b, atCheck)'
            /\ \A i \in atCheck' \ seen' :
                  log'[i].state = "blocked" /\ ReadBefore(log[i].host)' => log'[i].worker \notin board'
  <2>1. off = {} /\ board' = board BY <1>3, <1>7
  <2>2. \A b \in board : ~HeldSince(b, Known') BY <2>1, <1>4
  <2>3. \A b \in board : ~Holds(b, Known') BY <2>2 DEF HeldSince
  <2>4. \A b, known : Holds(b, known)' <=> Holds(b, known) BY <1>1 DEF Holds, Of
  <2>5. \A host : ReadBefore(host)' <=> ReadBefore(host) BY <1>1 DEF ReadBefore
  <2>6. \A b : Holds(b, atCheck)' <=> Holds(b, Known') BY <1>1 DEF Holds, Of
  <2>7. ASSUME NEW i \in Known' \ seen, log[i].state = "blocked", ReadBefore(log[i].host), log[i].worker \in board
        PROVE FALSE
    <3>1. ~HeldSince(log[i].worker, Known') BY <2>2, <2>7
    <3> QED BY <3>1, <2>7 DEF HeldSince, Of
  <2> QED BY <1>1, <2>1, <2>3, <2>5, <2>6, <2>7
<1>8. pc' \in {"depart", "judge"} BY <1>3
<1> QED BY <1>5, <1>6, <1>7, <1>8 DEF BoardInv

LEMMA BoardKept == ASSUME IInv, BoardInv, [Next]_vars PROVE BoardInv'
<1>1. CASE HoldCheck BY <1>1, CheckHolds
<1>2. CASE Ends BY <1>2 DEF Ends, BoardInv, OnMain
<1>3. CASE Pin
  <2>1. pc' = "read" /\ left' = {} /\ \A b \in board' : ~(pinned'[b] \subseteq base')
    BY <1>3 DEF Pin
  <2> QED BY <2>1 DEF BoardInv, OnMain
<1>4. CASE Fetch
  <2>1. pc = "idle" /\ pc' = "pin" /\ board' = board /\ left' = left /\ pinned' = pinned /\ base' = base
    BY <1>4 DEF Fetch, boarding, judged, told
  <2> QED BY <2>1 DEF BoardInv, OnMain
<1>5. CASE ReadReports \/ Board \/ Judge
  <2>1. /\ pc' \in {"board", "judge", "check"} /\ board' \subseteq board /\ left' = left
        /\ pinned' = pinned /\ base' = base
    BY <1>5 DEF ReadReports, Board, Judge, J!Pass, boarding, judged, told
  <2> QED BY <2>1 DEF BoardInv, OnMain
<1>6. CASE \/ /\ pc' = pc \/ {pc, pc'} \subseteq {"depart"} \cup OnMain
              /\ UNCHANGED <<board, left, pinned, base, seen, atCheck, log>>
  <2>1. board' = board /\ left' = left /\ pinned' = pinned /\ base' = base /\ seen' = seen
        /\ atCheck' = atCheck /\ log' = log
    BY <1>6
  <2>2. /\ pc' \in {"depart"} \cup OnMain => pc \in {"depart"} \cup OnMain
        /\ pc' \in {"idle", "pin"} => pc \in {"idle", "pin"}
    BY <1>6 DEF OnMain
  <2>3. /\ \A b \in board : Holds(b, atCheck)' <=> Holds(b, atCheck)
        /\ \A i \in atCheck : ReadBefore(log[i].host)' <=> ReadBefore(log[i].host)
    BY <2>1 DEF Holds, Of, ReadBefore
  <2> QED BY <2>1, <2>2, <2>3 DEF BoardInv, OnMain
<1>7. CASE Push \/ WithoutPush \/ Merge \/ Moved \/ Settle \/ ReportDone \/ DeleteLocal \/ KeepLocal
           \/ DeleteCopy \/ Relent \/ KeepCopy
  <2>1. /\ {pc, pc'} \subseteq {"depart"} \cup OnMain
        /\ UNCHANGED <<board, left, pinned, base, seen, atCheck, log>>
    BY <1>7 DEF Push, Departs, WithoutPush, Merge, Moved, Settle, Next1, ReportDone, DeleteLocal, KeepLocal,
       DeleteCopy, Relent, KeepCopy, words, boarding, judged, told, OnMain
  <2> QED BY <2>1, <1>6
<1>8. ASSUME NEW r \in Report, Write(r) PROVE BoardInv'
  <2>1. /\ log' = Append(log, r)
        /\ UNCHANGED <<pc, board, left, pinned, base, seen, atCheck>>
    BY <1>8 DEF Write, Still, boarding, judged, told
  <2>2. board \subseteq Branches /\ atCheck \subseteq DOMAIN log /\ log \in Seq(Report)
    BY DEF IInv, TypeOK
  <2>3. \A b \in board : Holds(b, atCheck)' <=> Holds(b, atCheck)
    <3>1. \A b \in board : Holds(b, atCheck)' <=> (\E i \in {j \in atCheck : log'[j].worker = b} :
             log'[i].state = "blocked" /\ \A j \in {k \in atCheck : log'[k].worker = b} : j <= i)
      BY <2>1 DEF Holds, Of
    <3>2. \A i \in atCheck : log'[i] = log[i] BY <2>1, <2>2
    <3>3. \A b \in board : {j \in atCheck : log'[j].worker = b} = {j \in atCheck : log[j].worker = b}
      BY <3>2
    <3> QED BY <3>1, <3>2, <3>3 DEF Holds, Of
  <2>4. \A i \in atCheck : log'[i] = log[i] /\ (ReadBefore(log[i].host)' <=> ReadBefore(log[i].host))
    <3>1. \A i \in atCheck : log'[i] = log[i] BY <2>1, <2>2
    <3>2. \A j \in seen : log'[j] = log[j]
      <4>1. seen \subseteq DOMAIN log BY DEF IInv, TypeOK
      <4> QED BY <4>1, <2>1, <2>2
    <3> QED BY <3>1, <3>2, <2>1 DEF ReadBefore
  <2> QED BY <2>1, <2>3, <2>4 DEF BoardInv, OnMain
<1>9. CASE (Others /\ ~\E r \in Report : Write(r)) \/ UNCHANGED vars
  <2>1. pc' = pc /\ UNCHANGED <<board, left, pinned, base, seen, atCheck, log>>
    BY <1>9 DEF Others, Work, Amend, Attest, PushCopy, PushFromElsewhere, MainMovesElsewhere, CommitOnMain,
       Still, vars, words, boarding, judged, told
  <2> QED BY <2>1, <1>6
<1> QED BY <1>1, <1>2, <1>3, <1>4, <1>5, <1>7, <1>8, <1>9
    DEF Next, Run, Others, Finish, Abort, PushRejected, OnRejection

(* Who lands has no word against it that the run could have read, and what  *)
(* left for one lands with nobody - not even in pieces.                     *)
THEOREM HeldStayOut == Spec => []HeldTipsStayOut
<1>1. Init => HeldInv
  <2>1. Init => BoardInv BY DEF Init, BoardInv, OnMain
  <2> QED BY <2>1, Initially, HistoryInitially DEF HeldInv
<1>2. HeldInv /\ [Next]_vars => HeldInv' BY Inductive, HistoryKept, BoardKept DEF HeldInv
<1>3. HeldInv => HeldTipsStayOut
  <2> SUFFICES ASSUME HeldInv, pc \in OnMain, NEW h \in left, pinned[h] \subseteq Staged PROVE FALSE
    BY DEF HeldTipsStayOut, HeldInv, BoardInv
  <2>1. PICK past : Lineage(past) BY DEF HeldInv, HistoryInv
  <2>2. tree = board BY DEF HeldInv, IInv, PassIsOfBoard
  <2>3. board \subseteq Branches /\ left \subseteq Branches BY DEF HeldInv, IInv, TypeOK
  <2>4. ~(pinned[h] \subseteq base) BY DEF HeldInv, BoardInv
  <2>5. PICK c \in pinned[h] : past[c] = pinned[h] BY <2>1, <2>3, <2>4 DEF Lineage, Stands
  <2>6. CASE c \in base BY <2>1, <2>4, <2>5, <2>6 DEF Lineage, Closed
  <2>7. ASSUME NEW b \in board, c \in pinned[b] PROVE FALSE
    <3>1. pinned[h] \subseteq pinned[b] BY <2>1, <2>3, <2>5, <2>7 DEF Lineage, Closed
    <3> QED BY <3>1 DEF HeldInv, BoardInv
  <2> QED BY <2>2, <2>5, <2>6, <2>7 DEF Staged, Brings
<1> QED BY <1>1, <1>2, <1>3, PTL DEF Spec
=============================================================================
