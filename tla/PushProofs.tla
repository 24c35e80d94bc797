----------------------------- MODULE PushProofs -----------------------------
(***************************************************************************)
(* What holds of pushes and certificates for any parts, stories and        *)
(* settings, however often the user moves. A push under way carries what   *)
(* the guard decided, and the log has the lines of it; a certifying run    *)
(* whose tree was clean knows by the worktree alone whether anybody        *)
(* touched what it tests; and nobody else writes the `stages` file while a *)
(* merge suite is on. On these, what a stamp and a push that lands show of *)
(* the code: a push that was still has its own head fixed over its own     *)
(* base, and runs, finds certified or finds stamped all that it touched.   *)
(***************************************************************************)
EXTENDS Push, TLAPS

Commits == [code : Codes, book : {"clear", "block"}, n : Int]

Asked == {"at", "call", "sha", "on", "saw", "still"}
Fixed == Asked \cup {"head", "cfg", "class", "scope", "over", "parts", "owed", "start", "mixed"}
Early == {"asked", "checked"}
Late == {"fixed", "spared", "testing", "ran", "passed"}

HeadOK ==
    /\ head \in Commits
    /\ base \in Seq(Commits) /\ main \in Seq(Commits) /\ base # <<>> /\ main # <<>>
    /\ work \in Codes

PushOK ==
    push = Idle \/ /\ push.at \in Early \cup Late
                   /\ DOMAIN push = IF push.at \in Early THEN Asked ELSE Fixed
                   /\ push.call \in Call
                   /\ push.sha \in Commits
                   /\ push.on \in Seq(Commits) /\ push.saw \in Seq(Commits)

Test == [at : {"testing"}, class : {"merge", "branch"}, before : SUBSET Codes,
         cfg : SUBSET Parts, start : Codes, mixed : BOOLEAN, parts : SUBSET Parts]

TestOK == test = Idle \/ test \in Test

ShapeOK ==
    /\ story \in Story
    /\ HeadOK
    /\ cfg \in SUBSET Parts /\ extra \in SUBSET Parts /\ stages \in SUBSET Parts
    /\ count \in Int
    /\ PushOK /\ TestOK

(* What the guard let through stands in the log.                            *)
OnRecord ==
    push # Idle /\ "main" \in push.call.to =>
        /\ push.call.phases \subseteq {"execute"}
        /\ ~push.call.route /\ "gates" \notin push.call.skips => In("override")
        /\ "gates" \in push.call.skips => In("bypass")
        /\ push.sha.book = "block" => In("bypass")
        /\ ~IsPrefix(push.saw, push.on) => In("override") /\ Last(push.saw).book # "block"

(* The tree a run can certify is the one it started from, and the worktree  *)
(* holds it still unless somebody touched it; a merge suite's `stages` file *)
(* names what it runs, or nothing.                                          *)
RunInv ==
    test # Idle =>
        /\ test.before # {} =>
              /\ test.before = {test.start}
              /\ test.mixed <=> work # test.start
        /\ test.class = "merge" => stages = {} \/ stages = test.parts

Inv == ShapeOK /\ OnRecord /\ RunInv /\ CertificatesHold

-----------------------------------------------------------------------------
LEMMA LongerToo ==
    ASSUME NEW S, NEW s \in Seq(S), NEW t \in Seq(S), NEW x \in S, IsPrefix(s, t)
    PROVE  IsPrefix(s, Append(t, x))
  BY DEF IsPrefix

LEMMA StoryGoesOn ==
    ASSUME story \in Story,
           \/ story' = story
           \/ story.calls # <<>> /\ story' = [story EXCEPT !.calls = Tail(@)]
           \/ story.runs > 0 /\ story' = [story EXCEPT !.runs = @ - 1]
           \/ story.moves > 0 /\ story' = [story EXCEPT !.moves = @ - 1]
    PROVE  story' \in Story /\ story'.bad = story.bad
  BY DEF Story

(* What is on record stays there, whatever a step adds to the log.          *)
LEMMA LogGrows ==
    ASSUME OnRecord, ledger \subseteq ledger',
           \/ push' = Idle
           \/ /\ push # Idle
              /\ push'.call = push.call /\ push'.sha = push.sha
              /\ push'.on = push.on /\ push'.saw = push.saw
           \/ push' = push
    PROVE  OnRecord'
  BY DEF OnRecord, In, Idle

LEMMA InitKeeps == Init => Inv
  <1> SUFFICES ASSUME Init PROVE Inv
    OBVIOUS
  <1> USE DEF Init
  <1>1. Old \in Codes
    BY DEF Old, Codes
  <1>2. /\ Commit(Old, "clear", 0) \in Commits
        /\ \A c \in Codes : Commit(c, "clear", 1) \in Commits
    BY <1>1 DEF Commit, Commits
  <1>3. HeadOK
    BY <1>2 DEF HeadOK, Commit, Commits
  <1>4. story \in Story
    BY StoriesAssumption
  <1>5. PushOK /\ TestOK /\ OnRecord /\ RunInv
    BY DEF PushOK, TestOK, OnRecord, RunInv
  <1>6. CertificatesHold
    BY DEF CertificatesHold
  <1> QED
    BY <1>3, <1>4, <1>5, <1>6 DEF Inv, ShapeOK

-----------------------------------------------------------------------------
(* The frame.                                                               *)

LEMMA AskKeeps == ASSUME Inv, Ask PROVE Inv'
  <1> USE DEF Inv, ShapeOK, Ask, checkout, settings, memory
  <1> DEFINE c == Head(story.calls)
  <1>1. story.calls \in Seq(Call) /\ c \in Call
    BY DEF Story
  <1>2. story' \in Story /\ bad' = bad
    BY StoryGoesOn DEF bad
  <1>3. HeadOK' /\ TestOK' /\ RunInv'
    BY DEF HeadOK, TestOK, RunInv
  <1>4. CertificatesHold'
    BY <1>2 DEF CertificatesHold
  <1>5. CASE Guard(c)
    <2>1. /\ push' = [at |-> "asked", call |-> c, sha |-> head, on |-> base, saw |-> main,
                      still |-> Clean]
          /\ ledger' = ledger \cup Lines(IF Class(c) = "merge" THEN Entries(c) ELSE {}, head)
      BY <1>5
    <2>2. PushOK'
      BY <1>1, <2>1 DEF PushOK, HeadOK, Asked, Early
    <2>3. ASSUME "main" \in c.to
          PROVE  /\ MayGo(c) /\ MayUpdate(c) /\ MayCarry(c)
                 /\ \A k \in Entries(c) : [kind |-> k, sha |-> head] \in ledger'
      BY <1>5, <2>1, <2>3 DEF Guard, Class, Lines
    <2>4. ASSUME "main" \in c.to
          PROVE  /\ c.phases \subseteq {"execute"}
                 /\ "gates" \in c.skips => "bypass" \in Entries(c)
                 /\ ~c.route /\ "gates" \notin c.skips => "override" \in Entries(c)
                 /\ head.book = "block" => "bypass" \in Entries(c)
                 /\ ~IsPrefix(main, base) => "override" \in Entries(c) /\ Last(main).book # "block"
      <3>1. c.phases \subseteq {"execute"}
        BY <1>1, <2>3, <2>4 DEF MayGo, Call
      <3> QED
        BY <2>3, <2>4, <3>1 DEF MayUpdate, MayCarry, Entries, Bypass, Fast
    <2>5. OnRecord'
      BY <2>1, <2>3, <2>4 DEF OnRecord, In
    <2> QED
      BY <1>2, <1>3, <1>4, <2>2, <2>5
  <1>6. CASE ~Guard(c)
    <2>1. PushOK' /\ OnRecord'
      BY <1>6 DEF PushOK, OnRecord, In
    <2> QED
      BY <1>2, <1>3, <1>4, <2>1
  <1> QED
    BY <1>5, <1>6

(* A step of the frame that leaves the rest alone.                          *)
LEMMA FrameKeeps ==
    ASSUME Inv, PushOK', OnRecord',
           UNCHANGED <<story, checkout, settings, certs, main, test, count>>,
           stages' = stages \/ (Suites = {} /\ stages' \in SUBSET Parts)
    PROVE  Inv'
  <1> USE DEF Inv, ShapeOK, checkout, settings
  <1>1. HeadOK' /\ TestOK'
    BY DEF HeadOK, TestOK
  <1>2. RunInv'
    BY DEF RunInv, Suites, TestOK, Test, Idle
  <1>3. CertificatesHold'
    BY DEF CertificatesHold, bad
  <1> QED
    BY <1>1, <1>2, <1>3

LEMMA CheckKeeps == ASSUME Inv, Check PROVE Inv'
  <1> USE DEF Inv, ShapeOK, Check, memory
  <1>1. push # Idle /\ DOMAIN push = Asked
    BY DEF PushOK, Idle, Early
  <1>2. PushOK'
    BY <1>1 DEF PushOK, Asked, Early
  <1>3. OnRecord'
    BY <1>1, LogGrows DEF Asked
  <1> QED
    BY <1>2, <1>3, FrameKeeps

LEMMA FixKeeps == ASSUME Inv, NEW listed \in BOOLEAN, Fix(listed) PROVE Inv'
  <1>1. push.at = "checked"
    BY DEF Fix
  <1>2. push # Idle
    BY <1>1 DEF Idle
  <1>3. \E f :
            /\ f.at = "fixed" /\ DOMAIN f = Fixed
            /\ f.call = push.call /\ f.sha = push.sha /\ f.on = push.on /\ f.saw = push.saw
            /\ push' = f \/ \E to \in {"spared", "passed"}, s \in stamps : push' = On(f, to, s)
    <2> DEFINE f == [at    |-> "fixed", call |-> push.call, sha |-> push.sha, on |-> push.on,
                     saw   |-> push.saw, still |-> push.still, head |-> head, cfg |-> cfg,
                     class |-> Class(push.call),
                     scope |-> IF listed /\ Touched = {} /\ head \notin Range(main)
                               THEN "process-only" ELSE "code",
                     over  |-> Forked.code, parts |-> cfg \cap Touched,
                     owed |-> {}, start |-> work, mixed |-> FALSE]
    <2>1. /\ f.at = "fixed" /\ DOMAIN f = Fixed
          /\ f.call = push.call /\ f.sha = push.sha /\ f.on = push.on /\ f.saw = push.saw
      BY DEF Fixed, Asked
    <2>2. \/ push' = f
          \/ \E s \in stamps : push' = On(f, "passed", s) \/ push' = On(f, "spared", s)
      BY DEF Fix, Known
    <2> HIDE DEF f
    <2> QED
      BY <2>1, <2>2
  <1>4. /\ push'.call = push.call /\ push'.sha = push.sha
        /\ push'.on = push.on /\ push'.saw = push.saw
        /\ push'.at \in {"fixed", "spared", "passed"}
        /\ DOMAIN push' = Fixed
    BY <1>3 DEF On, Fixed, Asked
  <1>5. PushOK'
    BY <1>2, <1>4 DEF Inv, ShapeOK, PushOK, Early, Late
  <1>6. OnRecord'
    BY <1>2, <1>4, LogGrows DEF Inv, Fix
  <1> QED
    BY <1>5, <1>6, FrameKeeps DEF Fix, memory

(* The later steps move the push on, or end it.                             *)
LEMMA GoingOnKeeps ==
    ASSUME Inv, push # Idle, DOMAIN push' = DOMAIN push, push.at \in Late, push'.at \in Late,
           push'.call = push.call, push'.sha = push.sha, push'.on = push.on, push'.saw = push.saw,
           UNCHANGED <<story, checkout, settings, certs, main, ledger, test, count>>,
           stages' = stages \/ (Suites = {} /\ stages' \in SUBSET Parts)
    PROVE  Inv'
  <1>1. PushOK'
    BY DEF Inv, ShapeOK, PushOK, Early, Late
  <1>2. OnRecord'
    BY LogGrows DEF Inv
  <1> QED
    BY <1>1, <1>2, FrameKeeps

LEMMA LateShape ==
    ASSUME Inv, push.at \in Late
    PROVE  push # Idle /\ DOMAIN push = Fixed
  BY DEF Inv, ShapeOK, PushOK, Idle, Early, Late

LEMMA RestKeeps ==
    ASSUME Inv,
           \/ Spare \/ Ran \/ Remember
           \/ \E owed \in SUBSET Parts, wrote \in BOOLEAN : Run(owed, wrote)
    PROVE  Inv'
  <1>1. CASE Spare \/ Ran \/ Remember
    <2>1. push.at \in Late
      BY <1>1 DEF Spare, Ran, Remember, Late
    <2>2. /\ DOMAIN push' = DOMAIN push /\ push'.at \in Late
          /\ push'.call = push.call /\ push'.sha = push.sha
          /\ push'.on = push.on /\ push'.saw = push.saw
      BY <1>1, <2>1, LateShape DEF Spare, Ran, Remember, Fixed, Asked, Late
    <2> QED
      BY <1>1, <2>1, <2>2, LateShape, GoingOnKeeps DEF Spare, Ran, Remember, memory
  <1>2. CASE \E owed \in SUBSET Parts, wrote \in BOOLEAN : Run(owed, wrote)
    <2>1. PICK owed \in SUBSET Parts, wrote \in BOOLEAN : Run(owed, wrote)
      BY <1>2
    <2>2. push.at \in Late
      BY <2>1 DEF Run, Late
    <2>3. /\ DOMAIN push' = DOMAIN push /\ push'.at \in Late
          /\ push'.call = push.call /\ push'.sha = push.sha
          /\ push'.on = push.on /\ push'.saw = push.saw
      BY <2>1, <2>2, LateShape DEF Run, Fixed, Asked, Late
    <2>4. Selected(cfg) \in SUBSET Parts
      BY DEF Inv, ShapeOK, Selected
    <2>5. stages' = stages \/ (Suites = {} /\ stages' \in SUBSET Parts)
      <3>1. Selected(push.cfg) \in SUBSET Parts
        BY DEF Selected, Touched, Changed, Inv, ShapeOK
      <3> QED
        BY <2>1, <3>1 DEF Run
    <2> QED
      BY <2>1, <2>2, <2>3, <2>5, LateShape, GoingOnKeeps DEF Run, memory
  <1> QED
    BY <1>1, <1>2

LEMMA RefuseKeeps == ASSUME Inv, Refuse PROVE Inv'
  <1> USE DEF Refuse, memory
  <1>1. PushOK'
    BY DEF PushOK
  <1>2. OnRecord'
    BY DEF OnRecord
  <1> QED
    BY <1>1, <1>2, FrameKeeps

LEMMA LandKeeps == ASSUME Inv, NEW arrives \in BOOLEAN, Land(arrives) PROVE Inv'
  <1> USE DEF Inv, ShapeOK, Land, settings, memory
  <1>1. /\ push # Idle /\ push.on \in Seq(Commits) /\ push.sha \in Commits
        /\ push' = Idle
    BY DEF PushOK, Idle
  <1>2. HeadOK'
    <2>1. Append(push.on, push.sha) \in Seq(Commits) /\ Append(push.on, push.sha) # <<>>
      BY <1>1
    <2>2. /\ main' = main \/ main' = Append(push.on, push.sha)
          /\ base' = base \/ base' = main'
          /\ head' = head /\ work' = work
      OBVIOUS
    <2> QED
      BY <2>1, <2>2 DEF HeadOK
  <1>3. PushOK' /\ TestOK' /\ OnRecord' /\ RunInv'
    BY <1>1 DEF PushOK, TestOK, OnRecord, RunInv
  <1>4. CertificatesHold'
    BY DEF CertificatesHold, bad
  <1> QED
    BY <1>2, <1>3, <1>4

-----------------------------------------------------------------------------
(* The certifying run.                                                      *)

LEMMA BeginKeeps ==
    ASSUME Inv, NEW kind \in {"push", "merge"}, NEW make \in {"plain", "noop"},
           NEW owed \in SUBSET Parts, NEW wrote \in BOOLEAN, Begin(kind, make, owed, wrote)
    PROVE  Inv'
  <1> USE DEF Inv, ShapeOK, Begin, checkout, settings, memory
  <1>1. story' \in Story /\ bad' = bad
    BY StoryGoesOn DEF bad
  <1>2. HeadOK' /\ PushOK' /\ OnRecord'
    BY DEF HeadOK, PushOK, OnRecord, In
  <1>3. CertificatesHold'
    BY <1>1 DEF CertificatesHold
  <1>4. Selected(cfg) \in SUBSET Parts /\ stages' \in SUBSET Parts
    BY DEF Selected, Cleared
  <1>5. test' \in Test
    <2>1. head.code \in Codes /\ work \in Codes
      BY DEF HeadOK, Commits
    <2>2. (cfg \cap Touched) \ owed \in SUBSET Parts
      OBVIOUS
    <2> QED
      BY <1>4, <2>1, <2>2 DEF Test, RunsNothing
  <1>6. RunInv'
    <2>1. test'.before # {} => /\ test'.before = {test'.start} /\ test'.mixed = FALSE
                               /\ work' = test'.start
      BY DEF Clean, RunsNothing, Alters
    <2>2. test'.class = "merge" => stages' = {} \/ stages' = test'.parts
      BY DEF Cleared
    <2> QED
      BY <2>1, <2>2 DEF RunInv
  <1>7. TestOK'
    BY <1>5 DEF TestOK
  <1> QED
    BY <1>1, <1>2, <1>3, <1>4, <1>6, <1>7

LEMMA EndKeeps == ASSUME Inv, End PROVE Inv'
  <1> USE DEF Inv, ShapeOK, End, checkout, settings
  <1>1. HeadOK' /\ PushOK' /\ OnRecord' /\ TestOK' /\ RunInv'
    BY DEF HeadOK, PushOK, OnRecord, In, TestOK, RunInv
  <1>2. test \in Test /\ test # Idle
    BY DEF TestOK, Idle
  <1>3. CertificatesHold'
    <2>1. CASE certs' = certs
      BY <2>1 DEF CertificatesHold, bad
    <2>2. CASE certs' # certs
      <3>1. /\ Green(test) /\ Proves(test) /\ (test.class = "merge" => stages # {})
            /\ certs' = certs \cup {IF test.class = "merge" THEN Cert("merge", stages, test)
                                     ELSE Cert("push", {}, test)}
        BY <2>2
      <3>2. test.start = head.code /\ test.start = work /\ ~test.mixed
        BY <1>2, <3>1 DEF Proves, RunInv, Clean, Test
      <3>3. test.parts \cap bad[head.code] = {}
        BY <3>1, <3>2 DEF Green
      <3>4. test.class = "merge" => stages = test.parts
        BY <1>2, <3>1 DEF RunInv
      <3>5. \A k \in certs' \ certs : k.code = head.code /\ k.parts = test.parts
        BY <3>1, <3>4 DEF Cert
      <3> QED
        BY <3>3, <3>5 DEF CertificatesHold, bad
    <2> QED
      BY <2>1, <2>2
  <1> QED
    BY <1>1, <1>3

-----------------------------------------------------------------------------
(* The user, and others.                                                    *)

LEMMA MovedKeeps ==
    ASSUME Inv, NEW code \in Codes, Moved(code), HeadOK', count' \in Int,
           UNCHANGED <<settings, stages, memory, ledger>>
    PROVE  Inv'
  <1> USE DEF Inv, ShapeOK, Moved, settings, memory
  <1>1. story' \in Story /\ bad' = bad
    BY StoryGoesOn DEF Move, bad
  <1>2. PushOK'
    BY DEF PushOK, Disturbed, Stirred, Idle, Early, Late, Asked, Fixed
  <1>3. OnRecord'
    <2>1. \/ push = Idle /\ push' = push
          \/ /\ push # Idle
             /\ push'.call = push.call /\ push'.sha = push.sha
             /\ push'.on = push.on /\ push'.saw = push.saw
      BY DEF PushOK, Disturbed, Stirred, Idle, Early, Late, Asked, Fixed
    <2> QED
      BY <2>1, LogGrows
  <1>4. test = Idle => test' = Idle
    BY DEF Stirred, Idle
  <1>5. test # Idle => /\ test \in Test
                       /\ test' = [test EXCEPT !.mixed = @ \/ code # work]
    BY DEF TestOK, Stirred, Test
  <1>6. TestOK'
    BY <1>4, <1>5 DEF TestOK, Test
  <1>7. RunInv'
    <2>1. test' # Idle => test # Idle
      BY <1>4
    <2>2. test # Idle =>
             /\ test'.before = test.before /\ test'.start = test.start
             /\ test'.class = test.class /\ test'.parts = test.parts
             /\ test'.mixed = (test.mixed \/ code # work)
      BY <1>5 DEF Test
    <2>3. test # Idle /\ test.mixed => test.start # code
      BY <1>5 DEF Fresh, Test
    <2>4. test # Idle /\ test.before # {} => (test'.mixed <=> work' # test'.start)
      BY <2>2, <2>3 DEF RunInv
    <2> QED
      BY <2>1, <2>2, <2>4 DEF RunInv
  <1>8. CertificatesHold'
    BY <1>1 DEF CertificatesHold
  <1> QED
    BY <1>1, <1>2, <1>3, <1>6, <1>7, <1>8

LEMMA UserKeeps == ASSUME Inv, User PROVE Inv'
  <1> USE DEF checkout
  <1>0. head \in Commits /\ work \in Codes /\ count \in Int
    BY DEF Inv, ShapeOK, HeadOK
  <1>1. CASE \E code \in Codes : Edit(code)
    <2>1. PICK code \in Codes : Edit(code)
      BY <1>1
    <2>2. HeadOK'
      BY <2>1 DEF Edit, Moved, Inv, ShapeOK, HeadOK
    <2> QED
      BY <1>0, <2>1, <2>2, MovedKeeps DEF Edit
  <1>2. CASE \E book \in {"clear", "block"} : CommitAll(book)
    <2>1. PICK book \in {"clear", "block"} : CommitAll(book)
      BY <1>2
    <2>2. head' \in Commits
      BY <1>0, <2>1 DEF CommitAll, Commit, Commits
    <2>3. HeadOK'
      BY <2>1, <2>2 DEF CommitAll, Moved, Inv, ShapeOK, HeadOK
    <2> QED
      BY <1>0, <2>1, <2>3, MovedKeeps DEF CommitAll
  <1>3. CASE Rebase
    <2> DEFINE code == [p \in Parts |-> IF head.code[p] = Forked.code[p]
                                        THEN Last(main).code[p] ELSE head.code[p]]
    <2>1. code \in Codes
      <3>1. Last(main) \in Commits
        BY DEF Inv, ShapeOK, HeadOK, Last
      <3>2. \A p \in Parts : Last(main).code[p] \in {0, 1} /\ head.code[p] \in {0, 1}
        BY <1>0, <3>1 DEF Commits, Codes
      <3> QED
        BY <3>2 DEF Codes
    <2>2. Moved(code) /\ head' = Commit(code, head.book, count + 1)
      BY <1>3 DEF Rebase
    <2> HIDE DEF code
    <2>3. head' \in Commits
      BY <1>0, <2>1, <2>2 DEF Commit, Commits
    <2>4. HeadOK'
      BY <1>3, <2>1, <2>2, <2>3 DEF Rebase, Moved, Inv, ShapeOK, HeadOK
    <2> QED
      BY <1>0, <1>3, <2>1, <2>2, <2>4, MovedKeeps DEF Rebase
  <1>4. CASE \E s \in Settings : Configure(s)
    <2> USE DEF Inv, ShapeOK
    <2>1. PICK s \in Settings : Configure(s)
      BY <1>4
    <2>2. story' \in Story /\ bad' = bad
      BY <2>1, StoryGoesOn DEF Configure, Move, bad
    <2>3. cfg' \in SUBSET Parts /\ extra' \in SUBSET Parts
      BY <2>1, SettingsAssumption DEF Configure
    <2>4. HeadOK' /\ PushOK' /\ OnRecord' /\ TestOK' /\ RunInv'
      BY <2>1 DEF Configure, HeadOK, PushOK, OnRecord, In, TestOK, RunInv
    <2>5. CertificatesHold'
      BY <2>1, <2>2 DEF Configure, memory, CertificatesHold
    <2> QED
      BY <2>1, <2>2, <2>3, <2>4, <2>5 DEF Configure
  <1>5. CASE \E names \in SUBSET Parts : RunByHand(names)
    <2> USE DEF Inv, ShapeOK
    <2>1. PICK names \in SUBSET Parts : RunByHand(names)
      BY <1>5
    <2>2. story' \in Story /\ bad' = bad
      BY <2>1, StoryGoesOn DEF RunByHand, Move, bad
    <2>3. HeadOK' /\ PushOK' /\ OnRecord' /\ TestOK'
      BY <2>1 DEF RunByHand, HeadOK, PushOK, OnRecord, In, TestOK
    <2>4. RunInv'
      BY <2>1 DEF RunByHand, RunInv, Suites, TestOK, Test
    <2>5. CertificatesHold'
      BY <2>1, <2>2 DEF RunByHand, memory, CertificatesHold
    <2> QED
      BY <2>1, <2>2, <2>3, <2>4, <2>5 DEF RunByHand, settings
  <1> QED
    BY <1>1, <1>2, <1>3, <1>4, <1>5 DEF User

LEMMA OthersKeep ==
    ASSUME Inv, NEW t \in Theirs, OthersLand(t[1], t[2])
    PROVE  Inv'
  <1> USE DEF Inv, ShapeOK, OthersLand, checkout, settings, memory
  <1>1. Commit(t[1], t[2], -Len(main)) \in Commits
    BY TheirsAssumption DEF HeadOK, Commit, Commits
  <1>2. HeadOK'
    BY <1>1 DEF HeadOK
  <1>3. PushOK' /\ OnRecord' /\ TestOK' /\ RunInv'
    BY DEF PushOK, OnRecord, In, TestOK, RunInv
  <1>4. CertificatesHold'
    BY DEF CertificatesHold, bad
  <1> QED
    BY <1>2, <1>3, <1>4

LEMMA NextKeeps == Inv /\ [Next]_vars => Inv'
  <1> SUFFICES ASSUME Inv, [Next]_vars PROVE Inv'
    OBVIOUS
  <1>1. CASE Frame
    BY <1>1, AskKeeps, CheckKeeps, FixKeeps, RestKeeps, RefuseKeeps, LandKeeps DEF Frame
  <1>2. CASE Certify
    BY <1>2, BeginKeeps, EndKeeps DEF Certify
  <1>3. CASE User
    BY <1>3, UserKeeps
  <1>4. CASE \E t \in Theirs : OthersLand(t[1], t[2])
    BY <1>4, OthersKeep
  <1>5. CASE UNCHANGED vars
    <2> USE <1>5 DEF vars, checkout, settings, memory, Inv, ShapeOK
    <2>1. HeadOK' /\ PushOK' /\ OnRecord' /\ TestOK' /\ RunInv'
      BY DEF HeadOK, PushOK, OnRecord, In, TestOK, RunInv
    <2>2. CertificatesHold'
      BY DEF CertificatesHold, bad
    <2> QED
      BY <2>1, <2>2
  <1> QED
    BY <1>1, <1>2, <1>3, <1>4, <1>5 DEF Next

LEMMA PushInvariant == Spec => []Inv
  BY InitKeeps, NextKeeps, PTL DEF Spec

-----------------------------------------------------------------------------
(* No push reaches main past the train, the gates or the commits that are   *)
(* there but on the log, by whoever may.                                    *)
Accounted ==
    Landing
       => /\ push.call.phases \subseteq {"execute"}
          /\ ~push.call.route /\ "gates" \notin push.call.skips => In("override")
          /\ "gates" \in push.call.skips => In("bypass")
          /\ push.sha.book = "block" => In("bypass")
          /\ ~IsPrefix(main, main') => In("override") /\ Last(main).book # "block"

LEMMA LandingIsALand ==
    ASSUME Inv, Next, Landing
    PROVE  /\ push # Idle /\ "main" \in push.call.to
           /\ main = push.saw /\ main' = Append(push.on, push.sha)
  <1> USE DEF Landing
  <1>0. push # Idle /\ push' # push
    BY DEF Idle
  <1>1. CASE Frame
    BY <1>0, <1>1 DEF Frame, Ask, Check, Fix, Spare, Run, Ran, Remember, Refuse, Land
  <1>2. CASE Certify
    BY <1>0, <1>2 DEF Certify, Begin, End
  <1>3. CASE User
    BY <1>0, <1>3 DEF User, Edit, CommitAll, Rebase, Configure, RunByHand
  <1>4. CASE \E t \in Theirs : OthersLand(t[1], t[2])
    BY <1>0, <1>4 DEF OthersLand
  <1> QED
    BY <1>1, <1>2, <1>3, <1>4 DEF Next

THEOREM PushesAreAccountedFor == Spec => MainIsAccountedFor
  <1>1. Inv /\ [Next]_vars => [Accounted]_vars
    <2> SUFFICES ASSUME Inv, Next, Landing PROVE Accounted
      BY DEF Accounted
    <2>1. /\ push # Idle /\ "main" \in push.call.to
          /\ main = push.saw /\ main' = Append(push.on, push.sha)
      BY LandingIsALand
    <2>2. IsPrefix(push.saw, push.on) => IsPrefix(main, main')
      BY <2>1, LongerToo DEF Inv, ShapeOK, PushOK
    <2> QED
      BY <2>1, <2>2 DEF Accounted, Inv, OnRecord
  <1> QED
    BY PushInvariant, <1>1, PTL DEF Spec, MainIsAccountedFor, Accounted

-----------------------------------------------------------------------------
(* Main grows under a push, and what it stands on stays what it is.         *)

LEMMA PrefixesAre ==
    ASSUME NEW S, NEW b \in Seq(S), NEW p
    PROVE  p \in Prefixes(b) <=> p \in Seq(S) /\ IsPrefix(p, b)
<1>1. ASSUME NEW l \in 0..Len(b), p = SubSeq(b, 1, l) PROVE p \in Seq(S) /\ IsPrefix(p, b)
  <2>1. p \in Seq(S) /\ Len(p) = l BY <1>1
  <2>2. \A i \in 1..l : p[i] = b[i] BY <1>1
  <2>3. SubSeq(p, 1, Len(p)) = SubSeq(b, 1, Len(p)) BY <1>1, <2>1
  <2> QED BY <2>1, <2>3 DEF IsPrefix
<1>2. ASSUME p \in Seq(S), IsPrefix(p, b) PROVE p = SubSeq(b, 1, Len(p)) /\ Len(p) \in 0..Len(b)
  <2>1. SubSeq(p, 1, Len(p)) = p BY <1>2
  <2> QED BY <1>2, <2>1 DEF IsPrefix
<1> QED BY <1>1, <1>2 DEF Prefixes

LEMMA CommonAre ==
    ASSUME NEW S, NEW b \in Seq(S), NEW m \in Seq(S)
    PROVE  CommonPrefixes({b, m}) = {p \in Seq(S) : IsPrefix(p, b) /\ IsPrefix(p, m)}
<1>1. ASSUME NEW p PROVE p \in CommonPrefixes({b, m}) <=> p \in Prefixes(b) \cup Prefixes(m) /\ IsPrefix(p, b) /\ IsPrefix(p, m)
  BY DEF CommonPrefixes
<1> QED BY <1>1, PrefixesAre

(* A commit more on main takes nothing from what a base has of it, and adds *)
(* nothing, unless the base has all of main and more.                       *)
LEMMA OneMore ==
    ASSUME NEW S, NEW b \in Seq(S), NEW m \in Seq(S), NEW x \in S, ~IsStrictPrefix(m, b)
    PROVE  /\ ~IsStrictPrefix(Append(m, x), b)
           /\ LongestCommonPrefix({b, Append(m, x)}) = LongestCommonPrefix({b, m})
<1> DEFINE n == Append(m, x)
<1>0. n \in Seq(S) /\ Len(n) = Len(m) + 1 /\ SubSeq(n, 1, Len(m)) = m /\ SubSeq(m, 1, Len(m)) = m OBVIOUS
<1>1. ~IsPrefix(n, b)
  <2> SUFFICES ASSUME IsPrefix(n, b) PROVE FALSE OBVIOUS
  <2>1. Len(n) <= Len(b) /\ SubSeq(n, 1, Len(n)) = SubSeq(b, 1, Len(n)) BY DEF IsPrefix
  <2>2. \A i \in 1..Len(n) : n[i] = b[i]
    <3> SUFFICES ASSUME NEW i \in 1..Len(n) PROVE n[i] = b[i] OBVIOUS
    <3>1. SubSeq(n, 1, Len(n))[i] = n[i] /\ SubSeq(b, 1, Len(n))[i] = b[i] BY <1>0, <2>1
    <3> QED BY <3>1, <2>1
  <2>3. \A i \in 1..Len(m) : m[i] = b[i] BY <1>0, <2>2
  <2>4. SubSeq(b, 1, Len(m)) = m BY <1>0, <2>1, <2>3
  <2>5. IsPrefix(m, b) /\ m # b BY <1>0, <2>1, <2>4 DEF IsPrefix
  <2> QED BY <2>5 DEF IsStrictPrefix
<1>2. ASSUME NEW p \in Seq(S), IsPrefix(p, b) PROVE IsPrefix(p, n) <=> IsPrefix(p, m)
  <2>1. IsPrefix(p, m) => IsPrefix(p, n) BY LongerToo
  <2>2. ASSUME IsPrefix(p, n), Len(p) <= Len(m) PROVE IsPrefix(p, m)
    <3>1. SubSeq(n, 1, Len(p)) = SubSeq(m, 1, Len(p)) BY <1>0, <2>2
    <3> QED BY <2>2, <3>1 DEF IsPrefix
  <2>3. ASSUME IsPrefix(p, n), Len(p) > Len(m) PROVE FALSE
    <3>1. Len(p) = Len(n) BY <1>0, <2>3 DEF IsPrefix
    <3>2. p = n
      <4>1. SubSeq(p, 1, Len(p)) = p /\ SubSeq(n, 1, Len(n)) = n BY <1>0
      <4> QED BY <3>1, <4>1, <2>3 DEF IsPrefix
    <3> QED BY <3>2, <1>1, <1>2
  <2> QED BY <2>1, <2>2, <2>3
<1> HIDE DEF n
<1>3. CommonPrefixes({b, n}) = CommonPrefixes({b, m})
  <2>1. CommonPrefixes({b, n}) = {p \in Seq(S) : IsPrefix(p, b) /\ IsPrefix(p, n)} BY <1>0, CommonAre
  <2>2. CommonPrefixes({b, m}) = {p \in Seq(S) : IsPrefix(p, b) /\ IsPrefix(p, m)} BY CommonAre
  <2> QED BY <1>2, <2>1, <2>2
<1> QED BY <1>1, <1>3 DEF LongestCommonPrefix, IsStrictPrefix, n

-----------------------------------------------------------------------------
(* A push while nobody touches its checkout: what it pushes is what is      *)
(* checked out and lies in the worktree, and main's others change nothing   *)
(* of what it stands on. They could if main were a part of the base it      *)
(* stands on: a push over commits of main only takes away what it did not   *)
(* see.                                                                     *)
Trunk ==
    /\ head.n > 0 /\ count > 0
    /\ ~IsStrictPrefix(main, base)
    /\ push # Idle => /\ push.sha.n > 0 /\ push.sha \notin Range(main)
                      /\ base = push.on \/ push.sha \notin Range(base)
Still ==
    /\ \A s \in stamps : s.still \in BOOLEAN
    /\ push # Idle => /\ push.still \in BOOLEAN
                      /\ push.still => Clean /\ head = push.sha /\ base = push.on

(* What is green, or taken for it.                                          *)
Fine(code, c, over) == bad[code] \cap c \cap Changed(code, over) = {}
InCerts(code, c) == \E k \in certs : k.kind = "push" /\ k.code = code /\ k.cfg = c
Shown(f) ==
    \/ f.scope # "code" \/ "tests" \in f.call.skips \/ f.owed # {}
    \/ Fine(f.head.code, f.cfg, f.over)
    \/ f.class = "branch" /\ InCerts(f.head.code, f.cfg)

Stamped(s) ==
    /\ s.scope \in {"code", "process-only"}
    /\ s.scope = "process-only" => Changed(s.what.code, s.over) = {}
    /\ s.scope = "code" /\ s.still =>
          Fine(s.what.code, s.cfg, s.over) \/ (s.class = "branch" /\ InCerts(s.what.code, s.cfg))

(* From the fingerprint on: the scope is what it says; a push that was      *)
(* still has its own head fixed, over what main is for it as long as it     *)
(* matters; it runs all that it touched but what is owed.                   *)
Fingerprint ==
    push.at \in Late =>
        /\ push.class = Class(push.call) /\ push.scope \in {"code", "process-only"}
        /\ push.scope = "process-only" => Changed(push.head.code, push.over) = {}
        /\ push.class = "merge" => push.owed = {}
        /\ push.still => push.head = push.sha
        /\ push.at \in {"fixed", "testing"} /\ push.still => push.over = Forked.code /\ ~push.mixed
        /\ push.at = "fixed" => push.owed = {} /\ push.parts = push.cfg \cap Changed(push.head.code, push.over)
        /\ push.at = "testing" /\ push.still =>
              /\ push.start = push.head.code
              /\ push.cfg \cap Changed(push.head.code, push.over) \subseteq push.parts \cup push.owed
        /\ push.at = "testing" => push.scope = "code"
        /\ push.at \in {"spared", "ran", "passed"} /\ push.still => Shown(push)
SkipIsTold == push.at \in {"checked"} \cup Late /\ Skips(push.call) => In("skip")

Kept == \A k \in certs : k.kind = "merge" => k.parts = k.scope
StillInv == Trunk /\ Still
ShownInv == SkipIsTold /\ Kept /\ Fingerprint /\ \A s \in stamps : Stamped(s)

LEMMA AsPushed == ASSUME Inv, push # Idle
    PROVE /\ push.on \in Seq(Commits) /\ push.sha \in Commits /\ push.call \in Call
          /\ push.at \in Early \cup Late /\ DOMAIN push = (IF push.at \in Early THEN Asked ELSE Fixed)
BY DEF Inv, ShapeOK, PushOK

LEMMA NotIn == ASSUME NEW S, NEW s \in Seq(S), NEW x, NEW y, y \notin Range(s), y # x PROVE y \notin Range(Append(s, x))
<1>1. \A i \in DOMAIN Append(s, x) : Append(s, x)[i] = x \/ (i \in DOMAIN s /\ Append(s, x)[i] = s[i]) OBVIOUS
<1> QED BY <1>1 DEF Range

(* The record a push is fixed with, and what it goes on as.                 *)
Fixing(listed) ==
    [at    |-> "fixed", call |-> push.call, sha |-> push.sha, on |-> push.on,
     saw   |-> push.saw, still |-> push.still, head |-> head, cfg |-> cfg,
     class |-> Class(push.call),
     scope |-> IF listed /\ Touched = {} /\ head \notin Range(main) THEN "process-only" ELSE "code",
     over  |-> Forked.code, parts |-> cfg \cap Touched,
     owed |-> {}, start |-> work, mixed |-> FALSE]
Trusted(f) == Known(head, f) \cup Known(TreeOf(head), f)

LEMMA FixIs == ASSUME NEW listed \in BOOLEAN, Fix(listed)
    PROVE \/ push' = Fixing(listed)
          \/ \E to \in {"spared", "passed"} : \E s \in Trusted(Fixing(listed)) : push' = On(Fixing(listed), to, s)
BY DEF Fix, Fixing, Trusted

LEMMA FixAs == ASSUME Inv, StillInv, NEW listed \in BOOLEAN, Fix(listed)
    PROVE /\ push # Idle /\ push.at = "checked" /\ push'.sha = push.sha /\ push'.on = push.on
          /\ push'.still \in BOOLEAN /\ (push'.still => push.still)
<1>1. push # Idle /\ push.at = "checked" BY DEF Fix, Idle
<1>2. PICK f : f = Fixing(listed) OBVIOUS
<1>3. f.sha = push.sha /\ f.on = push.on /\ f.still = push.still /\ {"sha", "on", "still", "over", "at"} \subseteq DOMAIN f
  BY <1>2 DEF Fixing
<1>4. push.still \in BOOLEAN BY <1>1 DEF StillInv, Still
<1>5. CASE push' = f BY <1>1, <1>3, <1>4, <1>5
<1>6. ASSUME NEW to, NEW s \in stamps, push' = On(f, to, s) PROVE push'.sha = push.sha /\ push'.on = push.on
                                                          /\ push'.still \in BOOLEAN /\ (push'.still => push.still)
  <2>1. push'.sha = f.sha /\ push'.on = f.on /\ push'.still = (f.still /\ s.still) BY <1>3, <1>6 DEF On
  <2>2. s.still \in BOOLEAN BY DEF StillInv, Still
  <2> QED BY <1>3, <1>4, <2>1, <2>2
<1> QED BY <1>1, <1>2, <1>5, <1>6, FixIs DEF Trusted, Known

LEMMA RebasedCode == ASSUME Inv, Rebase PROVE \E code \in Codes : Moved(code)
<1> DEFINE code == [p \in Parts |-> IF head.code[p] = Forked.code[p] THEN Last(main).code[p] ELSE head.code[p]]
<1>1. Last(main) \in Commits /\ head \in Commits BY DEF Inv, ShapeOK, HeadOK, Last
<1>2. \A p \in Parts : Last(main).code[p] \in {0, 1} /\ head.code[p] \in {0, 1} BY <1>1 DEF Commits, Codes
<1>3. code \in Codes BY <1>2 DEF Codes
<1> QED BY <1>3 DEF Rebase

LEMMA AskStill == ASSUME Inv, StillInv, Ask PROVE StillInv'
<1> USE DEF Ask, checkout, memory, Inv, StillInv, Trunk, Still
<1>1. CASE push' = push BY <1>1 DEF Clean
<1>2. CASE push' # push
  <2>1. /\ push'.sha = head /\ push'.on = base /\ push'.still = Clean
    BY <1>2
  <2>2. head \notin Range(main) BY <1>2
  <2>3. push'.still \in BOOLEAN /\ (push'.still => Clean') BY <2>1 DEF Clean
  <2> QED BY <2>1, <2>2, <2>3
<1> QED BY <1>1, <1>2

(* A step of the frame that leaves the checkout alone and the push's own.   *)
LEMMA GoesOnStill ==
    ASSUME Inv, StillInv, push # Idle, UNCHANGED <<checkout, main, count, stamps>>,
           push'.sha = push.sha, push'.on = push.on, push'.still \in BOOLEAN, push'.still => push.still
    PROVE  StillInv'
BY DEF StillInv, Trunk, Still, checkout, Clean

LEMMA IdlesStill == ASSUME Inv, StillInv, push' = Idle, UNCHANGED <<checkout, stamps, main, count>> PROVE StillInv'
BY DEF StillInv, Trunk, Still, checkout

LEMMA RestsStill == ASSUME StillInv, UNCHANGED <<push, checkout, stamps, main, count>> PROVE StillInv'
BY DEF StillInv, Trunk, Still, checkout, Clean

LEMMA LandStill == ASSUME Inv, StillInv, NEW arrives \in BOOLEAN, Land(arrives) PROVE StillInv'
<1> USE DEF Land
<1>0. push.at = "passed" /\ push # Idle /\ push' = Idle BY DEF Idle
<1>1. CASE UNCHANGED <<main, base>> BY <1>0, <1>1, IdlesStill DEF checkout, Idle, memory
<1>2. CASE main' = Append(push.on, push.sha) /\ base' = (IF base = push.on THEN main' ELSE base)
  <2>1. push.on \in Seq(Commits) /\ push.sha \in Commits BY <1>0, AsPushed
  <2>2. base \in Seq(Commits) BY DEF Inv, ShapeOK, HeadOK
  <2>3. ASSUME base # push.on PROVE ~IsPrefix(main', base)
    <3>1. push.sha \notin Range(base) BY <1>0, <2>3 DEF StillInv, Trunk
    <3> SUFFICES ASSUME IsPrefix(main', base) PROVE FALSE OBVIOUS
    <3>2. Len(main') = Len(push.on) + 1 /\ main'[Len(push.on) + 1] = push.sha BY <1>2, <2>1
    <3>3. Len(main') <= Len(base) /\ SubSeq(main', 1, Len(main')) = SubSeq(base, 1, Len(main')) BY DEF IsPrefix
    <3>4. SubSeq(main', 1, Len(main'))[Len(push.on) + 1] = push.sha BY <1>2, <2>1, <3>2
    <3>5. SubSeq(base, 1, Len(main'))[Len(push.on) + 1] = base[Len(push.on) + 1] BY <2>1, <2>2, <3>2, <3>3
    <3>6. Len(push.on) + 1 \in DOMAIN base BY <2>1, <2>2, <3>2, <3>3
    <3> QED BY <3>1, <3>3, <3>4, <3>5, <3>6 DEF Range
  <2>4. ~IsStrictPrefix(main', base') /\ UNCHANGED <<head, count, stamps>> BY <1>2, <2>3 DEF IsStrictPrefix, memory
  <2> QED BY <1>0, <2>4 DEF StillInv, Trunk, Still
<1> QED BY <1>1, <1>2

LEMMA RememberStill == ASSUME Inv, StillInv, Remember PROVE StillInv'
<1>1. push # Idle /\ UNCHANGED <<checkout, main, count>> BY DEF Remember, Idle
<1>2. push'.sha = push.sha /\ push'.on = push.on /\ push'.still = push.still
  BY <1>1, AsPushed DEF Remember, Early, Late, Asked, Fixed
<1>3. push.still \in BOOLEAN BY <1>1 DEF StillInv, Still
<1>4. \A s \in stamps' : s \in stamps \/ s.still = push.still BY DEF Remember, Stamp
<1>5. \A s \in stamps' : s.still \in BOOLEAN BY <1>3, <1>4 DEF StillInv, Still
<1> QED BY <1>1, <1>2, <1>3, <1>5 DEF StillInv, Trunk, Still, checkout, Clean

LEMMA MovedStill ==
    ASSUME Inv, StillInv, NEW code \in Codes, Moved(code), count' >= count,
           \/ UNCHANGED <<head, base>>
           \/ head'.n > 0 /\ (base' = base \/ base' = main), main' = main, stamps' = stamps, count \in Int, count' \in Int
    PROVE  StillInv'
<1>1. push = Idle => push' = Idle BY DEF Moved, Disturbed, Stirred, Idle
<1>2. push # Idle => push'.sha = push.sha /\ push'.on = push.on /\ push'.still = FALSE
  BY AsPushed DEF Moved, Disturbed, Stirred, Idle, Early, Late, Asked, Fixed
<1>3. count' > 0 /\ head'.n > 0 BY DEF StillInv, Trunk
<1>4. ~IsStrictPrefix(main', base') BY DEF StillInv, Trunk, IsStrictPrefix
<1>5. push' # Idle => /\ push'.sha.n > 0 /\ push'.sha \notin Range(main')
                      /\ base' = push'.on \/ push'.sha \notin Range(base')
  BY <1>1, <1>2 DEF StillInv, Trunk
<1> QED BY <1>1, <1>2, <1>3, <1>4, <1>5 DEF StillInv, Trunk, Still

LEMMA OthersStill == ASSUME Inv, StillInv, NEW t \in Theirs, OthersLand(t[1], t[2]) PROVE StillInv'
<1> DEFINE x == Commit(t[1], t[2], -Len(main))
<1>1. x \in Commits /\ x.n <= 0 /\ main' = Append(main, x) /\ main \in Seq(Commits) /\ base \in Seq(Commits)
  BY TheirsAssumption DEF OthersLand, Inv, ShapeOK, HeadOK, Commit, Commits
<1>2. UNCHANGED <<push, checkout, count, stamps>> BY DEF OthersLand, memory
<1> HIDE DEF x
<1>3. ~IsStrictPrefix(main', base) BY <1>1, OneMore DEF StillInv, Trunk
<1>4. push # Idle => push.sha \notin Range(main')
  <2> SUFFICES ASSUME push # Idle PROVE push.sha \notin Range(main') OBVIOUS
  <2>1. push.sha.n > 0 /\ push.sha \notin Range(main) BY DEF StillInv, Trunk
  <2>2. push.sha # x BY <1>1, <2>1, AsPushed DEF Commits
  <2> QED BY <1>1, <2>1, <2>2, NotIn
<1> QED BY <1>2, <1>3, <1>4 DEF StillInv, Trunk, Still, checkout, Clean

LEMMA StillKeeps == ASSUME Inv, StillInv, [Next]_vars PROVE StillInv'
<1>0. head \in Commits /\ work \in Codes /\ count \in Int /\ count > 0 BY DEF Inv, ShapeOK, HeadOK, StillInv, Trunk
<1>1. CASE Check \/ Spare \/ Ran \/ \E owed \in SUBSET Parts, wrote \in BOOLEAN : Run(owed, wrote)
  <2>0. push.at # "idle" BY <1>1 DEF Check, Spare, Ran, Run
  <2>a. UNCHANGED <<checkout, main, count, stamps>> BY <1>1 DEF Check, Spare, Ran, Run, memory
  <2>1. push # Idle /\ UNCHANGED <<checkout, main, count, stamps>> BY <2>0, <2>a DEF Idle
  <2>2. push'.sha = push.sha /\ push'.on = push.on /\ push'.still = push.still
    BY <1>1, <2>1, AsPushed DEF Check, Spare, Ran, Run, Early, Late, Asked, Fixed
  <2>3. push.still \in BOOLEAN BY <2>1 DEF StillInv, Still
  <2> QED BY <2>1, <2>2, <2>3, GoesOnStill
<1>2. CASE \E listed \in BOOLEAN : Fix(listed)
  <2>1. UNCHANGED <<checkout, main, count, stamps>> BY <1>2 DEF Fix, memory
  <2> QED BY <1>2, <2>1, FixAs, GoesOnStill
<1>b. CASE Remember BY <1>b, RememberStill
<1>3. CASE Refuse BY <1>3, IdlesStill DEF Refuse, memory
<1>4. CASE Certify
  BY <1>4, RestsStill DEF Certify, Begin, End, memory
<1>5. CASE (\E s \in Settings : Configure(s)) \/ (\E names \in SUBSET Parts : RunByHand(names))
  BY <1>5, RestsStill DEF Configure, RunByHand, memory
<1>6. CASE \E code \in Codes : Edit(code)
  BY <1>0, <1>6, MovedStill DEF Edit, memory
<1>7. CASE \E book \in {"clear", "block"} : CommitAll(book)
  <2>1. PICK book \in {"clear", "block"} : CommitAll(book) BY <1>7
  <2>2. head'.n > 0 /\ count' = count + 1 BY <1>0, <2>1 DEF CommitAll, Commit
  <2> QED BY <1>0, <2>1, <2>2, MovedStill DEF CommitAll, memory
<1>8. CASE Rebase
  <2>1. \E code \in Codes : Moved(code) BY <1>8, RebasedCode
  <2>2. head'.n > 0 /\ count' = count + 1 /\ base' = main /\ main' = main /\ stamps' = stamps
    BY <1>0, <1>8 DEF Rebase, Commit, memory
  <2> QED BY <1>0, <2>1, <2>2, MovedStill
<1>9. CASE \E t \in Theirs : OthersLand(t[1], t[2]) BY <1>9, OthersStill
<1>10. CASE UNCHANGED vars BY <1>10, RestsStill DEF vars, memory
<1> QED BY <1>1, <1>2, <1>3, <1>4, <1>5, <1>6, <1>7, <1>8, <1>9, <1>10, <1>b, AskStill, LandStill DEF Next, Frame, User

-----------------------------------------------------------------------------
(* What was shown, step by step.                                            *)

LEMMA StampedOn == ASSUME bad' = bad, certs \subseteq certs', NEW s, Stamped(s) PROVE Stamped(s)'
BY DEF Stamped, Fine, InCerts

LEMMA ShownOn == ASSUME bad' = bad, certs \subseteq certs', NEW f, Shown(f) PROVE Shown(f)'
BY DEF Shown, Fine, InCerts

(* Where a push is not fixed yet, or no more.                               *)
LEMMA NotYet ==
    ASSUME ShownInv, bad' = bad, certs \subseteq certs', stamps' = stamps, Kept',
           push'.at \notin {"checked"} \cup Late
    PROVE  ShownInv'
BY StampedOn DEF ShownInv, SkipIsTold, Fingerprint

(* Where the push does not move.                                            *)
LEMMA Waits ==
    ASSUME ShownInv, bad' = bad, certs \subseteq certs', stamps' = stamps, Kept',
           push' = push, ledger \subseteq ledger', Forked' = Forked
    PROVE  ShownInv'
<1>1. \A s \in stamps' : Stamped(s)' BY StampedOn DEF ShownInv
<1>2. SkipIsTold' BY DEF ShownInv, SkipIsTold, In
<1>3. Shown(push) => Shown(push)'
  <2>1. PICK f : f = push OBVIOUS
  <2>2. Shown(f) => Shown(f)' BY ShownOn
  <2> QED BY <2>1, <2>2
<1>4. Fingerprint' BY <1>3 DEF ShownInv, Fingerprint
<1> QED BY <1>1, <1>2, <1>4 DEF ShownInv

LEMMA MovedShown ==
    ASSUME Inv, StillInv, ShownInv, NEW code \in Codes, Moved(code),
           UNCHANGED <<settings, stages, memory, ledger>>
    PROVE  ShownInv'
<1>1. bad' = bad BY StoryGoesOn DEF Inv, ShapeOK, Moved, Move, bad
<1>2. CASE push = Idle
  <2>1. push' = Idle BY <1>2 DEF Moved, Disturbed, Stirred, Idle
  <2> QED BY <1>1, <2>1, NotYet DEF Idle, Late, memory, Kept, ShownInv
<1>3. CASE push # Idle
  <2>1. /\ push'.still = FALSE
        /\ \A x \in (Fixed \cap DOMAIN push) \ {"still", "mixed"} : push'[x] = push[x]
    BY <1>3, AsPushed DEF Moved, Disturbed, Stirred, Early, Late, Asked, Fixed
  <2>2. push'.at = push.at /\ push'.call = push.call /\ push'.sha = push.sha
    BY <1>3, <2>1, AsPushed DEF Fixed, Asked
  <2>3. push.at \in Late => /\ push'.class = push.class /\ push'.scope = push.scope /\ push'.owed = push.owed
                            /\ push'.head = push.head /\ push'.over = push.over /\ push'.cfg = push.cfg
                            /\ push'.parts = push.parts
    BY <1>3, <2>1, AsPushed DEF Fixed, Asked, Early, Late
  <2>4. Fingerprint'
    <3>1. SUFFICES ASSUME push.at \in Late PROVE Fingerprint' BY <2>2 DEF Fingerprint
    <3> QED BY <3>1, <2>1, <2>2, <2>3 DEF ShownInv, Fingerprint
  <2>5. SkipIsTold' BY <2>2 DEF ShownInv, SkipIsTold, In
  <2> QED BY <1>1, <2>4, <2>5, StampedOn DEF ShownInv, Kept, memory
<1> QED BY <1>2, <1>3

LEMMA CheckShown == ASSUME Inv, StillInv, ShownInv, Check PROVE ShownInv'
<1>1. push # Idle /\ DOMAIN push = Asked BY AsPushed DEF Check, Idle, Early
<1>2. push'.at = "checked" /\ push'.call = push.call /\ push'.sha = push.sha /\ push.sha = head BY <1>1 DEF Check, Asked
<1>3. Skips(push.call) => [kind |-> "skip", sha |-> head] \in ledger' BY DEF Check, Lines
<1>4. SkipIsTold' BY <1>2, <1>3 DEF SkipIsTold, In
<1>5. Fingerprint' BY <1>2 DEF Fingerprint, Late
<1>6. bad' = bad /\ UNCHANGED memory BY DEF Check, bad
<1> QED BY <1>4, <1>5, <1>6, StampedOn DEF ShownInv, memory, Kept

LEMMA FixShown == ASSUME Inv, StillInv, ShownInv, NEW listed \in BOOLEAN, Fix(listed) PROVE ShownInv'
<1>1. push # Idle /\ push.at = "checked" BY FixAs
<1>2. PICK f : f = Fixing(listed) OBVIOUS
<1>3. /\ f.at = "fixed" /\ f.call = push.call /\ f.sha = push.sha /\ f.still = push.still /\ f.head = head
      /\ f.cfg = cfg /\ f.class = Class(push.call) /\ f.over = Forked.code /\ f.parts = cfg \cap Touched
      /\ f.owed = {} /\ f.start = work /\ f.mixed = FALSE /\ DOMAIN f = Fixed
      /\ f.scope = "code" \/ (f.scope = "process-only" /\ Touched = {})
  BY <1>2 DEF Fixing, Fixed, Asked
<1>4. UNCHANGED <<story, checkout, settings, stages, memory, main, ledger>> BY DEF Fix
<1>5. bad' = bad /\ Forked' = Forked BY <1>4 DEF bad, Forked, checkout
<1>6. push.still \in BOOLEAN /\ (push.still => head = push.sha) BY <1>1 DEF StillInv, Still
<1>7. Touched = Changed(head.code, Forked.code) BY DEF Touched
<1>8. push'.call = push.call /\ push'.sha = push.sha /\ push'.at \in {"fixed", "spared", "passed"}
  <2>1. CASE push' = f BY <1>3, <2>1
  <2>2. ASSUME NEW to \in {"spared", "passed"}, NEW s \in stamps, push' = On(f, to, s)
        PROVE push'.call = push.call /\ push'.sha = push.sha /\ push'.at \in {"fixed", "spared", "passed"}
    BY <1>3, <2>2 DEF On, Fixed, Asked
  <2> QED BY <1>2, <2>1, <2>2, FixIs DEF Trusted, Known
<1>9. SkipIsTold' BY <1>1, <1>4, <1>8 DEF ShownInv, SkipIsTold, In
<1>10. ASSUME push' = f PROVE Fingerprint'
  <2>1. f.scope = "process-only" => Changed(f.head.code, f.over) = {} BY <1>3, <1>7
  <2>2. f.parts = f.cfg \cap Changed(f.head.code, f.over) BY <1>3, <1>7
  <2>3. f.still => f.head = f.sha BY <1>3, <1>6
  <2>4. f.over = Forked'.code BY <1>3, <1>5
  <2>5. f.scope \in {"code", "process-only"} /\ f.class = Class(f.call) /\ f.owed = {} BY <1>3
  <2>6. f.at = "fixed" /\ ~f.mixed BY <1>3
  <2> QED BY <1>10, <2>1, <2>2, <2>3, <2>4, <2>5, <2>6 DEF Fingerprint
<1>11. ASSUME NEW to \in {"spared", "passed"}, NEW s \in Trusted(Fixing(listed)), push' = On(f, to, s)
       PROVE Fingerprint'
  <2>1. s \in stamps /\ s.what.code = head.code /\ Proved(s, f)
    BY <1>2, <1>11 DEF Trusted, Known, TreeOf, Inv, ShapeOK, HeadOK, Commits
  <2>2. s.class = f.class /\ s.scope = f.scope /\ s.cfg = f.cfg BY <2>1 DEF Proved
  <2>3. Stamped(s) /\ s.still \in BOOLEAN BY <2>1 DEF ShownInv, StillInv, Still
  <2>4. /\ push'.at = to /\ push'.over = s.over /\ push'.still = (f.still /\ s.still)
        /\ push'.class = f.class /\ push'.scope = f.scope /\ push'.cfg = f.cfg /\ push'.head = head
        /\ push'.owed = {}
    BY <1>3, <1>11 DEF On, Fixed, Asked
  <2>5. push'.scope = "process-only" => Changed(push'.head.code, push'.over) = {}
    BY <2>1, <2>2, <2>3, <2>4 DEF Stamped
  <2>6. push'.still => push.still /\ s.still BY <1>3, <1>6, <2>3, <2>4
  <2>7. push'.still => Shown(push)'
    <3>1. push'.still /\ f.scope = "code" =>
             \/ bad[head.code] \cap f.cfg \cap Changed(head.code, s.over) = {}
             \/ f.class = "branch" /\ \E k \in certs : k.kind = "push" /\ k.code = head.code /\ k.cfg = f.cfg
      BY <2>1, <2>2, <2>3, <2>6 DEF Stamped, Fine, InCerts
    <3> QED BY <1>3, <1>4, <1>5, <2>4, <3>1 DEF Shown, Fine, InCerts, memory
  <2> QED BY <1>3, <1>6, <1>8, <2>4, <2>5, <2>6, <2>7, <1>11 DEF Fingerprint
<1>12. Fingerprint'
  <2>1. \/ push' = f
        \/ \E to \in {"spared", "passed"} : \E s \in Trusted(Fixing(listed)) : push' = On(f, to, s)
    BY <1>2, FixIs
  <2> QED BY <1>10, <1>11, <2>1
<1> QED BY <1>4, <1>5, <1>9, <1>12, StampedOn DEF ShownInv, memory, Kept

(* A fixed push that goes on, with what stays of it.                        *)
SameFix ==
    /\ push'.call = push.call /\ push'.sha = push.sha /\ push'.class = push.class /\ push'.scope = push.scope
    /\ push'.head = push.head /\ push'.cfg = push.cfg /\ push'.over = push.over /\ push'.still = push.still

(* What a push that is still has of the checkout.                           *)
LEMMA StillIs ==
    ASSUME Inv, StillInv, ShownInv, push.at \in Late, push.still
    PROVE  push.head = head /\ work = head.code /\ push.sha = head
BY LateShape DEF StillInv, Still, ShownInv, Fingerprint, Clean

LEMMA GoesOnShown ==
    ASSUME ShownInv, bad' = bad, UNCHANGED <<memory, ledger>>, push.at \in Late, push'.at \in {"ran", "passed"},
           SameFix, push'.class = "merge" => push'.owed = {}, push.still => Shown(push)'
    PROVE  ShownInv'
<1>1. Fingerprint' BY DEF ShownInv, Fingerprint, SameFix, Late
<1>2. SkipIsTold' BY DEF ShownInv, SkipIsTold, SameFix, In
<1> QED BY <1>1, <1>2, StampedOn DEF ShownInv, Kept, memory

LEMMA FoundShows ==
    ASSUME Inv, ShownInv, NEW class, NEW c, Found(class, c)
    PROVE  bad[head.code] \cap c \cap Touched = {} \/ (class # "merge" /\ InCerts(head.code, c))
<1>1. PICK k \in certs : k.kind \in Kinds(class) /\ k.code = head.code /\ k.cfg = c /\ (k.kind = "merge" => k.scope = Selected(c))
  BY DEF Found
<1>2. CASE k.kind = "merge"
  <2>1. k.parts = Selected(c) BY <1>1, <1>2 DEF ShownInv, Kept
  <2>2. bad[head.code] \cap Selected(c) = {} BY <1>1, <2>1 DEF Inv, CertificatesHold
  <2> QED BY <2>2 DEF Selected
<1>3. CASE k.kind # "merge"
  <2>1. class # "merge" /\ k.kind = "push" BY <1>1, <1>3 DEF Kinds
  <2> QED BY <1>1, <2>1 DEF InCerts
<1> QED BY <1>2, <1>3

LEMMA SpareShown == ASSUME Inv, StillInv, ShownInv, Spare PROVE ShownInv'
<1>1. push.at \in {"spared", "fixed"} BY DEF Spare
<1>2. push # Idle /\ DOMAIN push = Fixed BY <1>1, LateShape DEF Late
<1>3. SameFix /\ push'.at = "ran" /\ push'.owed = push.owed BY <1>2 DEF Spare, SameFix, Fixed, Asked
<1>4. bad' = bad /\ UNCHANGED <<memory, ledger>> BY DEF Spare, bad
<1>5. push.class \in {"merge", "branch"} BY <1>1 DEF ShownInv, Fingerprint, Late, Class
<1>6. push.still => Shown(push)
  <2> SUFFICES ASSUME push.still PROVE Shown(push) OBVIOUS
  <2>1. CASE push.at = "spared" BY <2>1 DEF ShownInv, Fingerprint, Late
  <2>2. CASE push.scope # "code" \/ push.cfg = {} \/ "tests" \in push.call.skips BY <2>2 DEF Shown, Fine
  <2>3. CASE push.at = "fixed" /\ Found(push.class, push.cfg)
    <3>1. push.head = head /\ push.over = Forked.code BY <1>1, <2>3, StillIs DEF ShownInv, Fingerprint, Late
    <3>2. Touched = Changed(push.head.code, push.over) BY <3>1 DEF Touched
    <3> QED BY <1>5, <2>3, <3>1, <3>2, FoundShows DEF Shown, Fine
  <2> QED BY <2>1, <2>2, <2>3 DEF Spare
<1>7. push.still => Shown(push)'
  <2>1. Shown(push)' <=> Shown(push) BY <1>3, <1>4 DEF Shown, SameFix, Fine, InCerts, memory
  <2> QED BY <1>6, <2>1
<1>8. push.class = "merge" => push.owed = {} BY <1>1 DEF ShownInv, Fingerprint, Late
<1>9. push'.class = "merge" => push'.owed = {} BY <1>3, <1>8 DEF SameFix
<1> QED BY <1>1, <1>3, <1>4, <1>7, <1>9, GoesOnShown DEF Late

LEMMA RunShown ==
    ASSUME Inv, StillInv, ShownInv, NEW owed \in SUBSET Parts, NEW wrote \in BOOLEAN, Run(owed, wrote)
    PROVE  ShownInv'
<1>1. push.at = "fixed" /\ push.scope = "code" BY DEF Run
<1>2. push # Idle /\ DOMAIN push = Fixed BY <1>1, LateShape DEF Late
<1>3. /\ SameFix /\ push'.at = "testing" /\ push'.owed = owed /\ push'.start = work /\ push'.mixed = push.mixed
      /\ push'.parts = IF push.class = "merge" THEN Selected(push.cfg) ELSE push.parts \ owed
  BY <1>2 DEF Run, SameFix, Fixed, Asked
<1>4. bad' = bad /\ UNCHANGED <<memory, ledger>> /\ Forked' = Forked BY DEF Run, bad, Forked, checkout
<1>5. push.class = "merge" => owed = {} BY DEF Run
<1>6. push.parts = push.cfg \cap Changed(push.head.code, push.over) BY <1>1 DEF ShownInv, Fingerprint, Late
<1>7. push.still => /\ push.head = head /\ work = push.head.code /\ push.over = Forked.code /\ ~push.mixed
                    /\ push.cfg \cap Changed(push.head.code, push.over) \subseteq push'.parts \cup owed
  <2> SUFFICES ASSUME push.still PROVE /\ push.head = head /\ work = push.head.code /\ push.over = Forked.code /\ ~push.mixed
                    /\ push.cfg \cap Changed(push.head.code, push.over) \subseteq push'.parts \cup owed
    OBVIOUS
  <2>1. push.head = head /\ work = push.head.code /\ push.over = Forked.code /\ ~push.mixed
    BY <1>1, StillIs DEF ShownInv, Fingerprint, Late
  <2>2. push.cfg \cap Changed(push.head.code, push.over) \subseteq Selected(push.cfg)
    BY <2>1 DEF Selected, Touched
  <2> QED BY <1>3, <1>6, <2>1, <2>2
<1>8. Fingerprint'
  <2>1. push.class = Class(push.call) /\ (push.scope = "process-only" => Changed(push.head.code, push.over) = {})
        /\ (push.still => push.head = push.sha)
    BY <1>1 DEF ShownInv, Fingerprint, Late
  <2> QED BY <1>1, <1>3, <1>4, <1>5, <1>7, <2>1 DEF Fingerprint, SameFix, Late
<1>9. SkipIsTold' BY <1>1, <1>3, <1>4 DEF ShownInv, SkipIsTold, SameFix, In, Late
<1> QED BY <1>4, <1>8, <1>9, StampedOn DEF ShownInv, Kept, memory

LEMMA RanShown == ASSUME Inv, StillInv, ShownInv, Ran PROVE ShownInv'
<1>1. push.at = "testing" /\ Green(push) BY DEF Ran
<1>2. push # Idle /\ DOMAIN push = Fixed BY <1>1, LateShape DEF Late
<1>3. SameFix /\ push'.at = "ran" /\ push'.owed = push.owed BY <1>2 DEF Ran, SameFix, Fixed, Asked
<1>4. bad' = bad /\ UNCHANGED <<memory, ledger>> BY DEF Ran, bad
<1>5. push.still => push.owed # {} \/ Fine(push.head.code, push.cfg, push.over)
  BY <1>1 DEF Green, ShownInv, Fingerprint, Late, Fine
<1>6. push.still => push.owed # {} \/ Fine(push.head.code, push.cfg, push.over)' BY <1>3, <1>4, <1>5 DEF Fine, SameFix
<1>7. push.still => Shown(push)' BY <1>3, <1>6 DEF Shown
<1>8. push.class = "merge" => push.owed = {} BY <1>1 DEF ShownInv, Fingerprint, Late
<1>9. push'.class = "merge" => push'.owed = {} BY <1>3, <1>8 DEF SameFix
<1> QED BY <1>1, <1>3, <1>4, <1>7, <1>9, GoesOnShown DEF Late

LEMMA RememberShown == ASSUME Inv, StillInv, ShownInv, Remember PROVE ShownInv'
<1>1. push.at = "ran" BY DEF Remember
<1>2. push # Idle /\ DOMAIN push = Fixed BY <1>1, LateShape DEF Late
<1>3. SameFix /\ push'.at = "passed" /\ push'.owed = push.owed BY <1>2 DEF Remember, SameFix, Fixed, Asked
<1>4. bad' = bad /\ UNCHANGED <<certs, ledger>> BY DEF Remember, bad
<1>5. /\ push.class = Class(push.call) /\ push.scope \in {"code", "process-only"}
      /\ push.scope = "process-only" => Changed(push.head.code, push.over) = {}
      /\ push.class = "merge" => push.owed = {}
      /\ push.still => push.head = push.sha /\ Shown(push)
  BY <1>1 DEF ShownInv, Fingerprint, Late
<1>6. Shown(push)' <=> Shown(push) BY <1>3, <1>4 DEF Shown, SameFix, Fine, InCerts
<1>7. Fingerprint' BY <1>3, <1>5, <1>6 DEF Fingerprint, SameFix
<1>8. SkipIsTold' BY <1>1, <1>3, <1>4 DEF ShownInv, SkipIsTold, SameFix, In, Late
<1>9. ASSUME NEW s \in stamps' PROVE Stamped(s)
  <2>1. CASE s \in stamps BY <2>1 DEF ShownInv
  <2>2. CASE Stampable(push) /\ s \in {Stamp(head, push), Stamp(TreeOf(head), push)}
    <3>1. head \in Commits /\ TreeOf(head).code = head.code BY DEF Inv, ShapeOK, HeadOK, Commits, TreeOf
    <3>2. s.what.code = push.head.code /\ push.owed = {} /\ push.call.skips = {} BY <2>2, <3>1 DEF Stampable, Stamp
    <3>3. s.class = push.class /\ s.scope = push.scope /\ s.cfg = push.cfg /\ s.over = push.over /\ s.still = push.still
      BY <2>2 DEF Stamp
    <3> QED BY <1>5, <3>2, <3>3 DEF Stamped, Shown
  <2> QED BY <2>1, <2>2 DEF Remember
<1>10. \A s \in stamps' : Stamped(s)' BY <1>4, <1>9, StampedOn
<1> QED BY <1>4, <1>7, <1>8, <1>10 DEF ShownInv, Kept

LEMMA CertifyShown == ASSUME Inv, StillInv, ShownInv, Certify PROVE ShownInv'
<1>1. CASE \E kind \in {"push", "merge"}, make \in {"plain", "noop"}, owed \in SUBSET Parts, wrote \in BOOLEAN :
              Begin(kind, make, owed, wrote)
  <2>1. bad' = bad BY <1>1, StoryGoesOn DEF Begin, Inv, ShapeOK, bad
  <2>2. UNCHANGED <<checkout, memory, main, ledger, push>> BY <1>1 DEF Begin
  <2>3. Forked' = Forked /\ Kept' BY <2>2 DEF Forked, checkout, memory, ShownInv, Kept
  <2> QED BY <2>1, <2>2, <2>3, Waits DEF memory
<1>2. CASE End
  <2>1. bad' = bad /\ Forked' = Forked /\ UNCHANGED <<stamps, push, ledger>> BY <1>2 DEF End, bad, Forked, checkout
  <2>2. certs \subseteq certs' BY <1>2 DEF End
  <2>3. \A k \in certs' \ certs : k.kind = "merge" => k.parts = k.scope BY <1>2 DEF End, Cert
  <2>4. Kept' BY <2>3 DEF ShownInv, Kept
  <2> QED BY <2>1, <2>2, <2>4, Waits
<1> QED BY <1>1, <1>2 DEF Certify

LEMMA UserShown == ASSUME Inv, StillInv, ShownInv, User PROVE ShownInv'
<1>0. work \in Codes BY DEF Inv, ShapeOK, HeadOK
<1>1. CASE \E code \in Codes : Edit(code) BY <1>1, MovedShown DEF Edit
<1>2. CASE \E book \in {"clear", "block"} : CommitAll(book) BY <1>0, <1>2, MovedShown DEF CommitAll
<1>3. CASE Rebase
  <2>1. PICK code \in Codes : Moved(code) BY <1>3, RebasedCode
  <2> QED BY <1>3, <2>1, MovedShown DEF Rebase
<1>4. CASE (\E s \in Settings : Configure(s)) \/ (\E names \in SUBSET Parts : RunByHand(names))
  <2>1. bad' = bad BY <1>4, StoryGoesOn DEF Configure, RunByHand, Move, Inv, ShapeOK, bad
  <2>2. UNCHANGED <<checkout, memory, main, ledger, push>> BY <1>4 DEF Configure, RunByHand
  <2>3. Forked' = Forked /\ Kept' BY <2>2 DEF Forked, checkout, memory, ShownInv, Kept
  <2> QED BY <2>1, <2>2, <2>3, Waits DEF memory
<1> QED BY <1>1, <1>2, <1>3, <1>4 DEF User

LEMMA OthersShown == ASSUME Inv, StillInv, ShownInv, NEW t \in Theirs, OthersLand(t[1], t[2]) PROVE ShownInv'
<1> DEFINE x == Commit(t[1], t[2], -Len(main))
<1>1. x \in Commits /\ main' = Append(main, x) /\ main \in Seq(Commits) /\ base \in Seq(Commits)
  BY TheirsAssumption DEF OthersLand, Inv, ShapeOK, HeadOK, Commit, Commits
<1>2. UNCHANGED <<story, push, checkout, memory, ledger>> BY DEF OthersLand
<1> HIDE DEF x
<1>3. LongestCommonPrefix({base, main'}) = LongestCommonPrefix({base, main}) BY <1>1, OneMore DEF StillInv, Trunk
<1>4. Forked' = Forked /\ Kept' /\ bad' = bad BY <1>2, <1>3 DEF Forked, checkout, memory, ShownInv, Kept, bad
<1> QED BY <1>2, <1>4, Waits DEF memory

LEMMA ShownKeeps == ASSUME Inv, StillInv, ShownInv, [Next]_vars PROVE ShownInv'
<1>1. CASE Ask
  <2>1. bad' = bad BY <1>1, StoryGoesOn DEF Ask, Inv, ShapeOK, bad
  <2>2. push'.at \in {"idle", "asked"} BY <1>1 DEF Ask, Idle
  <2> QED BY <1>1, <2>1, <2>2, NotYet DEF Ask, memory, ShownInv, Kept, Late
<1>2. CASE Refuse \/ \E arrives \in BOOLEAN : Land(arrives)
  <2>1. bad' = bad /\ push'.at = "idle" /\ UNCHANGED memory BY <1>2 DEF Refuse, Land, bad, Idle
  <2> QED BY <2>1, NotYet DEF memory, ShownInv, Kept, Late
<1>3. CASE \E t \in Theirs : OthersLand(t[1], t[2]) BY <1>3, OthersShown
<1>4. CASE UNCHANGED vars
  <2>1. bad' = bad /\ Forked' = Forked /\ Kept' /\ UNCHANGED <<memory, push, ledger>>
    BY <1>4 DEF vars, bad, Forked, checkout, memory, ShownInv, Kept
  <2> QED BY <2>1, Waits DEF memory
<1> QED BY <1>1, <1>2, <1>3, <1>4, CheckShown, FixShown, SpareShown, RunShown, RanShown, RememberShown,
           CertifyShown, UserShown DEF Next, Frame

LEMMA ShownStarts == ASSUME Init PROVE StillInv /\ ShownInv
<1>1. head.n > 0 /\ count > 0 BY DEF Init, Commit
<1>2. ~IsStrictPrefix(main, base) BY DEF Init, IsStrictPrefix
<1>3. push = Idle /\ certs = {} /\ stamps = {} BY DEF Init
<1> QED BY <1>1, <1>2, <1>3 DEF StillInv, Trunk, Still, ShownInv, SkipIsTold, Kept, Fingerprint, Late, Idle

LEMMA ShownInvariant == Spec => [](Inv /\ StillInv /\ ShownInv)
<1>1. Inv /\ StillInv /\ ShownInv /\ [Next]_vars => (Inv /\ StillInv /\ ShownInv)' BY NextKeeps, StillKeeps, ShownKeeps
<1> QED BY <1>1, InitKeeps, ShownStarts, PTL DEF Spec

(* Whatever moved while it ran: a certificate's parts are green in the code *)
(* it names, and so is what a stamp stands for - the touched and configured *)
(* parts, or those of a certificate of its tree and configuration - unless  *)
(* the checkout was touched while its push was under way.                   *)
THEOREM WhatSparesIsTrue == Spec => []WhatSparesARunIsTrue
<1>1. Inv /\ ShownInv => WhatSparesARunIsTrue
  <2>1. Inv => CertificatesHold BY DEF Inv
  <2>2. ASSUME ShownInv PROVE StampsHold BY <2>2 DEF ShownInv, Stamped, Fine, InCerts, StampsHold, Certified
  <2> QED BY <2>1, <2>2 DEF WhatSparesARunIsTrue
<1> QED BY <1>1, ShownInvariant, PTL

(* No push puts code on main that is red in a part it changes and the       *)
(* configuration tests, if nobody touched its checkout on the way and no    *)
(* owner's skip is on the log - run, certified or stamped.                  *)
Stays == Landing /\ push.still
         => bad[push.sha.code] \cap push.cfg \cap Changed(push.sha.code, push.over) = {} \/ In("skip")

THEOREM PushedMainIsGreen == Spec => MainStaysGreen
<1>1. Inv /\ StillInv /\ ShownInv /\ [Next]_vars => [Stays]_vars
  <2> SUFFICES ASSUME Inv, StillInv, ShownInv, Next, Landing, push.still
               PROVE bad[push.sha.code] \cap push.cfg \cap Changed(push.sha.code, push.over) = {} \/ In("skip")
    BY DEF Stays
  <2>1. push.at = "passed" /\ push # Idle /\ "main" \in push.call.to BY LandingIsALand DEF Landing
  <2>2. push.class = "merge" /\ push.owed = {} /\ push.head = push.sha /\ Shown(push)
        /\ (push.scope # "code" => Changed(push.head.code, push.over) = {})
    BY <2>1 DEF ShownInv, Fingerprint, Late, Class
  <2>3. CASE "tests" \in push.call.skips
    <3>1. Skips(push.call) BY <2>3 DEF Skips
    <3> QED BY <2>1, <3>1 DEF ShownInv, SkipIsTold, Late
  <2> QED BY <2>2, <2>3 DEF Shown, Fine
<1> QED BY <1>1, ShownInvariant, PTL DEF Spec, MainStaysGreen, Stays
=============================================================================
