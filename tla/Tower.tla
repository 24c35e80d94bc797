-------------------------------- MODULE Tower --------------------------------
(***************************************************************************)
(* What the steward of a host sees of its workers, and says to them        *)
(* (tower.py, report.py, and the screens of dispatch.py): the reports of   *)
(* this host and those other hosts published, the table with its findings, *)
(* the watch that ends with a report line, a silent session or one at a    *)
(* permission prompt, and `say`, which types into a session's window.      *)
(*                                                                         *)
(* Time passes in steps; minutes are counted in them. The sessions and     *)
(* what they do are the environment's. One watch at a time, armed again    *)
(* and again; one text said at a time. Left out of the table: everything   *)
(* about plans, overlaps, gates, balance and branches elsewhere.           *)
(***************************************************************************)
EXTENDS Naturals, Sequences, FiniteSets, FiniteSetsExt

CONSTANTS
    Workers,      \* the branches with a session, one each
    Away,         \* those whose session is on another host
    StaleAfter, PromptAfter, WaitAfter,
    Scenes        \* per name: what may happen, and how much of it

ASSUME AwayAssumption == Away \subseteq Workers
ASSUME MinutesAssumption ==
    /\ {StaleAfter, PromptAfter, WaitAfter} \subseteq Nat \ {0} /\ PromptAfter <= WaitAfter
ASSUME ScenesAssumption == \A n \in DOMAIN Scenes :
    /\ Scenes[n].time \in Nat /\ Scenes[n].moves \in Nat
    /\ Scenes[n].words \in SUBSET {"planned", "pushed", "blocked", "review-pass", "idle", "failed"}

VARIABLES
    scene,
    now,
    file,     \* this host's report lines
    origin,   \* the lines another host has published
    fetched,  \* as this clone fetched them
    session,
    commit,   \* when each branch's worktree had its last commit
    count,    \* history: how often each session stirred
    moves,    \* bound
    watch,
    seen,     \* the episodes announced, per kind (the two files beside the reports)
    told,     \* history: what the watches have printed; in watch, what killed ones have not
    talk      \* the say under way

seeing == <<session, commit, count>>
towerVars == <<scene, now, file, origin, fetched, seeing, moves, watch, seen, told, talk>>

T == Scenes[scene]
Here == Workers \ Away
Ago(t) == now - t

-----------------------------------------------------------------------------
(* Reports (report.py).                                                     *)
Report(w, word, by) == [worker |-> w, word |-> word, at |-> now, by |-> by]
NoReport == [word |-> "none", at |-> 0]

(* The last of the lines that are Ok, by their own clock; of two at a time, *)
(* the later line.                                                          *)
Newest(at) == CHOOSE i \in DOMAIN at : \A j \in DOMAIN at : at[j] < at[i] \/ (at[j] = at[i] /\ j <= i)
Last(lines, Ok(_)) ==
    LET at == [i \in {j \in DOMAIN lines : Ok(lines[j])} |-> lines[i].at]
    IN IF DOMAIN at = {} THEN NoReport ELSE lines[Newest(at)]

(* read_reports: this host's file, and the other hosts' as fetched.         *)
ReadReports(remote) == file \o (IF remote THEN fetched ELSE <<>>)
LatestReport(remote, w) == Last(ReadReports(remote), LAMBDA r : r.worker = w)

(* session_report: an older one is the phase before's word.                 *)
SessionReport(w) == Last(file, LAMBDA r : r.worker = w /\ r.at >= session[w].started)

(* train_holds: `idle` and `planned` neither hold nor release, nor does the *)
(* train's own `blocked`.                                                   *)
HoldWords == {"blocked", "pushed", "review-pass"}
HoldReport(remote, w) ==
    Last(ReadReports(remote),
         LAMBDA r : r.worker = w /\ r.word \in HoldWords /\ ~(r.word = "blocked" /\ r.by = "train"))
TrainHolds == {w \in Workers : HoldReport(TRUE, w).word = "blocked"}

-----------------------------------------------------------------------------
(* Sessions, as their records, screens and branches show them.              *)
NewSession == [started |-> now, live |-> TRUE, wrote |-> now, dialog |-> 0, line |-> "empty",
               tasks |-> "open", status |-> 0, asks |-> FALSE]

(* phase_over: by its own report, and for an execute that pushed, by the    *)
(* tasks of its plans on origin. Every session here is one or the other.    *)
PhaseOver(w) ==
    LET word == SessionReport(w).word IN
    CASE word \in {"idle", "failed"} -> "yes"
      [] T.phase = "review" /\ word \in {"review-pass", "blocked"} -> "yes"
      [] T.phase = "execute" /\ word = "pushed" ->
            [open |-> "no", done |-> "yes", unread |-> "unread"][session[w].tasks]
      [] OTHER -> "no"

Parked == {"review-pass", "idle", "failed"}
QuietTooLong(w, since, rep) ==
    /\ rep.word \notin Parked
    /\ Ago(since) >= StaleAfter
    /\ rep.word = "none" \/ Ago(rep.at) >= StaleAfter
    /\ session[w].status = 0 \/ Ago(session[w].status) >= StaleAfter

(* stale_sessions: a session's quiet starts no earlier than the session.    *)
Since(w) == Max({commit[w], session[w].started})
Stale(w) == /\ w \in Here /\ session[w].live
            /\ QuietTooLong(w, Since(w), SessionReport(w))
            /\ PhaseOver(w) # "yes"
(* Seeded fault: one episode a session.                                     *)
EpisodeOfSession(w) == <<session[w].started>>
StaleEpisode(w) == <<session[w].started, Max({Since(w), SessionReport(w).at})>>

(* prompt_sessions, with the dialog read off a live window's screen.        *)
AtPrompt(w) == /\ w \in Here /\ session[w].live /\ session[w].dialog # 0
               /\ Ago(session[w].wrote) >= PromptAfter
               /\ PhaseOver(w) # "yes"
PromptEpisode(w) == <<session[w].started, session[w].wrote, session[w].dialog>>

TowerInit ==
    /\ scene \in DOMAIN Scenes
    /\ now = 1 /\ file = <<>> /\ origin = <<>> /\ fetched = <<>>
    /\ session = [w \in Workers |-> [NewSession EXCEPT !.live = w \in Here]]
    /\ commit = [w \in Workers |-> 0]
    /\ count = [w \in Workers |-> [stale |-> 0, prompt |-> 0, life |-> 0]]
    /\ moves = 0
    /\ watch = [pc |-> "off", offset |-> 0, due |-> FALSE, polled |-> FALSE, found |-> {}, hits |-> {}, lost |-> {}]
    /\ seen = [prompt |-> {}, stale |-> {}]
    /\ told = {}
    /\ talk = [pc |-> "idle", to |-> CHOOSE w \in Workers : TRUE, tries |-> 0, gone |-> FALSE, took |-> FALSE]

-----------------------------------------------------------------------------
(* What happens around the steward.                                         *)
Moves(what) == what \in T.may /\ moves < T.moves /\ moves' = moves + 1
Stirs(w, of) == count' = [count EXCEPT ![w] = [k \in DOMAIN @ |->
                             IF k \in of \cup {"life"} THEN @[k] + 1 ELSE @[k]]]
Works(w) == w \in Here /\ session[w].live
Same == UNCHANGED <<scene, now, watch, seen, told, talk>>

Tick == /\ now < T.time /\ now' = now + 1
        /\ UNCHANGED <<scene, file, origin, fetched, seeing, moves, watch, seen, told, talk>>

Commit(w) ==
    /\ Moves("commit") /\ Works(w) /\ commit' = [commit EXCEPT ![w] = now]
    /\ Stirs(w, {"stale"}) /\ Same /\ UNCHANGED <<file, origin, fetched, session>>

(* write_report: the worker's own line, or one about it (the steward's,     *)
(* another host's published with --sync).                                   *)
Reports(w, word) ==
    /\ Moves("report") /\ w \in Here /\ file' = Append(file, Report(w, word, "worker"))
    /\ Stirs(w, {"stale"}) /\ Same /\ UNCHANGED <<origin, fetched, session, commit>>

Publishes(w, word) ==
    /\ Moves("publish") /\ origin' = Append(origin, Report(w, word, "host"))
    /\ Same /\ UNCHANGED <<file, fetched, seeing>>

FetchReports ==
    /\ fetched # origin /\ fetched' = origin
    /\ Same /\ UNCHANGED <<file, origin, seeing, moves>>

(* Its status file, its plan's tasks on origin, its plan's open question.   *)
Beats(w) ==
    /\ Moves("beat") /\ Works(w) /\ session' = [session EXCEPT ![w].status = now]
    /\ Stirs(w, {}) /\ Same /\ UNCHANGED <<file, origin, fetched, commit>>
Turns(w, tasks) ==
    /\ Moves("turn") /\ Works(w) /\ session' = [session EXCEPT ![w].tasks = tasks]
    /\ Stirs(w, {}) /\ Same /\ UNCHANGED <<file, origin, fetched, commit>>
Asks(w) ==
    /\ Moves("ask") /\ Works(w) /\ session' = [session EXCEPT ![w].asks = ~@]
    /\ Same /\ UNCHANGED <<file, origin, fetched, commit, count>>

(* Its screen: output, a dialog, the dialog answered by somebody attached.  *)
Writes(w, dialog) ==
    /\ Moves("write") /\ Works(w) /\ (dialog = 0 \/ session[w].dialog = 0)
    /\ session' = [session EXCEPT ![w].wrote = now, ![w].dialog = dialog]
    /\ Stirs(w, {"prompt"}) /\ Same /\ UNCHANGED <<file, origin, fetched, commit>>

(* dispatch stops it or it ends; dispatch starts the next.                  *)
Ends(w) ==
    /\ Moves("end") /\ Works(w) /\ session' = [session EXCEPT ![w].live = FALSE]
    /\ talk' = [talk EXCEPT !.gone = @ \/ talk.to = w]
    /\ UNCHANGED <<scene, now, watch, seen, told, file, origin, fetched, commit, count>>
Starts(w) ==
    /\ Moves("end") /\ w \in Here /\ ~session[w].live
    /\ session' = [session EXCEPT ![w] = NewSession]
    /\ Stirs(w, {"stale", "prompt"}) /\ Same /\ UNCHANGED <<file, origin, fetched, commit>>

Around == \/ Tick \/ FetchReports
          \/ \E w \in Workers : \/ Commit(w) \/ Beats(w) \/ Asks(w) \/ Ends(w) \/ Starts(w)
                                \/ \E word \in T.words : Reports(w, word) \/ Publishes(w, word)
                                \/ \E t \in {"open", "done", "unread"} : Turns(w, t)
                                \/ \E d \in 0..2 : Writes(w, d)

-----------------------------------------------------------------------------
(* wait: from the file's end on; a match, a silence or a prompt ends it.    *)
WatchSame == UNCHANGED <<scene, now, file, origin, fetched, seeing, moves, talk>>

Arm ==
    /\ T.watched /\ watch.pc = "off"
    /\ watch' = [watch EXCEPT !.pc = "armed", !.offset = Len(file), !.due = TRUE, !.polled = FALSE]
    /\ WatchSame /\ UNCHANGED <<seen, told>>

NewLines == {<<"line", i, 0, 0>> : i \in {j \in watch.offset + 1..Len(file) : file[j].word \in T.words}}
Poll ==
    /\ watch.pc = "armed"
    /\ watch' = [watch EXCEPT !.polled = TRUE, !.offset = Len(file), !.hits = NewLines,
                     !.pc = IF NewLines # {} THEN "print" ELSE IF watch.due THEN "prompts" ELSE "armed",
                     !.due = @ /\ NewLines # {}]
    /\ WatchSame /\ UNCHANGED <<seen, told>>

(* The next look at the sessions is due.                                    *)
Minute == /\ watch.pc = "armed" /\ ~watch.due /\ watch' = [watch EXCEPT !.due = TRUE]
          /\ WatchSame /\ UNCHANGED <<seen, told>>

(* _announce: who is seen and not announced in this episode; the file then  *)
(* holds the episodes of now. A look, and later the file and the print.     *)
Rows(kind) == IF kind = "prompt"
              THEN {[to |-> w, episode |-> PromptEpisode(w), nr |-> count[w].prompt, life |-> count[w].life]
                        : w \in {v \in Workers : AtPrompt(v)}}
              ELSE {[to |-> w, episode |-> StaleEpisode(w), nr |-> count[w].stale, life |-> count[w].life]
                        : w \in {v \in Workers : Stale(v)}}
Look(kind, at, to) ==
    /\ watch.pc = at /\ watch' = [watch EXCEPT !.found = Rows(kind), !.pc = to]
    /\ WatchSame /\ UNCHANGED <<seen, told>>

(* Seeded fault: only who is new is kept.                                   *)
Episodes(rows) == {<<r.to, r.episode>> : r \in rows}
NewRows(kind) == {r \in watch.found : <<r.to, r.episode>> \notin seen[kind]}
KeptNew(kind) == Episodes(NewRows(kind))
Kept(kind) == Episodes(watch.found)
Announce(kind, at, to) ==
    /\ watch.pc = at
    /\ LET hits == watch.hits \cup {<<kind, r.to, r.nr, r.life>> : r \in NewRows(kind)} IN
         watch' = [watch EXCEPT !.found = {}, !.hits = hits,
                       !.pc = IF to = "prompts-done" THEN "sessions" ELSE
                              IF hits = {} THEN "armed" ELSE "print"]
    /\ seen' = [seen EXCEPT ![kind] = Kept(kind)]
    /\ WatchSame /\ UNCHANGED told

(* The match ends the watch; so does its time, at the head of its loop, and *)
(* whoever armed it, at any time: what it has announced is then never told. *)
Matched == /\ watch.pc = "print" /\ told' = told \cup watch.hits
           /\ watch' = [watch EXCEPT !.pc = "off", !.hits = {}]
           /\ WatchSame /\ UNCHANGED seen
TimesOut == /\ watch.pc = "armed" /\ watch.polled /\ watch' = [watch EXCEPT !.pc = "off"]
            /\ WatchSame /\ UNCHANGED <<seen, told>>
Killed == /\ watch.pc # "off" /\ Moves("kill")
          /\ watch' = [watch EXCEPT !.pc = "off", !.found = {}, !.hits = {}, !.lost = @ \cup watch.hits]
          /\ UNCHANGED <<scene, now, file, origin, fetched, seeing, talk, seen, told>>

Watches == \/ Arm \/ Poll \/ Matched
           \/ Look("prompt", "prompts", "prompted") \/ Announce("prompt", "prompted", "prompts-done")
           \/ Look("stale", "sessions", "looked") \/ Announce("stale", "looked", "stale-done")

-----------------------------------------------------------------------------
(* say: type into the window's input line, look, press Enter, look again.   *)
SaySame == UNCHANGED <<scene, now, file, origin, fetched, commit, moves, watch, seen, told>>
Goes(pc) == talk' = [talk EXCEPT !.pc = pc]
Screen == session[talk.to]
Screens(screen) == session' = [session EXCEPT ![talk.to] = screen]

(* What is read of the input line: a dialog may stand in its place; the     *)
(* window is that session's, and shows none when it has ended.              *)
InputLine == IF talk.gone THEN {"unreadable"}
             ELSE {Screen.line} \cup (IF Screen.dialog # 0 THEN {"unreadable"} ELSE {})
Dialog == ~talk.gone /\ Screen.dialog # 0

Say(w) ==
    /\ Moves("say") /\ talk.pc \in {"idle", "said", "unsaid"} /\ Works(w)
    /\ talk' = [pc |-> "look", to |-> w, tries |-> 3, gone |-> FALSE, took |-> FALSE]
    /\ UNCHANGED <<scene, now, file, origin, fetched, seeing, watch, seen, told>>

LooksFirst ==
    /\ talk.pc = "look"
    /\ Goes(IF ~Dialog /\ ~talk.gone /\ Screen.line = "empty" THEN "type" ELSE "unsaid")
    /\ SaySame /\ UNCHANGED <<session, count>>

(* A key that meets a dialog answers it; typed text may not arrive.         *)
Answered == /\ Screens([Screen EXCEPT !.dialog = 0, !.wrote = now]) /\ Stirs(talk.to, {"prompt"})
Types ==
    /\ talk.pc = "type" /\ Goes("typed")
    /\ IF talk.gone THEN UNCHANGED <<session, count>>
       ELSE IF Dialog THEN Answered
       ELSE UNCHANGED count /\ \E line \in {"ours", Screen.line} : Screens([Screen EXCEPT !.line = line])
    /\ SaySame

(* What does not show as typed is cleared, not sent. Seeded fault: sent.    *)
SendsBlind(line) == TRUE
ShowsOurs(line) == line = "ours"
LooksAfter ==
    /\ talk.pc = "typed"
    /\ \E line \in InputLine :
         IF Dialog \/ line = "unreadable" THEN Goes("unsaid") /\ UNCHANGED session
         ELSE IF ShowsOurs(line) THEN Goes("enter") /\ UNCHANGED session
         ELSE Goes("unsaid") /\ Screens([Screen EXCEPT !.line = "empty"])
    /\ SaySame /\ UNCHANGED count

(* A busy worker leaves the line as it is.                                  *)
Enters ==
    /\ talk.pc = "enter"
    /\ IF talk.gone THEN UNCHANGED <<session, count>> /\ Goes("unsaid")
       ELSE IF Dialog THEN Answered /\ Goes("confirm")
       ELSE \/ /\ Screen.line = "ours" /\ Screens([Screen EXCEPT !.line = "empty", !.wrote = now])
               /\ Stirs(talk.to, {"prompt"})
               /\ talk' = [talk EXCEPT !.pc = "confirm", !.took = TRUE]
            \/ UNCHANGED <<session, count>> /\ Goes("confirm")
    /\ SaySame

Confirms ==
    /\ talk.pc = "confirm"
    /\ \E line \in InputLine :
         IF line = "unreadable" THEN Goes("unsaid")
         ELSE IF line # "ours" THEN Goes("said")
         ELSE IF Dialog \/ talk.tries = 0 THEN Goes("unsaid")
         ELSE talk' = [talk EXCEPT !.pc = "enter", !.tries = @ - 1]
    /\ SaySame /\ UNCHANGED <<session, count>>

Says == (\E w \in Workers : Say(w)) \/ LooksFirst \/ Types \/ LooksAfter \/ Enters \/ Confirms

TowerNext == Around \/ Watches \/ Minute \/ TimesOut \/ Killed \/ Says

(* A watch is armed again and goes on, and its minutes pass; so does time.  *)
TowerFair == WF_towerVars(Watches) /\ WF_towerVars(Minute) /\ WF_towerVars(Tick)

TowerSpec == TowerInit /\ [][TowerNext]_towerVars /\ TowerFair

-----------------------------------------------------------------------------
(* The table (build, findings): what it says of sessions and reports.       *)
Quiet(w) == Ago(session[w].wrote)
(* Asked of a quiet worker and of one that ended; else not known.           *)
OverShown(w) == IF ~session[w].live \/ Quiet(w) >= WaitAfter THEN PhaseOver(w) ELSE "unread"

SessionFindings(w) ==
    LET s == session[w] IN
    IF w \in Away THEN {}
    ELSE IF ~s.live THEN IF OverShown(w) # "yes" THEN {"dead-worker"} ELSE {}
    ELSE IF s.dialog # 0 /\ OverShown(w) # "yes"
         THEN IF Quiet(w) >= PromptAfter THEN {"permission-prompt"} ELSE {}
    ELSE IF Quiet(w) < WaitAfter \/ OverShown(w) = "yes" THEN {}
    ELSE IF s.asks \/ SessionReport(w).word = "blocked" THEN {"waiting-for-input"}
    ELSE {"question-unrouted"}

ReportFindings(remote, w) ==
    LET rep == LatestReport(remote, w) IN
    (IF rep.word = "failed" THEN {"failed"} ELSE {})
    \cup (IF rep.word = "blocked" /\ Ago(rep.at) >= StaleAfter THEN {"blocked"} ELSE {})
    \cup (IF w \in Here /\ QuietTooLong(w, commit[w], rep) THEN {"stale-worker"} ELSE {})

(* live_holds, beside the latest reports as the table lists them. Seeded    *)
(* fault: the holds of the reports the table reads.                         *)
HoldsAsListed(remote, w) ==
    IF HoldReport(remote, w).word = "blocked" /\ LatestReport(remote, w).word # "blocked" THEN {"train-hold"} ELSE {}
HoldFindings(remote, w) ==
    IF w \in TrainHolds /\ LatestReport(remote, w).word # "blocked" THEN {"train-hold"} ELSE {}

Findings(remote, w) == SessionFindings(w) \cup ReportFindings(remote, w) \cup HoldFindings(remote, w)

-----------------------------------------------------------------------------
(* Properties.                                                              *)

(* tower.wait: a re-armed watch does not wake on the same silence, prompt   *)
(* or line again - whatever was looked at, ended or killed in between.      *)
WakesOnce == watch.pc = "print" => watch.hits \cap told = {}

(* tower.wait: a session that falls silent and stays so, or stays at a      *)
(* prompt, wakes a watch - in this episode, however often it stirred and    *)
(* was announced before, if the watch is armed again and again. Only a kill *)
(* of the very watch that has announced the episode and not yet printed it  *)
(* takes the wake away; one killed before that leaves it to the next.       *)
Of(hits, kind, w, nr) == \E h \in hits : h[1] = kind /\ h[2] = w /\ h[3] = nr
ToldOrLost(kind, w, nr) == Of(told, kind, w, nr) \/ Of(watch.lost, kind, w, nr)
SilenceIsTold == T.watched => \A w \in Here :
    /\ <>[]Stale(w) => <>[]ToldOrLost("stale", w, count[w].stale)
    /\ <>[]AtPrompt(w) => <>[]ToldOrLost("prompt", w, count[w].prompt)

(* findings: whoever waits at its screen, its phase not over, is in the     *)
(* table; and whoever the train holds is - as a hold, or by the `blocked`   *)
(* the table shows for it - with or without --remote.                       *)
TableHidesNobody == \A w \in Workers, remote \in BOOLEAN :
    /\ session[w].live /\ Quiet(w) >= WaitAfter /\ PhaseOver(w) # "yes" =>
          Findings(remote, w) \cap {"permission-prompt", "waiting-for-input", "question-unrouted"} # {}
    /\ w \in TrainHolds =>
          "train-hold" \in Findings(remote, w) \/ LatestReport(remote, w).word = "blocked"

(* dispatch.say: said is heard: the worker has taken the text, whatever     *)
(* dialog opened meanwhile and whatever did not arrive.                     *)
SaidIsHeard == talk.pc = "said" => talk.took
=============================================================================
