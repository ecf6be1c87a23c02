----------------------------- MODULE VisualWatch -----------------------------
(* internal/visualwatch: a page is captured, compared with a baseline picture  *)
(* on disk and searched for keywords. The poller and the skill                 *)
(* visual_watch_test evaluate one watch, each on its own copy of the row, which *)
(* it writes back whole at the end; watches do not touch each other. Times are  *)
(* ages that stop at the cooldown, the interval of the watch passes when it    *)
(* likes; how a page looks is a number, and a difference of Threshold counts.  *)
EXTENDS Faults, Integers

CONSTANTS
  Looks,         \* how a page may look: an interval of numbers
  Threshold,     \* of the difference between two looks
  Cooldown,      \* in steps of time
  Notifications, \* ways to notify to try: "change", "keywords", "both"; a bound
  MaxPageChanges \* bound: how often the page changes

WaysToNotify == {"change", "keywords", "both"}
ASSUME VisualAssumption ==
  /\ Looks \subseteq Nat /\ 0 \in Looks
  /\ Threshold \in Nat \ {0}   \* applyOptions, Significantly: nothing else is accepted
  /\ Cooldown \in Nat /\ MaxPageChanges \in Nat /\ Notifications \subseteq WaysToNotify

Never == Cooldown + 1
Ages == 0 .. Never
NoFile == -1
Torn == -2
Evaluators == {"poller", "test"}

VARIABLES
  vrow,        \* the row of visual_watches
  baseline,    \* the picture on disk, NoFile or Torn
  page,        \* how the page looks and whether it shows a keyword
  pageChanges, \* changes so far
  eval,        \* eval[p]: what an evaluator is at
  told,        \* history: the look the chat was last told of, or first accepted
  sinceAlert,  \* history: age of the last alert
  swallowed,   \* history: a change fell into the cooldown, or its alert was not sent
  troubled,    \* history: evaluations overlapped, a write failed, or a crash;
               \*   told, sinceAlert and swallowed are not kept any more
  tooSoon      \* history: an alert came within the cooldown

visual == <<vrow, baseline, page, pageChanges, eval, told, sinceAlert, swallowed, troubled, tooSoon>>
visualHistory == <<told, sinceAlert, swallowed, troubled, tooSoon>>

Rows == [status : {"none", "present", "removed"}, notify : WaysToNotify,
         hasBaseline : BOOLEAN, seen : BOOLEAN, alerted : Ages]
NewRow(notify) == [status |-> "present", notify |-> notify,
                   hasBaseline |-> FALSE, seen |-> FALSE, alerted |-> Never]

\* The copy of the row, the picture taken, its age, the time from the last alert
\* to it, and what was found in it.
NoEvaluation ==
  [stage |-> "idle", row |-> [NewRow("change") EXCEPT !.status = "none"], shot |-> 0, age |-> 0,
   since |-> Never, words |-> FALSE, changed |-> FALSE, newBaseline |-> FALSE]

Evaluations ==
  [stage : {"idle", "capture", "compare", "copy", "notify", "update"}, row : Rows, shot : Looks, age : Ages,
   since : Ages, words : BOOLEAN, changed : BOOLEAN, newBaseline : BOOLEAN]

VisualTypeOK ==
  /\ vrow \in Rows
  /\ baseline \in Looks \cup {NoFile, Torn}
  /\ page \in [look : Looks, words : BOOLEAN] /\ pageChanges \in 0 .. MaxPageChanges
  /\ eval \in [Evaluators -> Evaluations]
  /\ told \in Looks \cup {NoFile} /\ sinceAlert \in Ages
  /\ {swallowed, troubled, tooSoon} \subseteq BOOLEAN

VisualInit ==
  /\ vrow \in {[NewRow(notify) EXCEPT !.status = "none"] : notify \in Notifications}
  /\ baseline = NoFile
  /\ page = [look |-> 0, words |-> FALSE] /\ pageChanges = 0
  /\ eval = [p \in Evaluators |-> NoEvaluation]
  /\ told = NoFile /\ sinceAlert = Never
  /\ swallowed = FALSE /\ troubled = FALSE /\ tooSoon = FALSE

Older(age) == IF age < Cooldown THEN age + 1 ELSE age
Differs(a, b) == (IF a > b THEN a - b ELSE b - a) >= Threshold
IsIdle(p) == eval[p].stage = "idle"
NotifiesKeywords(row) == row.notify \in {"keywords", "both"}
NotifiesChange(row) == row.notify \in {"change", "both"}

\* History: from here on the row may say something else than the chat.
Trouble(happened) ==
  IF happened \/ troubled
  THEN troubled' = TRUE /\ told' = NoFile /\ sinceAlert' = Never /\ swallowed' = FALSE
  ELSE UNCHANGED <<told, sinceAlert, swallowed, troubled>>

(* ------------------------ time, the page, the skills ------------------------ *)

VisualTime ==
  /\ vrow' = [vrow EXCEPT !.alerted = Older(@)]
  /\ eval' = [p \in Evaluators |-> IF IsIdle(p) THEN eval[p]
                                   ELSE [eval[p] EXCEPT !.age = Older(@), !.row.alerted = Older(@)]]
  /\ sinceAlert' = Older(sinceAlert)
  /\ <<vrow', eval', sinceAlert'>> # <<vrow, eval, sinceAlert>>
  /\ UNCHANGED <<baseline, page, pageChanges, told, swallowed, troubled, tooSoon, faults>>

\* Keywords matter only to a watch that has some.
PageChanges ==
  /\ pageChanges < MaxPageChanges
  /\ pageChanges' = pageChanges + 1
  /\ \E look \in Looks, words \in {FALSE, NotifiesKeywords(vrow)} :
       page' = [look |-> look, words |-> words]
  /\ UNCHANGED <<vrow, baseline, eval, visualHistory, faults>>

VisualAdd ==
  /\ vrow.status = "none"
  /\ vrow' = NewRow(vrow.notify)
  /\ UNCHANGED <<baseline, page, pageChanges, eval, visualHistory, faults>>

\* The picture stays on disk.
VisualRemove ==
  /\ vrow.status = "present"
  /\ vrow' = [vrow EXCEPT !.status = "removed"]
  /\ CanFail("visual_removed") /\ Fault
  /\ UNCHANGED <<baseline, page, pageChanges, eval, visualHistory>>

(* -------------------------------- evaluation -------------------------------- *)

\* The row is read: by the poller in its list of due watches, by the skill alone.
StartEvaluation(p) ==
  /\ IsIdle(p) /\ vrow.status = "present"
  /\ eval' = [eval EXCEPT ![p] = [NoEvaluation EXCEPT !.stage = "capture", !.row = vrow]]
  /\ Trouble(\E q \in Evaluators : ~IsIdle(q))
  /\ UNCHANGED <<vrow, baseline, page, pageChanges, tooSoon, faults>>

\* A page that cannot be captured changes nothing, not even the time of the check.
Capture(p) ==
  /\ eval[p].stage = "capture"
  /\ \/ /\ eval' = [eval EXCEPT ![p] =
             [eval[p] EXCEPT !.stage = "compare", !.shot = page.look, !.words = page.words,
                             !.age = 0, !.since = eval[p].row.alerted]]
        /\ NoFault
     \/ /\ CanFail("capture_failed") /\ Fault
        /\ eval' = [eval EXCEPT ![p] = NoEvaluation]
  /\ UNCHANGED <<vrow, baseline, page, pageChanges, visualHistory>>

\* Faulty: every picture becomes the baseline.
BecomesBaselineAlways(e, changed) == TRUE

\* A first picture becomes the baseline, a later one if it differs enough.
BecomesBaseline(e, changed) == changed \/ ~e.row.hasBaseline

\* A baseline that cannot be read is left as it is. os.Create empties the old
\* picture before the new one is copied.
Compare(p) ==
  /\ eval[p].stage = "compare"
  /\ LET e == eval[p]
         changed == e.row.hasBaseline /\ baseline \in Looks /\ Differs(baseline, e.shot)
         keep == BecomesBaseline(e, changed)
     IN /\ eval' = [eval EXCEPT ![p].changed = changed, ![p].stage = IF keep THEN "copy" ELSE "notify"]
        /\ baseline' = IF keep THEN Torn ELSE baseline
  /\ UNCHANGED <<vrow, page, pageChanges, visualHistory, faults>>

CopyBaseline(p) ==
  /\ eval[p].stage = "copy"
  /\ LET first == ~eval[p].row.hasBaseline IN
     \/ /\ baseline' = eval[p].shot
        /\ eval' = [eval EXCEPT ![p].stage = "notify", ![p].row.hasBaseline = TRUE, ![p].newBaseline = first]
        /\ told' = IF first /\ ~troubled THEN eval[p].shot ELSE told
        /\ NoFault /\ UNCHANGED <<sinceAlert, swallowed, troubled>>
     \/ /\ CanFail("copy_failed") /\ Fault
        /\ eval' = [eval EXCEPT ![p].stage = "notify"]
        /\ Trouble(TRUE) /\ UNCHANGED baseline
  /\ UNCHANGED <<vrow, page, pageChanges, tooSoon>>

\* As of the time of the picture.
CoolingDown(e) == e.since < Cooldown

\* LastKeywordsSeen holds the keywords of this very check by now.
ShouldNotify(e, row) ==
  /\ ~CoolingDown(e)
  /\ \/ NotifiesChange(row) /\ e.changed
     \/ NotifiesKeywords(row) /\ e.words /\ (row.seen # e.words \/ e.newBaseline)

\* Faulty: the time of the alert is not put down.
AlertedForgets(row, age) == row

Alerted(row, age) == [row EXCEPT !.alerted = age]

\* Only the copy of the row is needed from here on.
OnlyRow(row) == [NoEvaluation EXCEPT !.stage = "update", !.row = row]

\* The alert counts as sent even when it is not.
Alert(p, e, row) ==
  /\ eval' = [eval EXCEPT ![p] = OnlyRow(Alerted(row, e.age))]
  /\ \/ NoFault /\ (IF troubled THEN UNCHANGED <<told, swallowed>> ELSE told' = e.shot /\ swallowed' = FALSE)
     \/ CanFail("visual_send_failed") /\ Fault /\ swallowed' = ~troubled /\ UNCHANGED told
  /\ sinceAlert' = IF troubled THEN Never ELSE e.age
  /\ tooSoon' = (tooSoon \/ sinceAlert < Cooldown)

NoAlert(p, e, row) ==
  /\ eval' = [eval EXCEPT ![p] = OnlyRow(row)]
  /\ swallowed' = (~troubled /\ (swallowed \/ e.changed))
  /\ UNCHANGED <<told, sinceAlert, tooSoon, faults>>

\* Keywords are read from the picture, or from the page as it is now when the
\* OCR fails; when that fails too, none are found.
NotifyVisual(p) ==
  /\ eval[p].stage = "notify"
  /\ \E words \in {eval[p].words} \cup (IF "ocr_failed" \in Events THEN {page.words, FALSE} ELSE {}) :
       LET e == [eval[p] EXCEPT !.words = words]
           row == [e.row EXCEPT !.seen = words]
       IN IF ShouldNotify(e, row) THEN Alert(p, e, row) ELSE NoAlert(p, e, row)
  /\ UNCHANGED <<vrow, baseline, page, pageChanges, troubled>>

\* The whole row is written, unless it was removed.
UpdateVisual(p) ==
  /\ eval[p].stage = "update"
  /\ \/ /\ vrow' = IF vrow.status = "present" THEN eval[p].row ELSE vrow
        /\ NoFault /\ UNCHANGED <<told, sinceAlert, swallowed, troubled>>
     \/ CanFail("visual_update_failed") /\ Fault /\ Trouble(TRUE) /\ UNCHANGED vrow
  /\ eval' = [eval EXCEPT ![p] = NoEvaluation]
  /\ UNCHANGED <<baseline, page, pageChanges, tooSoon>>

\* The process ends in the middle of whatever it does, and starts again.
VisualCrash ==
  /\ CanFail("visual_crash") /\ Fault
  /\ Trouble(\E p \in Evaluators : ~IsIdle(p))
  /\ eval' = [p \in Evaluators |-> NoEvaluation]
  /\ UNCHANGED <<vrow, baseline, page, pageChanges, tooSoon>>

Evaluate(p) ==
  Capture(p) \/ Compare(p) \/ CopyBaseline(p) \/ NotifyVisual(p) \/ UpdateVisual(p)

VisualNext ==
  \/ VisualTime \/ PageChanges \/ VisualAdd \/ VisualRemove \/ VisualCrash
  \/ \E p \in Evaluators : StartEvaluation(p) \/ Evaluate(p)

(* -------------------------------- properties -------------------------------- *)

\* No two alerts of a watch within its cooldown, as long as its evaluations do
\* not overlap and its row is written (shouldNotify, Evaluate).
VisualCooldownKept == ~tooSoon

\* Small changes do not add up unseen: the picture that later ones are compared
\* with differs little from what the chat was last shown, unless a change was
\* swallowed (evaluate, persistBaseline).
DriftIsTold ==
  /\ \A p \in Evaluators : IsIdle(p)
  /\ ~swallowed /\ ~troubled
  /\ baseline \in Looks /\ NotifiesChange(vrow)
  => ~Differs(baseline, told)

\* Checks come due again and again, and come to an end.
VisualFairness ==
  /\ WF_<<visual, faults>>(VisualTime)
  /\ WF_<<visual, faults>>(StartEvaluation("poller"))
  /\ \A p \in Evaluators : WF_<<visual, faults>>(Evaluate(p))

VisualSpec == VisualInit /\ FaultsInit /\ [][VisualNext]_<<visual, faults>> /\ VisualFairness

\* A page that changed for good is told of in the end, though captures fail on
\* the way and the agent is restarted.
EventuallyTold ==
  <>[](vrow.status = "present" /\ NotifiesChange(vrow) /\ ~swallowed /\ ~troubled
         => told # NoFile /\ ~Differs(page.look, told))
=============================================================================
