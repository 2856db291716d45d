---------------------------- MODULE FakeRequests -----------------------------
(***************************************************************************)
(* The requests of the in-memory Reddit (adapters/reddit_fake): how each   *)
(* is charged to the call that caused it while listings are read in turns, *)
(* and how a scenario's planted failures are raised -- queues, one block   *)
(* page, crashes -- and asked for again at teardown.  A subreddit whose    *)
(* status is not "ok" refuses what asks for it by its name.                *)
(***************************************************************************)
EXTENDS Absent, FakeStatus, Naturals, FiniteSets, SequencesExt

CONSTANTS
  Times,         \* how often a failure may be planted for, Null: every time
  CrashPoints,   \* after how many operations a crash may be planted
  LastPage,      \* bound: pages of a listing
  MaxCalls,      \* bound: gateway calls
  MaxPlanted     \* bound: failures planted

Failures == [label : Nat, times : Nat \cup {Null}, fired : BOOLEAN]
Crashes  == [label : Nat, n : Nat]

ASSUME RequestsAssumption ==
  /\ {MaxCalls, MaxPlanted} \subseteq Nat /\ LastPage \in Nat \ {0}
  /\ Times \subseteq Nat \cup {Null} /\ CrashPoints \subseteq Nat
  /\ Null \notin Nat \cup Failures \cup Crashes

VARIABLES
  calls,         \* calls: the requests charged to each, and the page it reads next (0: over)
  current,       \* _current_call
  made,          \* _requests_made
  failures,      \* _next_failures
  block,         \* _html_403
  paged,         \* _page_failures of the one subreddit
  crash,         \* _crash
  completed,     \* _completed
  planted,       \* history: what was planted, in order; `off` once replaced or cleared
  raised,        \* history: the labels raised
  sent,          \* history: the requests each call has sent
  overlooked     \* history: a request was answered past a failure that had its turn

\* `banned` is shared with the items and stands by itself.
requestVars == <<calls, current, made, failures, block, paged, crash, completed, planted, raised, sent,
                 overlooked>>

CrashKinds == {"request", "page"}
Failure(label, times) == [label |-> label, times |-> times, fired |-> FALSE]

RequestsInit ==
  /\ calls = <<>> /\ current = 0 /\ made = 0
  /\ failures = <<>> /\ block = Null /\ paged = [p \in 1 .. LastPage |-> <<>>]
  /\ crash = [k \in CrashKinds |-> Null] /\ completed = [k \in CrashKinds |-> 0]
  /\ planted = <<>> /\ raised = <<>> /\ sent = <<>> /\ overlooked = FALSE /\ banned = FALSE

-----------------------------------------------------------------------------
(* Planting (injection.py).                                                 *)

Label == Len(planted) + 1

\* `off`: what this one takes the place of.
At(where, page) == [queue |-> where, page |-> page]
Plants(where, times, off) ==
  /\ Len(planted) < MaxPlanted
  /\ planted' = Append([l \in DOMAIN planted |->
                          IF l \in off THEN [planted[l] EXCEPT !.off = TRUE] ELSE planted[l]],
                       [where |-> where, times |-> times, off |-> FALSE])
  /\ UNCHANGED <<calls, current, made, raised, sent, overlooked>>

\* fail_next, rate_limit_next, set_auth_failed.
FailNext(times) ==
  /\ Plants(At("next", 0), times, {})
  /\ failures' = Append(failures, Failure(Label, times))
  /\ UNCHANGED <<block, paged, crash, completed>>

\* fail_page; fail_info keeps its queues the same way.
FailPage(page, times) ==
  /\ Plants(At("page", page), times, {})
  /\ paged' = [paged EXCEPT ![page] = Append(@, Failure(Label, times))]
  /\ UNCHANGED <<failures, block, crash, completed>>

\* set_html_403: one at a time, none for times = 0.
SetHtml403(times) ==
  /\ Plants(At("block", 0), times, IF block = Null THEN {} ELSE {block.label})
  /\ block' = IF times = 0 THEN Null ELSE Failure(Label, times)
  /\ UNCHANGED <<failures, paged, crash, completed>>

\* crash_after: the count starts again.
CrashAfter(kind, n) ==
  /\ Plants(At("crash", 0), 1, IF crash[kind] = Null THEN {} ELSE {crash[kind].label})
  /\ crash' = [crash EXCEPT ![kind] = [label |-> Label, n |-> n]]
  /\ completed' = [completed EXCEPT ![kind] = 0]
  /\ UNCHANGED <<failures, block, paged>>

-----------------------------------------------------------------------------
(* Requests (recording.py).                                                 *)

\* Slip: the last time is one too many.
Armed_OnceMore(f) == f.times # Null => f.times >= 0

\* _Failure.take has an exception to give.
Armed(f) == f.times # Null => f.times > 0
Taken(f) == [f EXCEPT !.fired = TRUE, !.times = IF @ \in {0, Null} THEN @ ELSE @ - 1]

\* Slip: only the head of the queue is asked.
FirstArmed_Head(queue) == IF queue # <<>> /\ Armed(Head(queue)) THEN 1 ELSE 0

\* _pop_failure: what is used up before it is dropped; 0 when none is left.
FirstArmed(queue) == SelectInSeq(queue, Armed)
Popped(queue) ==
  LET k == FirstArmed(queue)
  IN  IF k = 0 THEN <<>> ELSE <<Taken(queue[k])>> \o SubSeq(queue, k + 1, Len(queue))

Due(kind) == crash[kind] # Null /\ completed[kind] >= crash[kind].n

\* What the history says a failure still owes.
Fired(l) == Cardinality({i \in DOMAIN raised : raised[i] = l})
Owed(where) ==
  \E l \in DOMAIN planted :
    /\ planted[l].where \in where /\ ~planted[l].off
    /\ planted[l].times = Null \/ Fired(l) < planted[l].times

Raises(label) == raised' = Append(raised, label)
Passes(where, named) == overlooked' = (overlooked \/ Owed(where) \/ (named /\ banned))
Completes(kinds) == completed' = [k \in CrashKinds |-> completed[k] + (IF k \in kinds THEN 1 ELSE 0)]

\* One operation of these kinds, as _begin, _request and its page decide.  A crash that is due
\* comes before the request is counted,
Crashed(kinds) ==
  LET dying == {k \in kinds : Due(k)}
      kind  == IF "page" \in dying THEN "page" ELSE "request"
  IN  /\ dying # {}
      /\ Raises(crash[kind].label) /\ crash' = [crash EXCEPT ![kind] = Null] /\ Passes({}, FALSE)
      /\ UNCHANGED <<made, block, failures, paged, completed>>

\* then the one block page, which is dropped once it is used up,
Blocking == block # Null /\ Armed(block)
Counted(kinds) == (\A k \in kinds : ~Due(k)) /\ made' = made + 1 /\ crash' = crash

Blocked(kinds) ==
  /\ Counted(kinds) /\ Blocking
  /\ Raises(block.label) /\ block' = Taken(block) /\ Passes({}, FALSE)
  /\ UNCHANGED <<failures, paged, completed>>

\* then what is planted for the next request,
Failed(kinds) ==
  /\ Counted(kinds) /\ ~Blocking /\ block' = Null
  /\ FirstArmed(failures) # 0 /\ failures' = Popped(failures)
  /\ Raises(failures[FirstArmed(failures)].label) /\ Passes({At("block", 0)}, FALSE)
  /\ UNCHANGED <<paged, completed>>

\* then, the request over, the subreddit's status, if it was asked for by its name: an error that
\* nobody planted,
Requested(kinds) ==
  /\ Counted(kinds) /\ ~Blocking /\ block' = Null
  /\ FirstArmed(failures) = 0 /\ failures' = Popped(failures)

\* Slip: the failure planted for the page comes first.
Refuses_PageFirst(named, page) ==
  named /\ banned /\ (page # 0 => FirstArmed(paged[page]) = 0)

\* _check_status.
Refuses(named, page) == named /\ banned

Declined(kinds, named, page) ==
  /\ Requested(kinds) /\ Refuses(named, page)
  /\ raised' = raised /\ Passes({At("block", 0), At("next", 0)}, FALSE) /\ Completes({"request"})
  /\ UNCHANGED paged

\* then what is planted for the page,
PageFailed(kinds, named, page) ==
  /\ Requested(kinds) /\ ~Refuses(named, page)
  /\ page # 0 /\ FirstArmed(paged[page]) # 0 /\ paged' = [paged EXCEPT ![page] = Popped(@)]
  /\ Raises(paged[page][FirstArmed(paged[page])].label)
  /\ Passes({At("block", 0), At("next", 0)}, named) /\ Completes({"request"})

\* or else there is an answer.
Answered(kinds, named, page) ==
  /\ Requested(kinds) /\ ~Refuses(named, page)
  /\ IF page = 0 THEN paged' = paged
     ELSE FirstArmed(paged[page]) = 0 /\ paged' = [paged EXCEPT ![page] = Popped(@)]
  /\ raised' = raised
  /\ Passes({At("block", 0), At("next", 0), At("page", page)}, named)
  /\ Completes(kinds \cup {"request"})

Operation(kinds, named, page) ==
  /\ \/ Crashed(kinds) \/ Blocked(kinds) \/ Failed(kinds) \/ Declined(kinds, named, page)
     \/ PageFailed(kinds, named, page) \/ Answered(kinds, named, page)
  /\ UNCHANGED planted

\* iter_new_pages: recorded when it is called, read when its pages are.
Open ==
  /\ Len(calls) < MaxCalls
  /\ calls' = Append(calls, [cost |-> 0, page |-> 1]) /\ sent' = Append(sent, 0)
  /\ current' = Len(calls')
  /\ UNCHANGED <<made, failures, block, paged, crash, completed, planted, raised, overlooked>>

\* Slip: a page is charged to the call that was opened last.
Reading_Latest(i) == current

\* A listing makes itself the current call again before each page.
Reading(i) == i

\* One page of _iter_listing; an exception ends the iterator.
ReadPage(i) ==
  /\ i \in DOMAIN calls /\ calls[i].page # 0
  /\ current' = Reading(i)
  /\ Operation(CrashKinds, TRUE, calls[i].page)
  /\ LET cost == made' - made
         read == completed'["page"] # completed["page"]
         next == IF read /\ calls[i].page < LastPage THEN calls[i].page + 1 ELSE 0
     IN  /\ calls' = [[calls EXCEPT ![current'].cost = @ + cost] EXCEPT ![i].page = next]
         /\ sent' = [sent EXCEPT ![i] = @ + cost]

\* about, which asks for the subreddit by its name, or another call of one request, which does
\* not: fetch_tree, info and search do not look at the status.
Ask(named) ==
  /\ Len(calls) < MaxCalls
  /\ Operation({"request"}, named, 0)
  /\ calls' = Append(calls, [cost |-> made' - made, page |-> 0])
  /\ sent' = Append(sent, made' - made) /\ current' = Len(calls')

Planting ==
  \/ \E t \in Times : FailNext(t) \/ SetHtml403(t) \/ \E p \in 1 .. LastPage : FailPage(p, t)
  \/ \E k \in CrashKinds, n \in CrashPoints : CrashAfter(k, n)

Requesting ==
  Open \/ (\E named \in BOOLEAN : Ask(named)) \/ \E i \in 1 .. MaxCalls : ReadPage(i)

\* set_status and ban_subreddit leave the requests alone.
SetStatus == banned' \in BOOLEAN /\ UNCHANGED requestVars

RequestsNext == ((Planting \/ Requesting) /\ UNCHANGED banned) \/ SetStatus

RequestsSpec == RequestsInit /\ [][RequestsNext]_<<requestVars, banned>>

-----------------------------------------------------------------------------
(* Properties.                                                              *)

\* Every request is charged once, and to the call that sent it, however listings are read in
\* turns.
ChargesAreRight ==
  /\ \A i \in DOMAIN calls : calls[i].cost = sent[i]
  /\ made = FoldSeq(LAMBDA m, n : m + n, 0, [i \in DOMAIN calls |-> calls[i].cost])

\* Failures for the next requests are raised in the order they were planted in, none more often
\* than it was asked for, and no request gets past one that had its turn, nor past the status
\* of a subreddit it asks for.
RaisedAsPlanted ==
  /\ ~overlooked
  /\ \A l \in DOMAIN planted : planted[l].times # Null => Fired(l) <= planted[l].times
  /\ LET queued == {i \in DOMAIN raised : planted[raised[i]].where = At("next", 0)}
     IN  \A i, j \in queued : i < j => raised[i] <= raised[j]

\* Slip: a failure that is left over counts, fired or not.
Unconsumed_Left(f) == Armed(f)

\* _Failure.unconsumed.
Unconsumed(f) == ~f.fired /\ Armed(f)

\* assert_no_unconsumed_injections.
Leftover(queue) == {queue[i].label : i \in {j \in DOMAIN queue : Unconsumed(queue[j])}}
Pending ==
  Leftover(failures) \cup Leftover(IF block = Null THEN <<>> ELSE <<block>>)
    \cup (UNION {Leftover(paged[p]) : p \in 1 .. LastPage})
    \cup {crash[k].label : k \in {j \in CrashKinds : crash[j] # Null}}

\* At teardown a scenario is told of exactly the failures it never reached, but for those that
\* a second block page or crash took the place of.
TeardownIsHonest ==
  Pending = {l \in DOMAIN planted : ~planted[l].off /\ planted[l].times # 0 /\ Fired(l) = 0}

\* Together: a scenario met the failures it planted.
ScenariosAreMet == ChargesAreRight /\ RaisedAsPlanted /\ TeardownIsHonest
=============================================================================
