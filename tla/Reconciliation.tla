--------------------------- MODULE Reconciliation ---------------------------
(***************************************************************************)
(* The Reconciliation component                                            *)
(* (packages/journals/src/components/Reconciliation.ts): the matches and   *)
(* their verdicts, the proposals asked of a worker pool, the section in the*)
(* page and the rebuild of it that waits for a row to fade out.            *)
(*                                                                         *)
(* The pool answers a request with the proposals of its own input or, when *)
(* terminated, rejects it (JobService); a request carries the answer to its*)
(* own input, which is also what the view computes itself when rejected.   *)
(* What the section shows is the ledger and the matches it was built from. *)
(***************************************************************************)
EXTENDS ProposeMatches

CONSTANTS
    Ledger,         \* the statements with their postings
    MatchOptions,   \* dateWindowDays, maxGroupSize and maxSumCombinations
    Saved,          \* the matches a host has kept of each ledger
    MaxGestures     \* bound on option changes and verdicts

VARIABLES
    options,    \* [ledger, saved, pooled]: are matches given, is there a pool
    working,    \* isWorkingPool() of the pool
    matches,
    version,    \* proposalsVersion
    requests,   \* the proposals asked for that have not landed or been dropped
    section,    \* what the page shows, None when not mounted
    pending,    \* the id of pendingVerdict, None when there is none
    commits,    \* the frames and timers armed for deferred commits
    gestures,   \* history: how many option changes and verdicts
    outdated,   \* history: the matches are answers to a question withdrawn
    undercut    \* history: the data changed under a request and it was not told

view == <<matches, version, requests, outdated, undercut>>
page == <<section, pending, commits>>
vars == <<options, working, view, page, gestures>>

\* proposeMatches of each ledger.
Proposed == [ledger \in Ledger |-> Proposals(ledger.lines, ledger.postings, MatchOptions)]

MatchSet == UNION {MatchOf(ledger) : ledger \in Ledger}

ASSUME LedgerAssumption ==
    /\ \A ledger \in Ledger : IsLedger(ledger) /\ Balanced(ledger, Saved[ledger])
    /\ MatchOptions.window \in Nat /\ MatchOptions.group \in Nat

ASSUME NoneAssumption ==
    /\ None \notin Int
    /\ None \notin [ledger : Ledger, matches : Seq(MatchSet), served : BOOLEAN]

Options == [ledger : Ledger, saved : BOOLEAN, pooled : BOOLEAN]

Drawn(ledger, ms) == [ledger |-> ledger, matches |-> ms, served |-> FALSE]

-----------------------------------------------------------------------------
(* The section *)

WithoutPending == {c \in commits : c.id # pending}

\* Bug variant: the deferred commit is forgotten but not cancelled.
RerenderKeepsTimer(ledger, ms) ==
    /\ pending' = None
    /\ commits' = commits
    /\ section' = IF section = None THEN None ELSE Drawn(ledger, ms)

\* rerender: cancelPendingVerdict, then the section built anew.
Rerender(ledger, ms) ==
    /\ pending' = None
    /\ commits' = WithoutPending
    /\ section' = IF section = None THEN None ELSE Drawn(ledger, ms)

\* render: builds the section in a container that has none, else rebuilds it.
Mount ==
    /\ UNCHANGED <<options, working, view, gestures>>
    /\ \/ section' = Drawn(options.ledger, matches) /\ UNCHANGED <<pending, commits>>
       \/ section # None /\ Rerender(options.ledger, matches)

\* hydrate: takes over what the server rendered of the same options, without a
\* pool; the host does it once and before it renders.
Hydrate ==
    /\ section = None
    /\ section' = [ledger |-> options.ledger, served |-> TRUE,
                   matches |-> IF options.saved THEN Saved[options.ledger]
                                                ELSE Proposed[options.ledger]]
    /\ UNCHANGED <<options, working, view, pending, commits, gestures>>

CleanUp ==
    /\ section # None
    /\ section' = None
    /\ pending' = None
    /\ commits' = WithoutPending
    /\ UNCHANGED <<options, working, view, gestures>>

-----------------------------------------------------------------------------
(* Options and proposals *)

InFlight == {r \in requests : r.version = version}

Overtaken == {[r EXCEPT !.overtaken = TRUE] : r \in requests}

\* Bug variant: a request is made under a version that is not kept.
InitializeUncounted(o) ==
    /\ outdated' = FALSE
    /\ UNCHANGED <<version, undercut>>
    /\ IF ~o.saved /\ o.pooled /\ working
       THEN /\ matches' = <<>>
            /\ requests' = Overtaken \cup
                 {[version |-> version + 1, answer |-> Proposed[o.ledger],
                   stage |-> "asked", overtaken |-> FALSE]}
       ELSE /\ matches' = IF o.saved THEN Saved[o.ledger] ELSE Proposed[o.ledger]
            /\ requests' = Overtaken

\* initializeMatches: the matches given, or proposals made on the spot, or asked
\* of the pool.  Only asking bumps the version.
InitializeMatches(o) ==
    /\ outdated' = FALSE
    /\ IF ~o.saved /\ o.pooled /\ working
       THEN /\ matches' = <<>>
            /\ version' = version + 1
            /\ requests' = Overtaken \cup
                 {[version |-> version + 1, answer |-> Proposed[o.ledger],
                   stage |-> "asked", overtaken |-> FALSE]}
            /\ undercut' = FALSE
       ELSE /\ matches' = IF o.saved THEN Saved[o.ledger] ELSE Proposed[o.ledger]
            /\ requests' = Overtaken
            /\ undercut' = (undercut \/ InFlight # {})
            /\ UNCHANGED version

\* Bug variant: the section is rebuilt before the matches are derived.
SetOptionsDrawsFirst(o) ==
    /\ gestures < MaxGestures
    /\ gestures' = gestures + 1
    /\ options' = o
    /\ UNCHANGED working
    /\ IF o.ledger # options.ledger \/ o.saved
       THEN /\ InitializeMatches(o)
            /\ Rerender(o.ledger, matches)
       ELSE UNCHANGED <<view, page>>

\* setOptions with a fresh object: new data or matches start over, anything else
\* keeps the verdicts.
SetOptions(o) ==
    /\ gestures < MaxGestures
    /\ gestures' = gestures + 1
    /\ options' = o
    /\ UNCHANGED working
    /\ IF o.ledger # options.ledger \/ o.saved
       THEN InitializeMatches(o) /\ Rerender(o.ledger, matches')
       ELSE UNCHANGED <<view, page>>

\* The request r goes on to a stage, or is dropped.
Moved(r, stage) == (requests \ {r}) \cup {[r EXCEPT !.stage = stage]}

\* The pool resolves the promise.
PoolAnswers(r) ==
    /\ r.stage = "asked"
    /\ requests' = Moved(r, "answered")
    /\ UNCHANGED <<options, working, matches, version, outdated, undercut, page, gestures>>

Asked == {r \in requests : r.stage = "asked"}

\* A worker fails: every job falls back to the main thread.
PoolFails ==
    /\ working
    /\ working' = FALSE
    /\ requests' = (requests \ Asked) \cup {[r EXCEPT !.stage = "answered"] : r \in Asked}
    /\ UNCHANGED <<options, matches, version, outdated, undercut, page, gestures>>

\* terminate(): every job is rejected and the pool is as new.
PoolTerminates ==
    /\ Asked # {} \/ ~working
    /\ working' = TRUE
    /\ requests' = (requests \ Asked) \cup {[r EXCEPT !.stage = "rejected"] : r \in Asked}
    /\ UNCHANGED <<options, matches, version, outdated, undercut, page, gestures>>

\* Bug variant: an answer that finds no section is dropped.
ThenIfMounted(r) ==
    /\ r.stage = "answered"
    /\ requests' = IF r.version = version /\ section # None
                   THEN Moved(r, "queued") ELSE requests \ {r}
    /\ UNCHANGED <<options, working, matches, version, outdated, undercut, page, gestures>>

\* The continuation of the promise: a current answer waits for the next frame.
Then(r) ==
    /\ r.stage = "answered"
    /\ requests' = IF r.version = version THEN Moved(r, "queued") ELSE requests \ {r}
    /\ UNCHANGED <<options, working, matches, version, outdated, undercut, page, gestures>>

\* The proposals of r become the matches.
Land(r) ==
    /\ matches' = r.answer
    /\ outdated' = r.overtaken
    /\ Rerender(options.ledger, r.answer)

\* The continuation of a rejected promise: proposals made on the spot.
Catch(r) ==
    /\ r.stage = "rejected"
    /\ requests' = requests \ {r}
    /\ IF r.version = version THEN Land(r) ELSE UNCHANGED <<matches, outdated, page>>
    /\ UNCHANGED <<options, working, version, undercut, gestures>>

Queued == {r \in requests : r.stage = "queued"}

\* Bug variant: what was current when it was queued lands.
FrameUnchecked ==
    /\ Queued # {}
    /\ requests' = requests \ Queued
    /\ \E r \in Queued : Land(r)
    /\ UNCHANGED <<options, working, version, undercut, gestures>>

\* Bug variant: the callbacks stay in the queue.
FrameKeepsCallbacks ==
    /\ Queued # {}
    /\ IF Queued \cap InFlight = {}
       THEN UNCHANGED <<matches, outdated, page>>
       ELSE \E r \in Queued \cap InFlight : Land(r)
    /\ UNCHANGED <<options, working, version, requests, undercut, gestures>>

\* The frame of queueRender: at most one of the callbacks is of this version.
Frame ==
    /\ Queued # {}
    /\ requests' = requests \ Queued
    /\ IF Queued \cap InFlight = {}
       THEN UNCHANGED <<matches, outdated, page>>
       ELSE \E r \in Queued \cap InFlight : Land(r)
    /\ UNCHANGED <<options, working, version, undercut, gestures>>

-----------------------------------------------------------------------------
(* Verdicts *)

\* A handle no timer has.
FreshId == CHOOSE n \in 1 .. Cardinality(commits) + 1 : \A c \in commits : c.id # n

\* transitionMatch and commitVerdict: a commit still pending is run first; rows
\* that the verdict removes fade out before the section is rebuilt, unless motion
\* is reduced or the rows in the page are not those of the matches.
Transition(i, status, reduced) ==
    LET flushed == IF pending = None \/ section = None THEN section
                   ELSE Drawn(options.ledger, matches)
        before == Rows(options.ledger, matches)
        after == Rows(options.ledger, matches')
        leaving == /\ section # None
                   /\ Cardinality(Rows(flushed.ledger, flushed.matches)) = Cardinality(before)
                   /\ ~ before \subseteq after
    IN  /\ gestures < MaxGestures
        /\ gestures' = gestures + 1
        /\ matches[i].status # status
        /\ matches' = [matches EXCEPT ![i].status = status]
        /\ UNCHANGED <<options, working, version, requests, outdated, undercut>>
        /\ IF ~leaving \/ reduced
           THEN Rerender(options.ledger, matches')
           ELSE /\ section' = flushed
                /\ pending' = FreshId
                /\ commits' = WithoutPending \cup {[id |-> FreshId, stage |-> "frame"]}

\* The frame of a deferred commit: the rows begin to collapse.
Collapse(c) ==
    /\ c.stage = "frame"
    /\ commits' = (commits \ {c}) \cup {[c EXCEPT !.stage = "timer"]}
    /\ UNCHANGED <<options, working, view, section, pending, gestures>>

\* Its timer: commit.
Commit(c) ==
    /\ c.stage = "timer"
    /\ pending' = None
    /\ commits' = WithoutPending \ {c}
    /\ section' = IF section = None THEN None ELSE Drawn(options.ledger, matches)
    /\ UNCHANGED <<options, working, view, gestures>>

-----------------------------------------------------------------------------
Init ==
    /\ options \in Options
    /\ working = TRUE
    /\ IF ~options.saved /\ options.pooled
       THEN /\ matches = <<>>
            /\ version = 1
            /\ requests = {[version |-> 1, answer |-> Proposed[options.ledger],
                            stage |-> "asked", overtaken |-> FALSE]}
       ELSE /\ matches = IF options.saved THEN Saved[options.ledger]
                                          ELSE Proposed[options.ledger]
            /\ version = 0
            /\ requests = {}
    /\ section = None /\ pending = None /\ commits = {}
    /\ gestures = 0 /\ outdated = FALSE /\ undercut = FALSE

Host ==
    \/ Mount \/ Hydrate \/ CleanUp
    \/ \E o \in Options : SetOptions(o)
    \/ \E i \in DOMAIN matches, status \in Status, reduced \in BOOLEAN :
         Transition(i, status, reduced)

Pool == PoolFails \/ PoolTerminates

Answers == \E r \in requests : PoolAnswers(r)
Continuations == \E r \in requests : Then(r) \/ Catch(r)
Animation == \E c \in commits : Collapse(c) \/ Commit(c)

Next == Host \/ Pool \/ Answers \/ Continuations \/ Frame \/ Animation

Spec == Init /\ [][Next]_vars

\* The pool answers, promises continue, frames and timers come.
FairSpec ==
    /\ Spec
    /\ WF_vars(Answers) /\ WF_vars(Continuations) /\ WF_vars(Frame) /\ WF_vars(Animation)

-----------------------------------------------------------------------------
TypeOK ==
    /\ options \in Options
    /\ working \in BOOLEAN /\ outdated \in BOOLEAN /\ undercut \in BOOLEAN
    /\ version \in Nat /\ gestures \in Nat
    /\ matches \in Seq(MatchSet)
    /\ section = None \/ section \in [ledger : Ledger, matches : Seq(MatchSet), served : BOOLEAN]
    /\ requests \subseteq [version : 1 .. version, answer : {Proposed[l] : l \in Ledger},
                           overtaken : BOOLEAN,
                           stage : {"asked", "answered", "rejected", "queued"}]
    /\ commits \subseteq [id : Nat, stage : {"frame", "timer"}]

\* At most one rebuild is deferred and it can always be cancelled: what is armed
\* is what pendingVerdict names, and nothing is armed without a section
\* ("animations can never queue up behind each other").
OneDeferredCommit ==
    /\ {c.id : c \in commits} = IF pending = None THEN {} ELSE {pending}
    /\ \A c, d \in commits : c = d
    /\ pending # None => section # None

OneVerdictApart(ms, ns) ==
    /\ Len(ms) = Len(ns)
    /\ \E i \in DOMAIN ms : /\ ms[i].status # ns[i].status
                            /\ \A j \in DOMAIN ms \ {i} : ms[j] = ns[j]

\* The page shows the present data and matches; while a commit is deferred it may
\* be one verdict behind, never two.  What a server rendered stays until the
\* first change.
SectionCurrent ==
    section # None /\ ~section.served =>
      /\ section.ledger = options.ledger
      /\ \/ section.matches = matches
         \/ pending # None /\ OneVerdictApart(section.matches, matches)

\* The page is of the present data, at most one verdict behind, and whatever is
\* to rebuild it is known to the component.
PageCurrent == OneDeferredCommit /\ SectionCurrent

\* A question withdrawn is answered in vain, unless the data changed without a
\* new question being asked (initializeMatches with matches given or a pool that
\* does not work).
StaleOnlyIfUndercut == outdated => undercut

\* "Bumped per data change; stale async proposal results are dropped."
StaleProposalsDropped == ~outdated

\* The match set is stable: but for what the host does, it is replaced only while
\* it is empty and proposals are awaited, so no answer undoes a verdict (again
\* unless undercut).
VerdictsKept ==
    [][gestures' = gestures /\ ~undercut => matches' = matches \/ matches = <<>>]_vars

\* A view that is empty because it has asked for proposals gets them, mounted or
\* not (for statements of which something can be proposed).
ProposalsArrive == (matches = <<>>) ~> (matches # <<>>)

\* Whatever the verdicts, each line and each posting of the ledger is presented
\* exactly once, alone or in a pair (computeReconciliationRows).
PresentedOnce ==
    ~outdated =>
      LET ledger == options.ledger
          rows == Rows(ledger, matches)
          shown == {p \in ledger.postings : BookOnly(p) \in rows}
          paired == Presented(ledger, matches)
      IN  /\ shown \cap paired = {}
          /\ shown \cup paired = ledger.postings
          /\ Cardinality(rows) = Cardinality(ledger.lines) + Cardinality(shown)

Accepted == {matches[i].line : i \in {j \in DOMAIN matches : matches[j].status = "accepted"}}

\* The difference in the header is what the statement's unaccepted lines add up
\* to: "accepting every match drives the difference to exactly zero" when every
\* line has one.
DifferenceHonest ==
    ~outdated =>
      \A c \in {line.currency : line \in options.ledger.lines} :
        Difference(options.ledger, matches, c)
          = Amount({line \in options.ledger.lines : line.currency = c /\ line.id \notin Accepted})

\* The rows and the total at the head of the page say the same of the ledger.
RowsHonest == PresentedOnce /\ DifferenceHonest
=============================================================================
