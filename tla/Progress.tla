------------------------------ MODULE Progress ------------------------------
(***************************************************************************)
(* harness/observability/progress.py: the scanner behind /v1/progress.  A  *)
(* request is answered from the cache while the cache is younger than TTL, *)
(* and by a scan of the repository otherwise: the last commits' subjects,  *)
(* the override file.  Requests are served by the gateway's threads, so    *)
(* scans overlap.                                                          *)
(*                                                                         *)
(* One phase stands for all: they do not meet.  A commit's subject carries *)
(* its landing marker, its progress marker or neither.                     *)
(***************************************************************************)
EXTENDS Naturals, Sequences, FiniteSets, SequencesExt

CONSTANTS
    Poller,         \* the threads that serve /v1/progress
    TTL,            \* _TTL
    MaxTime,        \* how long a behaviour is watched
    Window,         \* how many commits a scan reads (200)
    ProgressFaults  \* sets of "git" (git fails or times out), "overlap" (requests are
                    \* served at once), "race" (a scan may also end between the test of
                    \* the cache and its use), "long" (more commits than a scan reads),
                    \* "override" (the status file is written by hand)

VARIABLES
    clock,
    commits,        \* the subjects, newest first
    override,       \* gates/phase_status.json
    cache, req,
    shown,          \* the last document a dashboard was given
    prfaults

prvars == <<clock, commits, override, cache, req, shown, prfaults>>

Subject == {"landed", "in-progress", "other"}
Override == {"none", "unreadable", "pending"}

\* A document, with the moment of the scan's reads.
NoDoc == [phase |-> "none", at |-> 0]
Idle == [at |-> "idle", start |-> 0, doc |-> NoDoc]

ProgressInit ==
    /\ prfaults \in ProgressFaults
    /\ clock = 0 /\ commits = <<>> /\ override = "none"
    /\ cache = [ts |-> 0, doc |-> NoDoc]
    /\ req = [p \in Poller |-> Idle]
    /\ shown = NoDoc

-----------------------------------------------------------------------------
(* What a scan makes of the repository                                     *)

\* _commits: the last Window subjects; nothing when git fails.
Subjects(ok) ==
    {commits[i] : i \in {j \in DOMAIN commits : ok /\ j <= Window}}

\* _phase_status: the default, over it a progress marker, over it a landing marker, over
\* it the override; a file that does not parse is no override.
PhaseStatus(subjects) ==
    IF override \notin {"none", "unreadable"} THEN override
    ELSE IF "landed" \in subjects THEN "landed"
    ELSE IF "in-progress" \in subjects THEN "in-progress" ELSE "pending"

\* progress_json: the document.
Doc(ok) == [phase |-> PhaseStatus(Subjects(ok)), at |-> clock]

-----------------------------------------------------------------------------
(* The repository, and time                                                *)

Commit(s) ==
    /\ Len(commits) < Window + (IF "long" \in prfaults THEN 1 ELSE 0)
    /\ commits' = <<s>> \o commits
    /\ UNCHANGED <<clock, override, cache, req, shown, prfaults>>

SetOverride(v) ==
    /\ "override" \in prfaults /\ override' = v /\ v # override
    /\ UNCHANGED <<clock, commits, cache, req, shown, prfaults>>

Tick ==
    /\ clock < MaxTime /\ clock' = clock + 1
    /\ UNCHANGED <<commits, override, cache, req, shown, prfaults>>

-----------------------------------------------------------------------------
(* A request                                                               *)

Young == cache.doc # NoDoc /\ clock - cache.ts < TTL

\* now = time.time(), and the test of the cache.
Ask(p) ==
    /\ req[p].at = "idle"
    /\ {"overlap", "race"} \cap prfaults = {} => \A q \in Poller : req[q].at = "idle"
    /\ req' = [req EXCEPT ![p] =
                 IF ~Young THEN [at |-> "scan", start |-> clock, doc |-> NoDoc]
                 ELSE IF "race" \in prfaults THEN [at |-> "hit", start |-> clock, doc |-> NoDoc]
                 ELSE [at |-> "served", start |-> clock, doc |-> cache.doc]]
    /\ UNCHANGED <<clock, commits, override, cache, shown, prfaults>>

\* return _CACHE["doc"], by when another thread may have replaced it.
UseCache(p) ==
    /\ req[p].at = "hit"
    /\ req' = [req EXCEPT ![p] = [@ EXCEPT !.at = "served", !.doc = cache.doc]]
    /\ UNCHANGED <<clock, commits, override, cache, shown, prfaults>>

\* The scan's reads: git log, the override file.
Scan(p, ok) ==
    /\ req[p].at = "scan" /\ (ok \/ "git" \in prfaults)
    /\ req' = [req EXCEPT ![p] = [@ EXCEPT !.at = "build", !.doc = Doc(ok)]]
    /\ UNCHANGED <<clock, commits, override, cache, shown, prfaults>>

\* The time a document is stamped with: when its request came in.
Stamp(p) == req[p].start

\* _CACHE.update
Keep(p) ==
    /\ req[p].at = "build"
    /\ cache' = [ts |-> Stamp(p), doc |-> req[p].doc]
    /\ req' = [req EXCEPT ![p].at = "served"]
    /\ UNCHANGED <<clock, commits, override, shown, prfaults>>

Answer(p) ==
    /\ req[p].at = "served"
    /\ shown' = req[p].doc
    /\ req' = [req EXCEPT ![p] = Idle]
    /\ UNCHANGED <<clock, commits, override, cache, prfaults>>

ProgressNext ==
    \/ \E s \in Subject : Commit(s)
    \/ \E v \in Override : SetOverride(v)
    \/ Tick
    \/ \E p \in Poller : Ask(p) \/ UseCache(p) \/ Keep(p) \/ Answer(p)
    \/ \E p \in Poller, ok \in BOOLEAN : Scan(p, ok)

ProgressSpec == ProgressInit /\ [][ProgressNext]_prvars

-----------------------------------------------------------------------------
\* The cache never serves what is older than its TTL: a document was read less than a TTL
\* before its request came in, or while the request waited, however scans overlap and in
\* whatever order they end.
Fresh ==
    \A p \in Poller :
        req[p].at = "served" /\ "race" \notin prfaults => req[p].doc.at + TTL > req[p].start

Rank(phase) == CASE phase = "landed" -> 3 [] phase = "in-progress" -> 2
                 [] phase = "pending" -> 1 [] OTHER -> 0

\* The work that follows a landing does not unsay it: with one request at a time, git
\* answering, no override and no more commits than a scan reads, what the dashboard shows
\* never goes back.
NeverBackStep ==
    prfaults = {} => Rank(shown'.phase) >= Rank(shown.phase)
NeverBack == [][NeverBackStep]_prvars
=============================================================================
