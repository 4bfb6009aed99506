------------------------------- MODULE Publish -------------------------------
(***************************************************************************)
(* render_dashboard.py publishes a run as a tree of HTML pages.  A pass    *)
(* renders page after page from the manifest and the dedup database, which *)
(* change under it, and puts every page in place with _atomic_write.  Two  *)
(* renderers share the publish directory without a lock: the loop start.sh *)
(* leaves running, and stop.sh, which kills the loop but not the pass the  *)
(* loop has started.                                                       *)
(*                                                                         *)
(* A page is the set of its links, and for a dashboard whether it shows    *)
(* the finished run.  Every LIMIT is left out, and a load_dedup that fails *)
(* and leaves the dashboard empty: they only drop links.  The links of a   *)
(* bucket page to the representatives of its sub-clusters are left out     *)
(* too: they are dead like the one to its own representative.              *)
(***************************************************************************)
EXTENDS Naturals, Sequences, FiniteSets, SequencesExt

CONSTANTS
    PageBuckets,   \* buckets of the database
    AsanBucket,    \* the __asan__ bucket among them
    Readable,      \* findings whose IR file can be read
    MaxRows,       \* bound: rows of the findings table
    MaxFaults      \* bound: passes that die on their own, queries that fail

Renderers == {"daemon", "stop"}
Runs == {"this", "old"}

Out == <<"out">>                      \* <run dir>/dashboard.html
Dashboard == <<"dashboard">>
Index == <<"index">>
RunPage(r) == <<"runs", r>>
FindingPage(f) == <<"findings", f>>
FindingIR(f) == <<"findings_ll", f>>
BucketPage(b) == <<"buckets", b>>

Html(links) == [links |-> links, final |-> FALSE]
Plain(ended) == [links |-> {}, final |-> ended]

VARIABLES
    rows,        \* findings table: run and bucket of finding 1, 2, ...
    run,         \* this run: "live", "killed", then "stopped" or "trapped"
    site,        \* the pages that exist
    tmps,        \* the .tmp files that exist
    job,         \* what each renderer is doing
    faults,      \* passes that died on their own and queries that failed
    overlapped,  \* history: two passes ran at once
    lost,        \* history: renderers whose pass went on after a failed query
    clean,       \* history: the last pass ended by itself and lost nothing
    saw,         \* history: it saw the run ended
    shown        \* history: rows when the last finding pages were rendered

publishHistory == <<overlapped, lost, clean, saw, shown>>
publishVars == <<rows, run, site, tmps, job, faults, publishHistory>>

Idle(stage) == [stage |-> stage, todo |-> <<>>, written |-> FALSE,
                plain |-> FALSE, seen |-> FALSE]
Passing(d) == job[d].stage \notin {"rest", "done", "failed"}

PublishInit ==
    /\ rows \in {<<>>} \cup {<<[run |-> "old", bucket |-> b]>> : b \in PageBuckets}
    /\ run = "live"
    /\ site \in {<<>>, [p \in {RunPage("old")} |-> Plain(TRUE)]}
    /\ tmps = <<>>
    /\ job = [d \in Renderers |-> Idle("rest")]
    /\ faults = 0
    /\ overlapped = FALSE /\ lost = {} /\ clean = FALSE /\ saw = FALSE /\ shown = 0

-----------------------------------------------------------------------------
(* The queries of a pass: load_dedup, _load_finding_pages,                 *)
(* _load_bucket_pages.                                                     *)
Own == {f \in DOMAIN rows : rows[f].run = "this"}
Touched == {rows[f].bucket : f \in Own}
Members(b) == {f \in DOMAIN rows : rows[f].bucket = b}

(* The first finding of a bucket represents it (dedup.py:344).             *)
Representative(b) == CHOOSE f \in Members(b) : \A g \in Members(b) : f <= g

(* load_dedup: the asan summary shows its bucket as soon as it exists.     *)
DashboardRows ==
    [findings |-> Own,
     buckets |-> Touched \cup {b \in {AsanBucket} : Members(b) # {}}]

DashboardLinks ==
    {FindingPage(f) : f \in DashboardRows.findings}
        \cup {BucketPage(b) : b \in DashboardRows.buckets}

IndexLinks == {Dashboard} \cup {RunPage(r) : r \in Runs}

FindingLinks(f) ==
    {BucketPage(rows[f].bucket), RunPage("this"), Dashboard}
        \cup {FindingIR(g) : g \in {f} \cap Readable}

EveryRun(runs) == runs  \* mutant: runs are linked whether they have a snapshot or not
SnapshotRuns(runs) == {r \in runs : RunPage(r) \in DOMAIN site}

BucketLinks(b) ==
    {RunPage("this"), Dashboard, FindingPage(Representative(b))}
        \cup {FindingPage(f) : f \in Members(b) \cap Own}
        \cup {RunPage(r) : r \in SnapshotRuns({rows[f].run : f \in Members(b)})}

File(page, content) == [page |-> page, content |-> content]

FindingFiles(f) ==
    (IF f \in Readable THEN <<File(FindingIR(f), Html({}))>> ELSE <<>>)
        \o <<File(FindingPage(f), Html(FindingLinks(f)))>>

(* In order of finding_id.                                                 *)
FindingTree ==
    FlattenSeq([f \in DOMAIN rows |-> IF f \in Own THEN FindingFiles(f) ELSE <<>>])

BucketTree == SetToSeq({File(BucketPage(b), Html(BucketLinks(b))) : b \in Touched})

-----------------------------------------------------------------------------
(* The oracles register findings, also those still running after the end.  *)
Register(b) ==
    /\ Len(rows) < MaxRows
    /\ rows' = Append(rows, [run |-> "this", bucket |-> b])
    /\ UNCHANGED <<run, site, tmps, job, faults, publishHistory>>

(* stop.sh, or the trap of start.sh, kills the recorded processes.         *)
KillDaemon ==
    /\ run = "live"
    /\ run' = "killed"
    /\ UNCHANGED <<rows, site, tmps, job, faults, publishHistory>>

(* It stamps end_time.  Only stop.sh renders then.                         *)
Finalize ==
    /\ run = "killed"
    /\ run' \in {"stopped", "trapped"}
    /\ UNCHANGED <<rows, site, tmps, job, faults, publishHistory>>

Ended == run \in {"stopped", "trapped"}

-----------------------------------------------------------------------------
MayPass(d) == IF d = "daemon" THEN run = "live" ELSE run = "stopped"

BeginPass(d) ==
    /\ job[d].stage = "rest" /\ MayPass(d)
    /\ job' = [job EXCEPT ![d].stage = "forked"]
    /\ overlapped' = (overlapped \/ \E e \in Renderers \ {d} : Passing(e))
    /\ clean' = FALSE /\ lost' = lost \ {d}
    /\ UNCHANGED <<rows, run, site, tmps, faults, saw, shown>>

(* A pass has written what it rendered last and renders the next pages.    *)
Stage(d, from, to, files) ==
    /\ job[d].stage = from /\ job[d].todo = <<>>
    /\ job' = [job EXCEPT ![d].stage = to, ![d].todo = files]
    /\ UNCHANGED <<rows, run, site, tmps, overlapped, clean, saw>>

(* html_plain, for the run directory.                                      *)
RenderPlain(d) ==
    /\ job[d].stage = "forked"
    /\ job' = [job EXCEPT ![d].stage = "plain", ![d].plain = Ended,
                          ![d].todo = <<File(Out, Plain(Ended))>>]
    /\ UNCHANGED <<rows, run, site, tmps, faults, publishHistory>>

(* The manifest is read again.  Only the loop passes --include-links; the  *)
(* pass of stop.sh publishes html_plain.                                   *)
RenderDashboard(d) ==
    /\ job[d].stage = "plain" /\ job[d].todo = <<>>
    /\ LET html == IF d = "daemon" THEN [links |-> DashboardLinks, final |-> Ended]
                                    ELSE Plain(job[d].plain)
       IN  job' = [job EXCEPT ![d].stage = "dashboard", ![d].seen = Ended,
                              ![d].todo = <<File(Dashboard, html)>>]
    /\ UNCHANGED <<rows, run, site, tmps, faults, publishHistory>>

RenderIndex(d) ==
    /\ Stage(d, "dashboard", "index", <<File(Index, Html(IndexLinks))>>)
    /\ UNCHANGED <<faults, lost, shown>>

RenderSnapshot(d) ==
    /\ Stage(d, "index", "snapshot",
             IF job[d].seen
             THEN <<File(RunPage("this"), Plain(job[d].plain))>> ELSE <<>>)
    /\ UNCHANGED <<faults, lost, shown>>

RenderFindings(d) ==
    /\ Stage(d, "snapshot", "findings", FindingTree)
    /\ shown' = Len(rows)
    /\ UNCHANGED <<faults, lost>>

RenderBuckets(d) ==
    /\ Stage(d, "findings", "buckets", BucketTree)
    /\ UNCHANGED <<faults, lost, shown>>

(* A query that fails (a locked or broken database: sqlite3.Error) is      *)
(* taken for one without rows; the pass goes on without those pages.       *)
QueryFails(d) ==
    /\ faults < MaxFaults
    /\ faults' = faults + 1
    /\ lost' = lost \cup {d}
    /\ UNCHANGED shown

LoseFindings(d) == Stage(d, "snapshot", "findings", <<>>) /\ QueryFails(d)
LoseBuckets(d) == Stage(d, "findings", "buckets", <<>>) /\ QueryFails(d)

EndPass(d) ==
    /\ job[d].stage = "buckets" /\ job[d].todo = <<>>
    /\ job' = [job EXCEPT ![d] = Idle(IF d = "stop" THEN "done" ELSE "rest")]
    /\ clean' = (d \notin lost)
    /\ saw' = job[d].seen
    /\ UNCHANGED <<rows, run, site, tmps, faults, overlapped, lost, shown>>

FailsForGood(d) == job' = [job EXCEPT ![d] = Idle("failed")]  \* mutant: no `|| true` in the loop
Fails(d) == job' = [job EXCEPT ![d] = Idle(IF d = "stop" THEN "failed" ELSE "rest")]

(* A pass dies anywhere: out of memory, full disk.  The loop goes on.      *)
Die(d) ==
    /\ faults < MaxFaults /\ Passing(d)
    /\ Fails(d)
    /\ faults' = faults + 1
    /\ UNCHANGED <<rows, run, site, tmps, publishHistory>>

-----------------------------------------------------------------------------
(* _atomic_write: write the .tmp file, move it onto the page.              *)
At(d, written) == job[d].todo # <<>> /\ job[d].written = written
Page(d) == Head(job[d].todo).page
Content(d) == Head(job[d].todo).content
Put(dir, page, content) ==
    [p \in DOMAIN dir \cup {page} |-> IF p = page THEN content ELSE dir[p]]

(* "a <id>.ll that already exists is left alone"                           *)
KeptOnce(d) == Page(d)[1] \in {"findings_ll", "runs"} /\ Page(d) \in DOMAIN site  \* mutant: a snapshot is frozen once
Kept(d) == Page(d)[1] = "findings_ll" /\ Page(d) \in DOMAIN site

KeepIR(d) ==
    /\ At(d, FALSE) /\ Kept(d)
    /\ job' = [job EXCEPT ![d].todo = Tail(@)]
    /\ UNCHANGED <<rows, run, site, tmps, faults, publishHistory>>

WriteTmp(d) ==
    /\ At(d, FALSE) /\ ~Kept(d)
    /\ tmps' = Put(tmps, Page(d), Content(d))
    /\ job' = [job EXCEPT ![d].written = TRUE]
    /\ UNCHANGED <<rows, run, site, faults, publishHistory>>

Replace(d) ==
    /\ At(d, TRUE) /\ Page(d) \in DOMAIN tmps
    /\ site' = Put(site, Page(d), tmps[Page(d)])
    /\ tmps' = Restrict(tmps, DOMAIN tmps \ {Page(d)})
    /\ job' = [job EXCEPT ![d].todo = Tail(@), ![d].written = FALSE]
    /\ UNCHANGED <<rows, run, faults, publishHistory>>

(* The other renderer has moved the file away: FileNotFoundError.          *)
ReplaceFails(d) ==
    /\ At(d, TRUE) /\ Page(d) \notin DOMAIN tmps
    /\ Fails(d)
    /\ UNCHANGED <<rows, run, site, tmps, faults, publishHistory>>

-----------------------------------------------------------------------------
Render(d) ==
    \/ RenderPlain(d) \/ RenderDashboard(d) \/ RenderIndex(d) \/ RenderSnapshot(d)
    \/ RenderFindings(d) \/ RenderBuckets(d)

Pass(d) ==
    \/ BeginPass(d) \/ Render(d) \/ EndPass(d)
    \/ KeepIR(d) \/ WriteTmp(d) \/ Replace(d) \/ ReplaceFails(d)

PublishNext ==
    \/ \E b \in PageBuckets : Register(b)
    \/ KillDaemon \/ Finalize
    \/ \E d \in Renderers : Pass(d) \/ LoseFindings(d) \/ LoseBuckets(d) \/ Die(d)

PublishFairness ==
    /\ WF_publishVars(Finalize)
    /\ \A d \in Renderers : WF_publishVars(Pass(d))

PublishSpec == PublishInit /\ [][PublishNext]_publishVars /\ PublishFairness

-----------------------------------------------------------------------------
(* "this is the snapshot that gets frozen" (stop.sh:106): once the render  *)
(* of stop.sh is through, the published snapshot shows the finished run,   *)
(* whatever the pass the loop left behind wrote before; if the two passes  *)
(* ran at once there is a snapshot, but it may be an older rendering.      *)
SnapshotIsFinal ==
    job["stop"].stage = "done" =>
        /\ RunPage("this") \in DOMAIN site
        /\ overlapped \/ site[RunPage("this")] = Plain(TRUE)

(* Links of page p that a pass may leave dead: to a run without snapshot   *)
(* (from the index, or this run before its end), from a bucket to its      *)
(* representative of another run and to findings registered after the      *)
(* finding pages were rendered, and from the dashboard to the asan bucket  *)
(* while no finding of this run was in it by then.                         *)
MayBeDead(p) ==
    (IF saw THEN {} ELSE {RunPage("this")}) \cup
    CASE p = Index -> {RunPage("old")}
      [] p = Dashboard -> IF \E f \in Own : f <= shown /\ rows[f].bucket = AsanBucket
                          THEN {} ELSE {BucketPage(AsanBucket)}
      [] p[1] = "buckets" -> {FindingPage(f) : f \in ({Representative(p[2])} \ Own)
                                                  \cup {g \in Own : g > shown}}
      [] OTHER -> {}

(* After a pass that ran alone to its end and whose queries did not fail,  *)
(* every other link of the site leads to a page, also when findings and    *)
(* buckets came up while it worked and when passes that died, or went on   *)
(* without the pages of a failed query, had left links to nowhere.         *)
LinksResolve ==
    clean /\ ~overlapped =>
        \A p \in DOMAIN site : site[p].links \subseteq DOMAIN site \cup MayBeDead(p)

(* A finding registered while the run is live gets its page, by a pass of  *)
(* the loop or by the last one, if stop.sh ends the run and its pass is    *)
(* not disturbed and loses no query.                                       *)
PagesAppear ==
    \A f \in 1..MaxRows :
        (run = "live" /\ f \in Own) ~>
            \/ FindingPage(f) \in DOMAIN site
            \/ run = "trapped" \/ overlapped
            \/ job["stop"].stage = "failed" \/ (job["stop"].stage = "done" /\ ~clean)
=============================================================================
