----------------------------- MODULE MCOutcomes -----------------------------
(* What must end or come to agree, on small instances, under the fairness   *)
(* of the specifications and without symmetry: the relay of source events   *)
(* (SourceOutbox), scans (ScanJobs), durable scans (PublicScanJobs),        *)
(* analyses (AnalysisWorker), deletions (FeedCleanup), the catalog          *)
(* (CatalogProjection), the recommender (GorseProjection), jobs of the      *)
(* GitHub App (ReviewJobs) and mail (AuthorEmails).  The modules share no   *)
(* state and are explored alone: part, which never changes, says which      *)
(* moves.                                                                   *)
EXTENDS Integers, Sequences, FiniteSets, TLC

CONSTANTS a, b, c, d, e, k1, none, None

VARIABLES
  part,
  runStatus, receipt, latest, reusing, outbox, sequence, commands, relay,
  late, published,                                          \* SourceOutbox
  request, status, lock, cached, ready, taken, dead, result, worker,
  fit, peace,                                                   \* ScanJobs
  scanJob, run, ahead, slot, capacity, spent, wkr, hazards,  \* PublicScanJobs
  table, assessment, remote, post, copies, accepted, buried, delivery,
  healthy,                                                \* AnalysisWorker
  user, authors, rows, deletion, job, registry, bucket, execution, caller,
  writer, semantic, calm,                                    \* FeedCleanup
  src, now, hints, cat, cursor, lease, at, cycle, since, absent, sync,
  moderations, trouble,                                \* CatalogProjection
  profile, project, saved, tombs, rowsOut, batch, sent, queue,
  work, handled, gorse, live, facts, rebuilds, losses,   \* GorseProjection
  jobs, messages, letters, exec, hooks, installed, member, open, labelled,
  tags, comment, posted, enabled, faults, roster, shrunk,     \* ReviewJobs
  sub, optout, mail, used, public, lookup, wk, deaths, choices, handed,
  turns, today                                              \* AuthorEmails

\* A claim limit of one: a row may have to wait for the retries of another.
Source == INSTANCE SourceOutbox WITH
  Runs <- {a, b}, Repos <- {k1}, RepoOf <- a :> k1 @@ b :> k1,
  Tokens <- {c}, Commands <- {}, MaxAttempts <- 1, ClaimLimit <- 1
\* One delivery at a time.
Scans == INSTANCE ScanJobs WITH
  Request <- {c}, Job <- {d}, JobOf <- c :> d, Keyed <- {},
  Worker <- {a}, Snapshot <- {e}, MaxAttempts <- 1, MaxCopies <- 1,
  Trouble <- {"failures"}, published <- taken, healthy <- fit,
  quiet <- peace
\* One scan of the release in service.
OneScan == [user |-> "ann", version |-> "v5", n |-> 1]
Durable == INSTANCE PublicScanJobs WITH
  Scan <- {OneScan}, Current <- "v5", ScanWorker <- {a}, MaxSlots <- 1,
  MaxActive <- 1, Limit <- 1, Phases <- 1, ScanTrouble <- 1,
  job <- scanJob, wk <- wkr, trouble <- hazards
\* One run whose execution may take too long.
Analyses == INSTANCE AnalysisWorker WITH
  Run <- {a}, Key <- {k1}, KeyOf <- a :> k1, Repo <- {c}, RepoOf <- k1 :> c,
  Limit <- 1, MaxCreates <- 1, MaxTry <- 1, Verdict <- {"inactive"},
  Worker <- {d}, MaxAttempts <- 1, MaxCopies <- 1,
  Trouble <- {"failures", "timeouts"}, request <- post, ready <- copies,
  dead <- buried, worker <- delivery, trouble <- {"failures", "timeouts"}
\* One generation with an object that was never registered.
Deletions == INSTANCE FeedCleanup WITH
  Worker <- {a}, Caller <- {c}, Writer <- {}, MaxObjects <- 1,
  MaxVersion <- 1, LastTable <- 1, Page <- 1, MaxRows <- 1,
  MaxFailures <- 2, Legacy <- {<<1, 1>>}, Trouble <- {"failures"},
  profile <- user, worker <- execution, healthy <- calm
\* Two projects, no hint that arrives, and one stall or crash.
Catalog == INSTANCE CatalogProjection WITH
  Project <- {1, 2}, Reconciler <- {a}, Consumer <- {}, Risks <- {"none"},
  MaxChanges <- 2, MaxModerations <- 0, Trouble <- 1, Overlap <- 0,
  job <- cycle
\* A recommender that is enabled late.
Gorse == INSTANCE GorseProjection WITH
  FeedUser <- {a}, FeedRepo <- {b}, Relay <- {c}, GorseWorker <- {d},
  MaxFacts <- 1, MaxRebuilds <- 1, GorseTrouble <- 1, NoOne <- None,
  outbox <- rowsOut, messages <- queue
\* One issue.
Reviews == INSTANCE ReviewJobs WITH
  Repo <- {a}, Rank <- a :> 1, Archived <- {}, Selected <- {{a}},
  Opened <- {b}, RepoOf <- b :> a, Discovery <- {}, Retry <- {},
  Level <- {none}, Unavailable <- none, PageSize <- 1, Lease <- 3,
  Budget <- 2, ScoreWindow <- 1, Delays <- {0}, MaxAttempts <- 1,
  ReviewTrouble <- 1, Missing <- None, queue <- messages, dead <- letters,
  ready <- labelled
\* Two mails to one author, and one mail a day.
Mails == INSTANCE AuthorEmails WITH
  User <- {a}, Subject <- {b, c}, AuthorOf <- b :> a @@ c :> a,
  Address <- {e}, Worker <- {d}, Cap <- 1, MaxDeaths <- 0, MaxChoices <- 0,
  Null <- None

ASSUME Source!OutboxAssumption
ASSUME Scans!ScanAssumption
ASSUME Durable!PublicScanAssumption
ASSUME Analyses!StoreAssumption /\ Analyses!WorkerAssumption
ASSUME Catalog!ConstantsAssumption
ASSUME Gorse!GorseAssumption
ASSUME Reviews!SetAssumption /\ Reviews!TimeAssumption
ASSUME Mails!EmailAssumption

source == <<runStatus, receipt, latest, reusing, outbox, sequence, commands,
            relay, late, published>>
scan == <<request, status, lock, cached, ready, taken, dead, result, worker,
          fit, peace>>
durable == <<scanJob, run, ahead, slot, capacity, spent, wkr, hazards>>
analysis == <<table, assessment, remote, post, copies, accepted, buried,
              delivery, healthy>>
cleanup == <<user, authors, rows, deletion, job, registry, bucket, execution,
             caller, writer, semantic, calm>>
catalog == <<src, now, hints, cat, cursor, lease, at, cycle, since, absent,
             sync, moderations, trouble>>
recommender == <<profile, project, saved, tombs, rowsOut, batch, sent, queue,
                 work, handled, gorse, live, facts, rebuilds, losses>>
reviews == <<jobs, messages, letters, exec, hooks, installed, member, open,
             labelled, tags, comment, posted, enabled, faults, roster,
             shrunk>>
emails == <<sub, optout, mail, used, public, lookup, wk, deaths, choices,
            handed, turns, today>>
all == <<part, source, scan, durable, analysis, cleanup, catalog, recommender,
         reviews, emails>>

Init ==
  /\ part \in {"relay", "scans", "durable", "analyses", "deletions",
               "catalog", "gorse", "reviews", "mails"}
  /\ Source!Init /\ Scans!Init /\ Durable!ScansInit /\ Analyses!Init
  /\ Deletions!Init
  /\ Catalog!Init /\ Gorse!GorseInit /\ Reviews!ReviewInit /\ Mails!EmailInit
  /\ ~live
  \* What does not move has one initial state.
  /\ part # "relay" => \A r \in {a, b} : runStatus[r] = "absent"
  /\ part # "mails" => public[a] = None
  /\ bucket = [k \in DOMAIN bucket |-> "content"]

In(p) == part = p /\ UNCHANGED part
Relays ==
  /\ In("relay")
  /\ UNCHANGED <<scan, durable, analysis, cleanup, catalog,
                 recommender, reviews, emails>>
Scanning ==
  /\ In("scans")
  /\ UNCHANGED <<source, durable, analysis, cleanup, catalog,
                 recommender, reviews, emails>>
Verifying ==
  /\ In("durable")
  /\ UNCHANGED <<source, scan, analysis, cleanup, catalog,
                 recommender, reviews, emails>>
Analysing ==
  /\ In("analyses")
  /\ UNCHANGED <<source, scan, durable, cleanup, catalog,
                 recommender, reviews, emails>>
Deleting ==
  /\ In("deletions")
  /\ UNCHANGED <<source, scan, durable, analysis, catalog,
                 recommender, reviews, emails>>
Sweeping ==
  /\ In("catalog")
  /\ UNCHANGED <<source, scan, durable, analysis, cleanup,
                 recommender, reviews, emails>>
Feeding ==
  /\ In("gorse")
  /\ UNCHANGED <<source, scan, durable, analysis, cleanup,
                 catalog, reviews, emails>>
Reviewing ==
  /\ In("reviews")
  /\ UNCHANGED <<source, scan, durable, analysis, cleanup,
                 catalog, recommender, emails>>
Mailing ==
  /\ In("mails")
  /\ UNCHANGED <<source, scan, durable, analysis, cleanup,
                 catalog, recommender, reviews>>

Next ==
  \/ Relays /\ Source!Next
  \/ Scanning /\ Scans!Next
  \/ Verifying /\ Durable!ScansNext
  \/ Analysing /\ Analyses!Next
  \/ Deleting /\ Deletions!Next
  \/ Sweeping /\ Catalog!Next
  \/ Feeding /\ Gorse!GorseNext
  \/ Reviewing /\ Reviews!ReviewNext
  \/ Mailing /\ Mails!EmailNext

\* The fairness of the specifications.  Only the actions of the part that
\* moves are ever enabled, so that one condition on "the n-th action of the
\* part that moves" says what one condition for each part would.
Weakly(n) ==
  \/ Relays /\ \/ n = 1 /\ Source!Sweep(c)
               \/ n = 2 /\ \/ Source!Claim(c) \/ Source!Send(c)
                           \/ Source!SendUncertain(c)
                           \/ Source!ConfirmStep(c) \/ Source!CrashRelay(c)
               \/ n = 3 /\ Source!Elapse(a)
               \/ n = 4 /\ Source!Elapse(b)
               \/ n = 5 /\ Source!ExpireLease(a)
               \/ n = 6 /\ Source!ExpireLease(b)
  \/ Scanning /\ \/ n = 1 /\ Scans!Work(a)
                 \/ n = 2 /\ \E m \in Scans!Message : Scans!Deliver(a, m)
  \/ Verifying /\ \/ n = 1 /\ Durable!ClaimNext(a, "v5")
                  \/ n = 2 /\ Durable!ExecutionStep(a)
                  \/ n = 3 /\ Durable!Quarantine(OneScan)
                  \/ n = 4 /\ Durable!LeaseEnds(OneScan)
                             /\ Durable!Abandoned(OneScan)
                  \/ n = 5 /\ Durable!BecomesDue(OneScan)
                  \/ n = 6 /\ Durable!SlotEnds(1)
  \/ Analysing /\ \/ n = 1 /\ Analyses!Work(d)
                  \/ n = 2 /\ \E m \in Analyses!Job : Analyses!Deliver(d, m)
                  \/ n = 3 /\ Analyses!Time(a)
  \/ Deleting /\ \/ n = 1 /\ Deletions!Execution(a)
                 \/ n = 2 /\ Deletions!Expire(1)
  \/ Sweeping /\ \/ n = 1 /\ Catalog!SixHours
                 \/ n = 2 /\ Catalog!Expire /\ at[lease.by] = "idle"
                 \/ n = 3 /\ Catalog!Cycle(a)
  \/ Feeding /\ \/ n = 1 /\ Gorse!Enable
                \/ n = 2 /\ Gorse!Rebuild
                \/ n = 3 /\ \E i \in Gorse!RowIds : Gorse!Due(i)
                \/ n = 4 /\ \E i \in Gorse!RowIds : /\ i \notin batch[c]
                                                /\ Gorse!Lapse(i)
                \/ n = 5 /\ Gorse!RelayStep(c)
                \/ n = 6 /\ Gorse!WorkerStep(d)
  \/ Reviewing /\ \/ n = 1 /\ Reviews!Tick
                  \/ n = 2 /\ Reviews!CronSends
                  \/ n = 3 /\ Reviews!Deploy(TRUE)
                  \/ n = 4 /\ Reviews!JobStep
  \/ Mailing /\ \/ n = 1 /\ Mails!Begin(d)
                \/ n = 2 /\ Mails!Step(d)
                \/ n = 3 /\ Mails!Ages(b)
                \/ n = 4 /\ Mails!Ages(c)
                \/ n = 5 /\ Mails!Midnight
Strongly ==
  \/ Relays /\ Source!Claim(c)
  \/ Reviewing /\ Reviews!Deliver(b) /\ exec' # Reviews!NoExec
  \/ Mailing /\ \E s \in {b, c} : Mails!Claim(d, s)

Spec ==
  /\ Init /\ [][Next]_all
  /\ \A n \in 1..6 : WF_all(Weakly(n))
  /\ SF_all(Strongly)

-----------------------------------------------------------------------------
\* Every source event comes to be delivered or failed, whatever its relay
\* loses and however rows compete for the claims of a sweep.
EventsSettle == part = "relay" => Source!EventsSettle

\* The catalog comes to agree with a source at rest, and the recommender with
\* PostgreSQL, although hints and messages are lost.
CopiesConverge ==
  /\ part = "catalog" => Catalog!CatalogConverges
  /\ part = "gorse" => Gorse!ItemsConverge /\ Gorse!ProfilesConverge

\* Once trouble is over, a deletion ends: completed, or failed where an
\* operator sees it.
DeletionEnds == part = "deletions" => Deletions!DeletionEnds

\* An accepted scan or analysis ends or is in the dead letter queue once
\* calls succeed; a durable scan, an admitted job of the GitHub App and a
\* mail that waits end.
JobsEnd ==
  /\ part = "scans" => Scans!JobsSettle
  /\ part = "durable" => Durable!ScansEnd
  /\ part = "analyses" => Analyses!RunsEnd
  /\ part = "reviews" => Reviews!JobsEnd
  /\ part = "mails" => Mails!MailEnds
=============================================================================
