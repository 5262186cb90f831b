--------------------------- MODULE MCIntegrations ---------------------------
(* What other services are shown, on small instances: the self-hosted       *)
(* catalog (CatalogProjection), the recommender (GorseProjection), issues   *)
(* on GitHub (ReviewJobs) and the authors' mail (AuthorEmails).  Their      *)
(* modules share no state, so each is explored alone: part, which never     *)
(* changes, says which moves.                                               *)
EXTENDS CatalogProjection, AuthorEmails, ReviewJobs, GorseProjection

\* a1 and a2 are the interchangeable relays or invocations of a part; r1 and
\* r2 are repositories, s1 and s2 the subjects of mails to the author u1.
CONSTANTS a1, a2, c, d, r1, r2, o, x, low, none, u1, s1, s2, m1, m2

VARIABLE part

\* The catalog, over two projects.  One part is about a project with every
\* risk, an operator, a cycle and a late consumer; the other about two that
\* come and go under sweeps that fail.
Moderation == Next /\ src'[2] = Gone /\ trouble' = trouble
Sweeps ==
  /\ Next /\ moderations' = moderations /\ sync' = sync
  /\ \A p \in Project : src'[p].risk = "none"

\* The recommender, with one worker of which a call may fail or which may
\* die: two relays at work on three facts; a project that is saved, with a
\* deletion and what is delivered after it, by relays that do not fail; one
\* that is enabled late and rebuilt.
TakeTurns == \A p, q \in Relay : batch'[p] # {} /\ batch'[q] # {} => p = q
OneVersion == \A r \in FeedRepo : project'[r] < 2
Together == GorseNext /\ rebuilds' = rebuilds /\ facts' > 0 /\ OneVersion
Erasure ==
  /\ GorseNext /\ rebuilds' = rebuilds /\ OneVersion /\ TakeTurns
  /\ \A i \in RowIds' : outbox'[i].state # "later" /\ ~outbox'[i].free
Rebuilding == GorseNext /\ facts' > 1 /\ TakeTurns

\* The jobs of the GitHub App: the one of an issue, which may fail twice in
\* many ways; the same, not retried by the queue but by an administrator; and
\* discoveries of two repositories in two pages, the first one archived.
MCRank == r1 :> 1 @@ r2 :> 2
MCRepoOf == o :> r2
Never(S) == \A i \in S : jobs'[i].state = "none"
NoRetries == faults' > 0 /\ \A i \in Ids : jobs'[i].attempts = 0
Labels == ReviewNext /\ hooks' \cap Discovery = {} /\ Never(Retry)
Retries == ReviewNext /\ hooks' \cap Discovery = {} /\ NoRetries
Discoveries ==
  /\ ReviewNext /\ hooks' \cap Opened = {} /\ Never(Retry) /\ NoRetries

\* The mails are the other one: two to one author in overlapping invocations
\* of one mail a day, or one to an author who opts out and in and moves.
MCAuthorOf == [s \in Subject |-> u1]
Turns == EmailNext /\ choices' = choices
Consents == EmailNext /\ lookup'[s2] = lookup[s2]

all == <<part, vars, gorseVars, reviewVars, emailVars>>

MCInit ==
  /\ part \in {"moderation", "sweeps", "relays", "erasure", "rebuild",
               "labels", "retries", "discovery", "turns", "choices"}
  /\ Init
  /\ GorseInit
  /\ live = (part # "rebuild")
  /\ ReviewInit
  /\ member = IF part = "discovery" THEN {} ELSE {r2}
  /\ EmailInit
  \* What does not move has one initial state.
  /\ CASE part = "choices" -> TRUE
       [] part = "turns" -> public[u1] # m2
       [] OTHER -> public[u1] = Null

MCNext ==
  /\ UNCHANGED part
  /\ \/ /\ \/ part = "moderation" /\ Moderation
           \/ part = "sweeps" /\ Sweeps
        /\ UNCHANGED <<gorseVars, reviewVars, emailVars>>
     \/ /\ \/ part = "relays" /\ Together
           \/ part = "erasure" /\ Erasure
           \/ part = "rebuild" /\ Rebuilding
        /\ UNCHANGED <<vars, reviewVars, emailVars>>
     \/ /\ \/ part = "labels" /\ Labels
           \/ part = "retries" /\ Retries
           \/ part = "discovery" /\ Discoveries
        /\ UNCHANGED <<vars, gorseVars, emailVars>>
     \/ /\ \/ part = "turns" /\ Turns
           \/ part = "choices" /\ Consents
        /\ UNCHANGED <<vars, gorseVars, reviewVars>>

MCSpec == MCInit /\ [][MCNext]_all

Symmetry == Permutations({a1, a2})
=============================================================================
