--------------------------- MODULE GorseProjection ---------------------------
(***************************************************************************)
(* The recommender's copy of the self-hosted Feed: facts and their outbox  *)
(* rows are written in one PostgreSQL transaction (feed_store.go), relays  *)
(* claim rows under a lease and publish them to RabbitMQ (feed_outbox.go), *)
(* and workers bring Gorse in line with what PostgreSQL holds when they    *)
(* handle a message (feed_gorse_projection.go).  Publications fail or are  *)
(* repeated, leases run out, workers die and deliver again, and a profile  *)
(* is deleted while messages about it are on their way.                    *)
(***************************************************************************)
EXTENDS Naturals, SequencesExt

CONSTANTS
  FeedUser, FeedRepo, Relay, GorseWorker,
  MaxFacts,     \* bound on the transactions of the API
  MaxRebuilds,  \* bound on full rebuilds
  GorseTrouble,      \* bound on failed calls, stalls and crashes
  NoOne

ASSUME GorseAssumption ==
  /\ IsFiniteSet(FeedUser) /\ IsFiniteSet(FeedRepo)
  /\ {MaxFacts, MaxRebuilds, GorseTrouble} \subseteq Nat

VARIABLES
  profile,   \* feed.users: the version of the profile (its preferences are
             \* what Gorse is shown), 0 without one
  project,   \* feed.projects: the version of the project, 0 without one
  saved,     \* feed.user_project_state
  tombs,     \* feed.user_deletion_tombstones
  outbox,    \* feed.event_outbox, by id
  batch,     \* the rows each relay has claimed and not yet settled
  sent,      \* the row each relay has published and not yet completed
  messages,     \* the projection queue of RabbitMQ, by row id
  work,      \* the message each worker handles, and what it has read
  handled,   \* ids of the rows whose message was acknowledged
  gorse,     \* users, items and feedback of the recommender
  live,      \* the workers have a Gorse client
  facts, rebuilds, losses

gorseVars == <<profile, project, saved, tombs, outbox, batch, sent, messages,
               work, handled, gorse, live, facts, rebuilds, losses>>
business == <<profile, project, saved>>
relays == <<batch, sent>>
side == <<work, handled, gorse>>

Msg(topic, u, r, id) == [topic |-> topic, u |-> u, r |-> r, id |-> id]
OutboxRow(msg, tied) ==
  [msg |-> msg, state |-> "ready", by |-> NoOne, free |-> FALSE,
   tied |-> tied]  \* tied to an event that cascades
NoWork == [id |-> 0, at |-> "idle", user |-> 0, item |-> 0]

GorseInit ==
  /\ profile = [u \in FeedUser |-> 0] /\ project = [r \in FeedRepo |-> 0]
  /\ saved = {} /\ tombs = {} /\ outbox = <<>>
  /\ batch = [o \in Relay |-> {}] /\ sent = [o \in Relay |-> 0]
  /\ messages = <<>> /\ work = [w \in GorseWorker |-> NoWork] /\ handled = {}
  /\ gorse = [user |-> [u \in FeedUser |-> 0], item |-> [r \in FeedRepo |-> 0],
              saves |-> {}]
  /\ live \in BOOLEAN  \* FALSE: the workers start without a Gorse client
  /\ facts = MaxFacts /\ rebuilds = MaxRebuilds /\ losses = GorseTrouble

-----------------------------------------------------------------------------
(* Facts, each with its outbox row in the same transaction.                *)

Fact == /\ facts > 0 /\ facts' = facts - 1
        /\ UNCHANGED <<relays, messages, side, live, rebuilds, losses>>
Append1(msg, tied) == outbox' = Append(outbox, OutboxRow(msg, tied))
RowIds == DOMAIN outbox

Evaluate(r) ==
  /\ Fact
  /\ project' = [project EXCEPT ![r] = @ + 1]
  /\ Append1(Msg("project", NoOne, r, 0), FALSE)
  /\ UNCHANGED <<profile, saved, tombs>>

\* The version a new profile starts with outlives the profile while the
\* tombstone does.
FirstVersion(u) ==
  LET ended == {t.version : t \in {d \in tombs : d.u = u}}
  IN IF ended = {} THEN 1 ELSE 1 + Max(ended)

\* EnsureFeedUser: the dedupe key is made of the login and the version.
Login(u) ==
  /\ profile[u] = 0 /\ Fact
  /\ profile' = [profile EXCEPT ![u] = FirstVersion(u)]
  /\ LET msg == Msg("profile", u, NoOne, FirstVersion(u)) IN
     IF \E i \in RowIds : outbox[i].msg = msg THEN UNCHANGED outbox
     ELSE Append1(msg, FALSE)
  /\ UNCHANGED <<project, saved, tombs>>

Prefer(u) ==
  /\ profile[u] > 0 /\ Fact
  /\ profile' = [profile EXCEPT ![u] = @ + 1]
  /\ Append1(Msg("profile", u, NoOne, 0), FALSE)
  /\ UNCHANGED <<project, saved, tombs>>

SaveProject(u, r) ==
  /\ profile[u] > 0 /\ project[r] > 0 /\ Fact
  /\ LET topic == IF <<u, r>> \in saved THEN "unsave" ELSE "save" IN
     /\ saved' = IF topic = "save" THEN saved \cup {<<u, r>>}
                 ELSE saved \ {<<u, r>>}
     /\ Append1(Msg(topic, u, r, 0), TRUE)
  /\ UNCHANGED <<profile, project, tombs>>

\* DeleteFeedProfile: rows of the user's events go with them.
Delete(u) ==
  /\ Fact
  /\ profile' = [profile EXCEPT ![u] = 0]
  /\ saved' = {s \in saved : s[1] # u}
  /\ tombs' = tombs \cup {[u |-> u, id |-> Len(outbox) + 1,
       version |-> IF profile[u] < FirstVersion(u) - 1 THEN FirstVersion(u) - 1
                   ELSE IF profile[u] = 0 THEN 1 ELSE profile[u]]}
  /\ outbox' = Append([i \in RowIds |->
       IF outbox[i].tied /\ outbox[i].msg.u = u
       THEN [outbox[i] EXCEPT !.state = "gone"] ELSE outbox[i]],
       OutboxRow(Msg("delete", u, NoOne, Len(outbox) + 1), FALSE))
  /\ UNCHANGED project

\* The rows of feed.events, by the id of the row queued with each.
Events == {i \in RowIds : outbox[i].tied /\ outbox[i].state # "gone"}

Requeued(msgs) == [n \in DOMAIN msgs |-> OutboxRow(msgs[n], FALSE)]

\* Tombstones and events are replayed in their order.
Rebuild ==
  /\ live /\ rebuilds > 0 /\ rebuilds' = rebuilds - 1
  /\ \E ends \in SetToSeqs({Msg("delete", t.u, NoOne, t.id) : t \in tombs}),
        items \in SetToSeqs({Msg("project", NoOne, r, 0) :
                               r \in {p \in FeedRepo : project[p] > 0}}),
        users \in SetToSeqs({Msg("profile", u, NoOne, 0) :
                               u \in {v \in FeedUser : profile[v] > 0}}),
        events \in SetToSeqs(Events) :
       /\ \A m, n \in DOMAIN ends : m < n => ends[m].id < ends[n].id
       /\ \A m, n \in DOMAIN events : m < n => events[m] < events[n]
       /\ outbox' = outbox \o Requeued(ends \o items \o users
            \o [n \in DOMAIN events |-> outbox[events[n]].msg])
  /\ UNCHANGED <<business, tombs, relays, messages, side, live, facts, losses>>

\* The workers are restarted with a Gorse client.
Enable ==
  /\ ~live /\ \A w \in GorseWorker : work[w] = NoWork
  /\ live' = TRUE
  /\ UNCHANGED <<business, tombs, outbox, relays, messages, side, facts,
                 rebuilds, losses>>

-----------------------------------------------------------------------------
(* The relays.                                                             *)

Relaying(o) == UNCHANGED <<business, tombs, side, live, facts, rebuilds>>

\* Mutant of Claimable: a row whose claim has run out is left alone.
ClaimableOnce(i) == outbox[i].state = "ready"

ClaimableRow(i) ==
  \/ outbox[i].state = "ready"
  \/ outbox[i].state = "held" /\ outbox[i].free

Taken(row, o) == [row EXCEPT !.state = "held", !.by = o, !.free = FALSE]

\* SKIP LOCKED; the rows are taken, and published, in the order of their ids.
ClaimRows(o) ==
  /\ batch[o] = {} /\ sent[o] = 0
  /\ LET mine == {i \in RowIds : ClaimableRow(i)} IN
     /\ mine # {}
     /\ batch' = [batch EXCEPT ![o] = mine]
     /\ outbox' = [i \in RowIds |->
          IF i \in mine THEN Taken(outbox[i], o) ELSE outbox[i]]
  /\ Relaying(o) /\ UNCHANGED <<sent, messages, losses>>

\* Mutant of Publish: a failed publication is completed like any other.
PublishBlind(o) ==
  /\ sent[o] = 0 /\ batch[o] # {}
  /\ sent' = [sent EXCEPT ![o] = Min(batch[o])]
  /\ messages' \in {messages, Append(messages, sent'[o])}
  /\ Relaying(o) /\ UNCHANGED <<outbox, batch, losses>>

Publish(o) ==
  /\ sent[o] = 0 /\ batch[o] # {}
  /\ sent' = [sent EXCEPT ![o] = Min(batch[o])]
  /\ messages' = Append(messages, Min(batch[o]))
  /\ Relaying(o) /\ UNCHANGED <<outbox, batch, losses>>

Held(o, i) == outbox[i].state = "held" /\ outbox[i].by = o

\* No confirm: the broker may have the message all the same.
PublishFails(o) ==
  /\ sent[o] = 0 /\ batch[o] # {} /\ losses > 0 /\ losses' = losses - 1
  /\ LET i == Min(batch[o]) IN
       /\ messages' \in {messages, Append(messages, i)}
       /\ outbox' = IF ~Held(o, i) THEN outbox
            ELSE [outbox EXCEPT ![i].state = "later", ![i].by = NoOne]
       /\ batch' = [batch EXCEPT ![o] = @ \ {i}]
  /\ Relaying(o) /\ UNCHANGED sent

\* A row that is no longer held ends the run and leaves the rest claimed.
Complete(o) ==
  /\ sent[o] > 0
  /\ IF Held(o, sent[o])
     THEN /\ outbox' = [outbox EXCEPT ![sent[o]].state = "done",
                          ![sent[o]].by = NoOne, ![sent[o]].free = FALSE]
          /\ batch' = [batch EXCEPT ![o] = @ \ {sent[o]}]
     ELSE batch' = [batch EXCEPT ![o] = {}] /\ UNCHANGED outbox
  /\ sent' = [sent EXCEPT ![o] = 0]
  /\ Relaying(o) /\ UNCHANGED <<messages, losses>>

\* The relay dies, or the row cannot be completed.
RelayDies(o) ==
  /\ batch[o] # {} /\ losses > 0 /\ losses' = losses - 1
  /\ batch' = [batch EXCEPT ![o] = {}] /\ sent' = [sent EXCEPT ![o] = 0]
  /\ Relaying(o) /\ UNCHANGED <<outbox, messages>>

\* The lease of a row runs out; under a relay at work it takes a stall.
Lapse(i) ==
  /\ outbox[i].state = "held" /\ ~outbox[i].free
  /\ outbox' = [outbox EXCEPT ![i].free = TRUE]
  /\ IF i \in batch[outbox[i].by] THEN losses > 0 /\ losses' = losses - 1
     ELSE UNCHANGED losses
  /\ UNCHANGED <<business, tombs, relays, messages, side, live, facts,
                 rebuilds>>

\* The time of the next attempt arrives.
Due(i) ==
  /\ outbox[i].state = "later"
  /\ outbox' = [outbox EXCEPT ![i].state = "ready"]
  /\ UNCHANGED <<business, tombs, relays, messages, side, live, facts, rebuilds,
                 losses>>

-----------------------------------------------------------------------------
(* The workers.                                                            *)

Handling == UNCHANGED <<business, outbox, relays, live, facts, rebuilds>>
MsgOf(w) == outbox[work[w].id].msg
FirstStep(topic) ==
  CASE topic = "project" -> "item" [] topic \in {"profile", "save"} -> "user"
    [] topic = "unsave" -> "unsave" [] OTHER -> "erase"

Take(w) ==
  /\ work[w] = NoWork /\ messages # <<>>
  /\ work' = [work EXCEPT ![w] = [NoWork EXCEPT !.id = Head(messages),
       !.at = IF live THEN FirstStep(outbox[Head(messages)].msg.topic)
              ELSE "ack"]]
  /\ messages' = Tail(messages)
  /\ Handling /\ UNCHANGED <<tombs, handled, gorse, losses>>

Goes(w, to) == work' = [work EXCEPT ![w].at = to]
After(w, step) ==
  IF MsgOf(w).topic # "save" THEN "ack"
  ELSE IF step = "user" THEN "item" ELSE "feedback"

\* upsertGorseUser reads the profile and leaves out one that is gone.
ReadUser(w) ==
  /\ work[w].at = "user"
  /\ IF profile[MsgOf(w).u] = 0 THEN Goes(w, After(w, "user"))
     ELSE work' = [work EXCEPT ![w].at = "put user",
                     ![w].user = profile[MsgOf(w).u]]
  /\ Handling /\ UNCHANGED <<tombs, messages, handled, gorse, losses>>

PutUser(w) ==
  /\ work[w].at = "put user"
  /\ gorse' = [gorse EXCEPT !.user[MsgOf(w).u] = work[w].user]
  /\ Goes(w, After(w, "user"))
  /\ Handling /\ UNCHANGED <<tombs, messages, handled, losses>>

ReadItem(w) ==
  /\ work[w].at = "item"
  /\ IF project[MsgOf(w).r] = 0 THEN Goes(w, "ack")
     ELSE work' = [work EXCEPT ![w].at = "put item",
                     ![w].item = project[MsgOf(w).r]]
  /\ Handling /\ UNCHANGED <<tombs, messages, handled, gorse, losses>>

PutItem(w) ==
  /\ work[w].at = "put item"
  /\ gorse' = [gorse EXCEPT !.item[MsgOf(w).r] = work[w].item]
  /\ Goes(w, After(w, "item"))
  /\ Handling /\ UNCHANGED <<tombs, messages, handled, losses>>

\* Gorse creates neither users nor items for a feedback.
PutFeedback(w) ==
  /\ work[w].at = "feedback"
  /\ gorse' = IF gorse.user[MsgOf(w).u] = 0 \/ gorse.item[MsgOf(w).r] = 0
              THEN gorse
              ELSE [gorse EXCEPT !.saves = @ \cup {<<MsgOf(w).u, MsgOf(w).r>>}]
  /\ Goes(w, "ack")
  /\ Handling /\ UNCHANGED <<tombs, messages, handled, losses>>

DeleteFeedback(w) ==
  /\ work[w].at = "unsave"
  /\ gorse' = [gorse EXCEPT !.saves = @ \ {<<MsgOf(w).u, MsgOf(w).r>>}]
  /\ Goes(w, "ack")
  /\ Handling /\ UNCHANGED <<tombs, messages, handled, losses>>

DeleteUser(w) ==
  /\ work[w].at = "erase"
  /\ gorse' = [gorse EXCEPT !.user[MsgOf(w).u] = 0,
                 !.saves = {s \in @ : s[1] # MsgOf(w).u}]
  /\ Goes(w, "forget")
  /\ Handling /\ UNCHANGED <<tombs, messages, handled, losses>>

MarkDeleted(w) ==
  /\ work[w].at = "forget"
  /\ tombs' = {t \in tombs : t.id # MsgOf(w).id}
  /\ Goes(w, "ack")
  /\ Handling /\ UNCHANGED <<messages, handled, gorse, losses>>

Ack(w) ==
  /\ work[w].at = "ack"
  /\ handled' = handled \cup {work[w].id}
  /\ work' = [work EXCEPT ![w] = NoWork]
  /\ Handling /\ UNCHANGED <<tombs, messages, gorse, losses>>

\* A call fails or the worker dies: the message goes back to its place.
Returned(w) == <<work[w].id>> \o messages
Nack(w) ==
  /\ work[w] # NoWork /\ losses > 0 /\ losses' = losses - 1
  /\ messages' = Returned(w)
  /\ work' = [work EXCEPT ![w] = NoWork]
  /\ Handling /\ UNCHANGED <<tombs, handled, gorse>>

-----------------------------------------------------------------------------
RelayStep(o) == ClaimRows(o) \/ Publish(o) \/ Complete(o)
WorkerStep(w) ==
  Take(w) \/ ReadUser(w) \/ PutUser(w) \/ ReadItem(w) \/ PutItem(w)
    \/ PutFeedback(w) \/ DeleteFeedback(w) \/ DeleteUser(w) \/ MarkDeleted(w)
    \/ Ack(w)

GorseNext ==
  \/ \E r \in FeedRepo : Evaluate(r)
  \/ \E u \in FeedUser : Login(u) \/ Prefer(u) \/ Delete(u)
  \/ \E u \in FeedUser, r \in FeedRepo : SaveProject(u, r)
  \/ Rebuild \/ Enable
  \/ \E o \in Relay : RelayStep(o) \/ PublishFails(o) \/ RelayDies(o)
  \/ \E i \in RowIds : Lapse(i) \/ Due(i)
  \/ \E w \in GorseWorker : WorkerStep(w) \/ Nack(w)

GorseSpec == GorseInit /\ [][GorseNext]_gorseVars

\* Relays and workers run in loops, delays and dead leases pass, and an
\* operator who enables Gorse rebuilds it.
GorseFairSpec ==
  /\ GorseSpec /\ WF_gorseVars(Enable) /\ WF_gorseVars(Rebuild)
  /\ WF_gorseVars(\E i \in RowIds : Due(i))
  /\ WF_gorseVars(\E i \in RowIds : /\ i \notin UNION {batch[o] : o \in Relay}
                                     /\ Lapse(i))
  /\ \A o \in Relay : WF_gorseVars(RelayStep(o))
  /\ \A w \in GorseWorker : WF_gorseVars(WorkerStep(w))

-----------------------------------------------------------------------------
(* Properties.                                                             *)

Carried ==
  {messages[n] : n \in DOMAIN messages} \cup {work[w].id : w \in GorseWorker}

GorseTypeOK ==
  /\ \A i \in RowIds :
       /\ outbox[i].state \in {"ready", "held", "later", "done", "gone"}
       /\ outbox[i].state = "held" => outbox[i].by \in Relay
  /\ \A o \in Relay : batch[o] \subseteq RowIds /\ sent[o] \in batch[o] \cup {0}
  /\ Carried \cup handled \subseteq RowIds \cup {0}
  /\ \A u \in FeedUser : gorse.user[u] \in Nat
  /\ gorse.saves \subseteq FeedUser \X FeedRepo

\* A delivered row reached a worker or is on its way, however relays and
\* workers die.
NothingLost ==
  \A i \in RowIds : outbox[i].state = "done" => i \in Carried \cup handled

\* Once the deletion of a user is answered for and no new profile exists, the
\* recommender knows nothing of the user, whatever was on its way.
ErasedForGood ==
  \A u \in FeedUser : profile[u] = 0 /\ (\A t \in tombs : t.u # u) /\ live =>
    gorse.user[u] = 0 /\ \A s \in gorse.saves : s[1] # u

\* One worker, as deployed: a second one may write a profile it has read
\* before the first one erases it.
OneWorker == \A v, w \in GorseWorker : v = w

\* A row the outbox calls delivered reached a worker or is on its way, and
\* what a deleted profile left in the recommender stays erased.
GorseSafe == GorseTypeOK /\ NothingLost /\ (OneWorker => ErasedForGood)

\* However the messages were repeated and late, the items of the recommender
\* end up as the catalog has them.
ItemsConverge == <>[](\A r \in FeedRepo : gorse.item[r] = project[r])

\* A profile that was never deleted ends up in Gorse as it is.
ProfilesConverge ==
  <>[](\A u \in FeedUser :
         (\A i \in RowIds :
            outbox[i].msg.topic # "delete" \/ outbox[i].msg.u # u)
           => gorse.user[u] = profile[u])
=============================================================================
