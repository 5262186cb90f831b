---------------------------- MODULE FeedServing ----------------------------
(***************************************************************************)
(* The profile of one Feed user and what is served from it: the HTTP       *)
(* handlers (internal/backend/feed_api.go) above the D1 commands           *)
(* (platform/feed/src/store.ts and commands.ts).  A handler is a sequence  *)
(* of calls; a call is one atomic batch whose first statement asserts what *)
(* the handler read before.  Page requests and commands run concurrently   *)
(* with each other, with the catalog and with the taxonomy.                *)
(***************************************************************************)
EXTENDS Integers, FiniteSets, Sequences, SequencesExt

CONSTANTS
  Repo, Tag,
  Visit,        \* page requests, each with the session it may create
  Act,         \* requests that change the profile
  EventId,     \* identities of reported events, chosen by the client
  MaxMoves,    \* bound on changes of the catalog and the taxonomy
  Null

ASSUME ServingAssumption ==
  /\ IsFiniteSet(Repo) /\ MaxMoves \in Nat /\ Null \notin Visit \cup Tag

VARIABLES
  user,      \* feed_users: the profile version, 0 when there is no row
  floor,     \* feed_profile_floors, 0 when there is no row
  wanted,    \* explicit preferences: tag -> 1, -1, or 0 for no row
  inferred,  \* the tags with a behaviour preference
  saved, hidden,     \* feed_user_project_states
  signals,   \* feed_behavior_signals: project and kind
  sessions,  \* feed_runtime_sessions, by the page that created them
  requests,  \* feed_runtime_requests with the one served item
  events,    \* feed_runtime_events of telemetry
  catalog,   \* feed_projects: analysis, tag and public eligibility
  tax,       \* the active taxonomy version and the canonical tags
  page, act, \* what each handler has read and what it does next
  cursors, tokens,   \* what clients hold
  era,       \* history: how many profiles were deleted
  moves      \* changes of the catalog and the taxonomy left

servingVars ==
  <<user, floor, wanted, inferred, saved, hidden, signals, sessions, requests,
    events, catalog, tax, page, act, cursors, tokens, era, moves>>
account == <<user, wanted, inferred, saved, hidden, signals>>
world == <<catalog, tax, moves>>
client == <<cursors, tokens>>

Kind == {"saved", "outbound"}
Analysed(r) == [repo |-> r, rev |-> catalog[r].rev]
View == [wanted |-> wanted, inferred |-> inferred,
         saved |-> saved, hidden |-> hidden]

NewPage == [at |-> "new", user |-> 0, tax |-> 0, view |-> Null,
            items |-> <<>>, of |-> Null, off |-> 0, cursor |-> FALSE]
NewAct == [at |-> "new", user |-> 0, floor |-> 0]

ServingInit ==
  /\ user = 0 /\ floor = 0 /\ era = 0
  /\ wanted = [t \in Tag |-> 0]
  /\ inferred = {} /\ saved = {} /\ hidden = {} /\ signals = {}
  /\ sessions = [p \in Visit |-> Null]
  /\ requests = {} /\ events = {}
  /\ \E of \in [Repo -> Tag \cup {Null}], shown \in [Repo -> BOOLEAN] :
       catalog = [r \in Repo |-> [rev |-> 1, tag |-> of[r], ok |-> shown[r]]]
  /\ tax = [version |-> 1, canonical |-> Tag]
  /\ page = [p \in Visit |-> NewPage]
  /\ act = [a \in Act |-> NewAct]
  /\ cursors = {} /\ tokens = {} /\ moves = MaxMoves

-----------------------------------------------------------------------------
(* Operators of the statements.                                            *)

Eligible(r) ==
  /\ catalog[r].ok
  /\ r \notin hidden
  /\ ~(catalog[r].tag \in tax.canonical /\ wanted[catalog[r].tag] = -1)

\* Deletes and derives again the behaviour preferences, from the signals and
\* the tags of the analysis the catalog holds now.
Inferred(signs) == {catalog[s[1]].tag : s \in signs} \cap tax.canonical

Relation(t, version) ==
  \E q \in requests :
    /\ q.id = t.request /\ q.repo = t.repo
    /\ q.user <= version /\ q.user > floor

TaxonomyOf(t) ==
  \A q \in requests : q.id = t.request => q.tax = tax.version

Ensured == IF user = 0 THEN floor + 1 ELSE user

-----------------------------------------------------------------------------
(* A page without a cursor: ensure, load, rank, keep the session.          *)

First(p) ==
  /\ page[p].at = "new"
  /\ user' = Ensured
  /\ page' = [page EXCEPT ![p] =
       [NewPage EXCEPT !.at = "user", !.user = user', !.tax = tax.version]]
  /\ UNCHANGED <<floor, wanted, inferred, saved, hidden, signals, sessions,
                 requests, events, world, act, client, era>>

Load(p) ==
  /\ page[p].at = "user"
  /\ user # 0
  /\ \E order \in SetToSeqs({Analysed(r) : r \in {r \in Repo : Eligible(r)}}) :
       page' = [page EXCEPT ![p].at = "ranked", ![p].view = View,
                            ![p].of = p, ![p].items = order]
  /\ UNCHANGED <<account, floor, sessions, requests, events, world, act,
                 client, era>>

SessionRow(p) == [user |-> page[p].user, tax |-> page[p].tax,
           view |-> page[p].view, items |-> page[p].items]

\* Mutant of Put: the profile version is not asserted.
PutUnfenced(p) ==
  /\ page[p].at = "ranked"
  /\ tax.version = page[p].tax
  /\ sessions' = [sessions EXCEPT ![p] = SessionRow(p)]
  /\ page' = [page EXCEPT ![p].at = "page", ![p].cursor = TRUE]
  /\ UNCHANGED <<account, floor, requests, events, world, act, client, era>>

\* sessions.put.  Without an answer, or without the row, the page goes out
\* with no cursor.
Put(p) ==
  /\ page[p].at = "ranked"
  /\ \/ /\ user = page[p].user /\ tax.version = page[p].tax
        /\ sessions' = [sessions EXCEPT ![p] = SessionRow(p)]
        /\ \E heard \in BOOLEAN :
             page' = [page EXCEPT ![p].at = "page", ![p].cursor = heard]
     \/ /\ UNCHANGED sessions
        /\ page' = [page EXCEPT ![p].at = "page"]
  /\ UNCHANGED <<account, floor, requests, events, world, act, client, era>>

-----------------------------------------------------------------------------
(* A page with a cursor: the session, then the user, then the page.        *)

Resume(p) ==
  /\ page[p].at = "new"
  /\ \E c \in cursors :
       LET s == sessions[c.of] IN
       /\ s # Null
       /\ s.user = user /\ s.tax = tax.version
       /\ page' = [page EXCEPT ![p] =
            [at |-> "session", user |-> s.user, tax |-> s.tax,
             view |-> s.view, items |-> s.items, of |-> c.of,
             off |-> c.off, cursor |-> TRUE]]
  /\ UNCHANGED <<account, floor, sessions, requests, events, world, act,
                 client, era>>

Compare(p) ==
  /\ page[p].at = "session"
  /\ user = page[p].user /\ tax.version = page[p].tax
  /\ page' = [page EXCEPT ![p].at = "page"]
  /\ UNCHANGED <<account, floor, sessions, requests, events, world, act,
                 client, era>>

\* No user, another version, no session: an error or an expired cursor.
Refuse(p) ==
  /\ page[p].at \in {"user", "session", "page", "save", "expire"}
  /\ page' = [page EXCEPT ![p] = [NewPage EXCEPT !.at = "done"]]
  /\ UNCHANGED <<account, floor, sessions, requests, events, world, act,
                 client, era>>

-----------------------------------------------------------------------------
(* The page itself: every remaining project must still be available.       *)

Stands(v) == v.rev = catalog[v.repo].rev /\ Eligible(v.repo)
Remaining(p) ==
  {page[p].items[i] : i \in page[p].off + 1..Len(page[p].items)}

Available(p) ==
  /\ page[p].at = "page"
  /\ page' = [page EXCEPT ![p].at =
       IF \A v \in Remaining(p) : Stands(v) THEN "save" ELSE "expire"]
  /\ UNCHANGED <<account, floor, sessions, requests, events, world, act,
                 client, era>>

Served(p) == IF page[p].off < Len(page[p].items)
             THEN {page[p].items[page[p].off + 1]} ELSE {}

\* requests.save: profile, taxonomy, then the identity of what is served.
\* The answer carries an impression token and, if something remains, a
\* cursor; when it is lost the client has neither.
Save(p) ==
  /\ page[p].at = "save"
  /\ user = page[p].user
  /\ IF tax.version = page[p].tax /\ \A v \in Served(p) : Stands(v)
     THEN /\ requests' = requests \cup
               {[id |-> p, repo |-> v.repo, user |-> page[p].user,
                 tax |-> page[p].tax, era |-> era] : v \in Served(p)}
          /\ \/ /\ tokens' = tokens \cup
                     {[request |-> p, repo |-> v.repo,
                       user |-> page[p].user] : v \in Served(p)}
                /\ cursors' = cursors \cup
                     {[of |-> page[p].of, off |-> o] : o \in
                        {n \in {page[p].off + 1} :
                           page[p].cursor /\ n < Len(page[p].items)}}
             \/ UNCHANGED client
          /\ page' = [page EXCEPT ![p] = [NewPage EXCEPT !.at = "done"]]
     ELSE /\ page' = [page EXCEPT ![p].at = "expire"]
          /\ UNCHANGED <<requests, client>>
  /\ UNCHANGED <<account, floor, sessions, events, world, act, era>>

\* sessions.delete under the profile version of the session.
ExpireSession(p) ==
  /\ page[p].at = "expire"
  /\ user = page[p].user
  /\ sessions' = [sessions EXCEPT ![page[p].of] = Null]
  /\ page' = [page EXCEPT ![p] = [NewPage EXCEPT !.at = "done"]]
  /\ UNCHANGED <<account, floor, requests, events, world, act, client, era>>

-----------------------------------------------------------------------------
(* Commands.  The handler reads the profile, then sends one batch.         *)

Ask(a) ==
  /\ act[a].at = "new"
  /\ user' = Ensured
  /\ act' = [act EXCEPT ![a] = [at |-> "asked", user |-> user',
                               floor |-> floor]]
  /\ UNCHANGED <<floor, wanted, inferred, saved, hidden, signals, sessions,
                 requests, events, world, page, client, era>>

AskDelete(a) ==
  /\ act[a].at = "new"
  /\ act' = [act EXCEPT ![a] = [at |-> "deleting", user |-> user,
                               floor |-> floor]]
  /\ UNCHANGED <<account, floor, sessions, requests, events, world, page,
                 client, era>>

\* A guard refuses, a call fails, an answer is malformed.
ActFails(a) ==
  /\ act[a].at \in {"asked", "deleting"}
  /\ act' = [act EXCEPT ![a] = [NewAct EXCEPT !.at = "done"]]
  /\ UNCHANGED <<account, floor, sessions, requests, events, world, page,
                 client, era>>

Done(a) == act' = [act EXCEPT ![a] = [NewAct EXCEPT !.at = "done"]]

\* What the handler asks of the token, then what the batch asserts.
Trusts(a, t) == act[a].floor < t.user /\ t.user <= act[a].user
Admits(a, t) ==
  /\ user = act[a].user
  /\ TaxonomyOf(t)
  /\ Relation(t, act[a].user)

Bumped(changed) == user + (IF changed THEN 1 ELSE 0)

With(S, r, value) == IF value THEN S \cup {r} ELSE S \ {r}

\* The signal follows the state.
SavedSignals(r) ==
  {s \in signals : s # <<r, "saved">>}
    \cup {<<q, "saved">> : q \in {r} \cap saved'}

SetState(a) ==
  /\ act[a].at = "asked"
  /\ \E t \in tokens, value \in BOOLEAN :
       /\ Trusts(a, t) /\ Admits(a, t)
       /\ \/ /\ saved' = With(saved, t.repo, value)
             /\ hidden' = IF value THEN hidden \ {t.repo} ELSE hidden
             /\ user' = Bumped(value # (t.repo \in saved))
          \/ /\ hidden' = With(hidden, t.repo, value)
             /\ saved' = IF value THEN saved \ {t.repo} ELSE saved
             /\ user' = Bumped(value # (t.repo \in hidden))
       /\ signals' = SavedSignals(t.repo)
  /\ inferred' = Inferred(signals')
  /\ Done(a)
  /\ UNCHANGED <<floor, wanted, sessions, requests, events, world, page,
                 client, era>>

\* Telemetry.  Only a new signal makes a new profile version; the behaviour
\* preferences are derived again in any case.
AppendEvent(a) ==
  /\ act[a].at = "asked"
  /\ \E t \in tokens, id \in EventId, type \in {"impression", "outbound"} :
       /\ Trusts(a, t) /\ Admits(a, t)
       /\ \A e \in events : e.id = id =>
            <<e.request, e.repo, e.type>> = <<t.request, t.repo, type>>
       /\ IF id \in {e.id : e \in events}
          THEN UNCHANGED <<events, signals>>
          ELSE /\ events' = events \cup
                    {[id |-> id, request |-> t.request, repo |-> t.repo,
                      type |-> type, user |-> act[a].user, era |-> era]}
               /\ signals' = signals \cup
                    {s \in {<<t.repo, "outbound">>} : type = "outbound"}
  /\ user' = Bumped(signals' # signals)
  /\ inferred' = Inferred(signals')
  /\ Done(a)
  /\ UNCHANGED <<floor, wanted, saved, hidden, sessions, requests, world,
                 page, client, era>>

Prefer(a) ==
  /\ act[a].at = "asked"
  /\ user = act[a].user
  /\ \E w \in [Tag -> {-1, 0, 1}] :
       /\ {t \in Tag : w[t] # 0} \subseteq tax.canonical
       /\ wanted' = w
  /\ user' = user + 1
  /\ Done(a)
  /\ UNCHANGED <<floor, inferred, saved, hidden, signals, sessions, requests,
                 events, world, page, client, era>>

Highest(S) == CHOOSE n \in S : \A m \in S : m <= n
NewFloor == Highest({1, user, floor})

\* profile.delete: the floor rises, every row of the profile goes.
Delete(a) ==
  /\ act[a].at = "deleting"
  /\ user = act[a].user
  /\ floor' = NewFloor
  /\ era' = IF user = 0 THEN era ELSE era + 1
  /\ user' = 0
  /\ wanted' = [t \in Tag |-> 0]
  /\ inferred' = {} /\ saved' = {} /\ hidden' = {} /\ signals' = {}
  /\ sessions' = [p \in Visit |-> Null]
  /\ Done(a)
  /\ UNCHANGED <<requests, events, world, page, client>>

-----------------------------------------------------------------------------
(* The catalog and the taxonomy move on their own.                         *)

Moves == moves > 0 /\ moves' = moves - 1

Materialize(r) ==
  /\ Moves
  /\ \E t \in Tag \cup {Null} :
       catalog' = [catalog EXCEPT ![r] =
         [rev |-> catalog[r].rev + 1, tag |-> t, ok |-> TRUE]]
  /\ UNCHANGED <<account, floor, sessions, requests, events, tax, page, act,
                 client, era>>

Withdraw(r) ==
  /\ Moves
  /\ catalog[r].ok
  /\ catalog' = [catalog EXCEPT ![r].ok = FALSE]
  /\ UNCHANGED <<account, floor, sessions, requests, events, tax, page, act,
                 client, era>>

Govern ==
  /\ Moves
  /\ \E gone \in SUBSET tax.canonical :
       tax' = [version |-> tax.version + 1, canonical |-> tax.canonical \ gone]
  /\ UNCHANGED <<account, floor, sessions, requests, events, catalog, page,
                 act, client, era>>

ServingNext ==
  \/ \E p \in Visit : \/ First(p) \/ Load(p) \/ Put(p) \/ Resume(p)
                      \/ Compare(p) \/ Refuse(p) \/ Available(p)
                      \/ Save(p) \/ ExpireSession(p)
  \/ \E a \in Act : \/ Ask(a) \/ AskDelete(a) \/ ActFails(a) \/ SetState(a)
                     \/ AppendEvent(a) \/ Prefer(a) \/ Delete(a)
  \/ \E r \in Repo : Materialize(r) \/ Withdraw(r)
  \/ Govern

ServingSpec == ServingInit /\ [][ServingNext]_servingVars

-----------------------------------------------------------------------------
(* Properties.                                                             *)

\* Types; versions stay within what the commands can produce.
ServingTypeOK ==
  /\ {user, floor, era} \subseteq Nat
  /\ wanted \in [Tag -> {-1, 0, 1}] /\ inferred \subseteq Tag
  /\ saved \cup hidden \subseteq Repo /\ signals \subseteq Repo \X Kind
  /\ \A p \in Visit :
       /\ sessions[p] # Null => sessions[p].user \in Nat \ {0}
       /\ page[p].off <= Len(page[p].items)
  /\ \A r \in Repo : catalog[r].rev \in 1..MaxMoves + 1
  /\ tax.version \in 1..MaxMoves + 1 /\ tax.canonical \subseteq Tag

\* Rows of a profile belong to the profile that stands: a command that was on
\* its way when the profile was deleted leaves nothing behind, and no session
\* names a version that was deleted or is yet to come.
ProfileRowsStand ==
  /\ user = 0 =>
       /\ \A t \in Tag : wanted[t] = 0
       /\ inferred \cup saved \cup hidden = {} /\ signals = {}
  /\ \A p \in Visit : sessions[p] # Null => sessions[p].user \in floor+1..user

\* Saved and dismissed exclude each other and the saved signal, from which
\* the preferences are derived, is there exactly for what is saved, whatever
\* order the commands of several tabs arrive in.
StateAndSignalsAgree ==
  /\ saved \cap hidden = {}
  /\ {r \in Repo : <<r, "saved">> \in signals} = saved

\* Events refer to something served to the same profile: an impression token
\* from before a deletion never attributes an event to the profile that came
\* after, also when versions count up again.
EventsOfTheirProfile ==
  \A e \in events : \E q \in requests :
    /\ q.id = e.request /\ q.repo = e.repo
    /\ q.era = e.era /\ q.user <= e.user

\* What a page is served from has the explicit preferences and the project
\* states the sequence was ranked with (feed_api.go serveFeedCursor).
ContinuationIsFresh ==
  \A q \in requests' \ requests :
    /\ page[q.id].view.wanted = wanted
    /\ page[q.id].view.saved = saved
    /\ page[q.id].view.hidden = hidden

\* A served project is public and not rejected by this user at the moment the
\* record of it is written, however late the withdrawal.
ServedIsEligible ==
  \A q \in requests' \ requests :
    /\ catalog[q.repo].ok
    /\ q.repo \notin hidden
    /\ catalog[q.repo].tag \in tax.canonical
         => wanted[catalog[q.repo].tag] # -1

\* No row outlives the profile it was made for, a continued page is ranked
\* with what its user prefers now, and what is served is still eligible.
ServingSafe ==
  /\ [](/\ ServingTypeOK /\ ProfileRowsStand /\ StateAndSignalsAgree
        /\ EventsOfTheirProfile)
  /\ [][ContinuationIsFresh /\ ServedIsEligible]_servingVars
=============================================================================
