---------------------------- MODULE AuthorEmails ----------------------------
(***************************************************************************)
(* The score mails of the GitHub App (platform/github-app): the outbox     *)
(* author_emails that a finished label job writes (ReviewJobs!Mail), the   *)
(* subscriptions, found from public profiles or given by the author, the   *)
(* opt-outs, and the cron that claims a mail, spends the day's budget and  *)
(* the author's daily turn, looks again at everything that may have        *)
(* changed, and hands the mail to the provider.  Crons overlap.            *)
(*                                                                         *)
(* Every statement is an action.  Time is what the guards read of it:      *)
(* whether an author was mailed within 24 hours, whether a claim is older  *)
(* than ten minutes, and the UTC day of the budget.                        *)
(***************************************************************************)
EXTENDS Integers, FiniteSets

CONSTANTS
  User,     \* authors
  Subject,  \* repository, number and author: the identifier of a mail
  AuthorOf, \* the author of each of them
  Address,  \* mail addresses
  Worker,   \* overlapping invocations of the cron
  Cap,      \* mails a day, 100 in the code
  MaxDeaths,  \* lost invocations, and claims that outlive ten minutes
  MaxChoices, \* subscriptions, opt-outs and profile changes
  Null

ASSUME EmailAssumption ==
  /\ IsFiniteSet(User) /\ IsFiniteSet(Worker)
  /\ AuthorOf \in [Subject -> User]
  /\ Null \notin User \cup Subject \cup Address
  /\ Cap \in Nat \ {0} /\ MaxDeaths \in Nat /\ MaxChoices \in Nat

VARIABLES
  sub,     \* author_subscriptions
  optout,  \* author_email_optouts
  mail,    \* author_emails
  used,    \* email_daily_budget of the current day
  public,  \* the public address of each author at GitHub
  lookup,  \* the label job that queues each mail
  wk,      \* the invocations of sendAuthorEmails
  deaths, choices,  \* what is left of MaxDeaths and MaxChoices
  handed,  \* history: how often each mail was given to the provider
  turns,   \* history: mails per subscription in 24 hours, by its token
  today    \* history: mails paid for from today's budget

history == <<handed, turns, today>>
tables == <<sub, optout, mail, used>>
emailVars == <<tables, public, lookup, wk, deaths, choices, history>>

Tokens == 1..(Cardinality(User) + Cardinality(Worker) + MaxChoices)
NoSub == [token |-> 0, source |-> "none", email |-> Null, recent |-> FALSE]
NoMail == [state |-> "none", old |-> FALSE]
NoLookup == [at |-> "idle", email |-> Null]
Idle == [at |-> "idle", mail |-> Null, sub |-> NoSub, paid |-> FALSE]
Final == {"sent", "cancelled", "uncertain"}

EmailInit ==
  /\ sub = [u \in User |-> NoSub]
  /\ optout = {}
  /\ mail = [s \in Subject |-> NoMail]
  /\ used = 0
  /\ public \in [User -> Address \cup {Null}]
  /\ lookup = [s \in Subject |-> NoLookup]
  /\ wk = [w \in Worker |-> Idle]
  /\ deaths = MaxDeaths /\ choices = MaxChoices
  /\ handed = [s \in Subject |-> 0]
  /\ turns = [t \in Tokens |-> 0]
  /\ today = 0

-----------------------------------------------------------------------------
(* The author.                                                             *)

\* randomUUID: a token nobody refers to.
Fresh(t) ==
  /\ t \in Tokens
  /\ turns[t] = 0
  /\ \A u \in User : sub[u].token # t
  /\ \A w \in Worker : wk[w].sub.token # t

\* The explicit subscription: an existing row keeps its token and the time
\* of its last mail, a new one starts without.
Upserted(u, t, a) ==
  IF sub[u] = NoSub
  THEN [token |-> t, source |-> "verified", email |-> a, recent |-> FALSE]
  ELSE [sub[u] EXCEPT !.source = "verified", !.email = a]

Choose ==
  /\ choices > 0 /\ choices' = choices - 1
  /\ UNCHANGED <<used, lookup, wk, deaths, history>>

Subscribe(u, a) ==
  /\ Choose
  /\ \E t \in Tokens :
       /\ Fresh(t)
       /\ sub' = [sub EXCEPT ![u] = Upserted(u, t, a)]
  /\ optout' = optout \ {u}
  /\ UNCHANGED <<mail, public>>

\* The link of a mail, confirmed: one batch.
Unsubscribe(u) ==
  /\ Choose
  /\ sub[u] # NoSub
  /\ optout' = optout \cup {u}
  /\ mail' = [s \in Subject |->
       IF AuthorOf[s] = u /\ mail[s].state = "pending"
       THEN [mail[s] EXCEPT !.state = "cancelled"] ELSE mail[s]]
  /\ sub' = [sub EXCEPT ![u] = NoSub]
  /\ UNCHANGED public

ChangeProfile(u, a) ==
  /\ Choose
  /\ public[u] # a
  /\ public' = [public EXCEPT ![u] = a]
  /\ UNCHANGED <<sub, optout, mail>>

-----------------------------------------------------------------------------
(* The label job (enqueueAuthorEmail, discoverPublicRecipient).            *)

Author(s) == AuthorOf[s]
JobAt(s, at) == lookup[s].at = at
JobTo(s, at, a) == lookup' = [lookup EXCEPT ![s] = [at |-> at, email |-> a]]
OthersStay == UNCHANGED <<used, public, wk, deaths, choices, history>>

\* The opt-out and the subscription are looked up, then the profile.
Lookup(s) ==
  /\ JobAt(s, "idle")
  /\ IF Author(s) \notin optout /\ sub[Author(s)] = NoSub
     THEN \E a \in {Null, public[Author(s)]} :   \* Null: the call failed
            JobTo(s, IF a = Null THEN "queue" ELSE "enrol", a)
     ELSE JobTo(s, "queue", Null)
  /\ OthersStay /\ UNCHANGED <<sub, optout, mail>>

MayEnrol(u) == sub[u] = NoSub /\ u \notin optout
Enrol(s) ==
  /\ JobAt(s, "enrol")
  /\ IF MayEnrol(Author(s))
     THEN \E t \in Tokens :
            /\ Fresh(t)
            /\ sub' = [sub EXCEPT ![Author(s)] =
                 [token |-> t, source |-> "public", email |-> lookup[s].email,
                  recent |-> FALSE]]
     ELSE UNCHANGED sub
  /\ JobTo(s, "queue", Null)
  /\ OthersStay /\ UNCHANGED <<optout, mail>>

\* INSERT OR IGNORE; the job may be carried out again.
Enqueue(s) ==
  /\ JobAt(s, "queue")
  /\ IF /\ sub[Author(s)] # NoSub /\ Author(s) \notin optout
        /\ mail[s].state = "none"
     THEN mail' = [mail EXCEPT ![s] = [NoMail EXCEPT !.state = "pending"]]
     ELSE UNCHANGED mail
  /\ JobTo(s, "idle", Null)
  /\ OthersStay /\ UNCHANGED <<sub, optout>>

-----------------------------------------------------------------------------
(* The cron (sendAuthorEmails).                                            *)

At(w, at) == wk[w].at = at
Mail(w) == wk[w].mail
To(w, at) == wk' = [wk EXCEPT ![w] = [wk[w] EXCEPT !.at = at]]
Done(w) == wk' = [wk EXCEPT ![w] = Idle]
\* Unconditional updates of the row the invocation has claimed.
Set(w, state) ==
  mail' = [mail EXCEPT ![Mail(w)] = [state |-> state, old |-> FALSE]]
CronStays == UNCHANGED <<public, lookup, deaths, choices>>

Reoffered(row) ==
  IF row.state = "sending" /\ row.old
  THEN [state |-> "pending", old |-> FALSE] ELSE row
Swept(row) ==
  IF row.state = "sending" /\ row.old
  THEN [state |-> "uncertain", old |-> FALSE] ELSE row

Begin(w) ==
  /\ At(w, "idle")
  /\ mail' = [s \in Subject |-> Swept(mail[s])]
  /\ To(w, "pick")
  /\ CronStays /\ UNCHANGED <<sub, optout, used, history>>

Takeable(row) == row.state = "pending"

\* The next row of the list is claimed if it is still pending.
Claim(w, s) ==
  /\ At(w, "pick") /\ Takeable(mail[s])
  /\ mail' = [mail EXCEPT ![s] = [state |-> "sending", old |-> FALSE]]
  /\ wk' = [wk EXCEPT ![w] = [Idle EXCEPT !.at = "eligible", !.mail = s]]
  /\ CronStays /\ UNCHANGED <<sub, optout, used, history>>

\* The list is exhausted.
Leave(w) ==
  /\ At(w, "pick") /\ Done(w)
  /\ CronStays /\ UNCHANGED <<tables, history>>

Cancel(w) == Set(w, "cancelled") /\ To(w, "pick")

Recheck(w) ==
  /\ At(w, "eligible")
  /\ LET u == Author(Mail(w)) IN
     IF sub[u] # NoSub /\ ~sub[u].recent /\ u \notin optout
     THEN To(w, "budget") /\ UNCHANGED mail
     ELSE Cancel(w)
  /\ CronStays /\ UNCHANGED <<sub, optout, used, history>>

CanPay(n) == n < Cap

\* Without budget the mail waits again, and the invocation ends.
Pay(w) ==
  /\ At(w, "budget")
  /\ IF CanPay(used)
     THEN /\ used' = used + 1
          /\ wk' = [wk EXCEPT ![w] =
               [wk[w] EXCEPT !.at = "turn", !.paid = TRUE]]
          /\ UNCHANGED mail
     ELSE Set(w, "pending") /\ Done(w) /\ UNCHANGED used
  /\ CronStays /\ UNCHANGED <<sub, optout, history>>

HasTurn(row) == row # NoSub /\ ~row.recent
Turn(w) ==
  /\ At(w, "turn")
  /\ LET u == Author(Mail(w)) IN
     IF HasTurn(sub[u])
     THEN /\ sub' = [sub EXCEPT ![u] = [sub[u] EXCEPT !.recent = TRUE]]
          /\ wk' = [wk EXCEPT ![w] =
               [wk[w] EXCEPT !.at = "access", !.sub = sub[u]]]
          /\ UNCHANGED mail
     ELSE Cancel(w) /\ UNCHANGED sub
  /\ CronStays /\ UNCHANGED <<optout, used, history>>

\* The installation's token, or a call that fails.
Access(w) ==
  /\ At(w, "access")
  /\ \/ /\ To(w, IF wk[w].sub.source = "public" THEN "profile" ELSE "active")
        /\ UNCHANGED mail
     \/ Set(w, "uncertain") /\ To(w, "pick")
  /\ CronStays /\ UNCHANGED <<sub, optout, used, history>>

\* A public address is used only while it is the current one.
Profile(w) ==
  /\ At(w, "profile")
  /\ \/ /\ public[Author(Mail(w))] = wk[w].sub.email
        /\ To(w, "active") /\ UNCHANGED mail
     \/ /\ public[Author(Mail(w))] # wk[w].sub.email
        /\ Set(w, "cancelled") /\ To(w, "forget")
     \/ Set(w, "uncertain") /\ To(w, "pick")
  /\ CronStays /\ UNCHANGED <<sub, optout, used, history>>

Forget(w) ==
  /\ At(w, "forget")
  /\ LET u == Author(Mail(w)) IN
     sub' = IF sub[u].source = "public" /\ sub[u].token = wk[w].sub.token
            THEN [sub EXCEPT ![u] = NoSub] ELSE sub
  /\ To(w, "pick")
  /\ CronStays /\ UNCHANGED <<optout, mail, used, history>>

StillActive(u, token) == sub[u].token = token /\ u \notin optout
Active(w) ==
  /\ At(w, "active")
  /\ IF StillActive(Author(Mail(w)), wk[w].sub.token)
     THEN To(w, "send") /\ UNCHANGED mail
     ELSE Cancel(w)
  /\ CronStays /\ UNCHANGED <<sub, optout, used, history>>

\* The provider takes the mail; it answers, or it does not.
Send(w) ==
  /\ At(w, "send")
  /\ handed' = [handed EXCEPT ![Mail(w)] = @ + 1]
  /\ turns' = [turns EXCEPT ![wk[w].sub.token] = @ + 1]
  /\ today' = IF wk[w].paid THEN today + 1 ELSE today
  /\ \E answer \in {"sent", "uncertain"} : To(w, answer)
  /\ CronStays /\ UNCHANGED tables

Record(w) ==
  /\ wk[w].at \in {"sent", "uncertain"}
  /\ Set(w, wk[w].at)
  /\ To(w, "pick")
  /\ CronStays /\ UNCHANGED <<sub, optout, used, history>>

-----------------------------------------------------------------------------
(* Loss and time.                                                          *)

Die(w) ==
  /\ deaths > 0 /\ deaths' = deaths - 1
  /\ wk[w] # Idle
  /\ Done(w)
  /\ UNCHANGED <<tables, public, lookup, choices, history>>

\* Ten minutes pass over a claim: its invocation is lost, or it is slow.
Ages(s) ==
  /\ mail[s].state = "sending" /\ ~mail[s].old
  /\ LET slow == \E w \in Worker : Mail(w) = s /\ ~At(w, "pick") IN
     /\ slow => deaths > 0
     /\ deaths' = IF slow THEN deaths - 1 ELSE deaths
  /\ mail' = [mail EXCEPT ![s] = [mail[s] EXCEPT !.old = TRUE]]
  /\ UNCHANGED <<sub, optout, used, public, lookup, wk, choices, history>>

\* A new UTC day has a new row of the budget.
Midnight ==
  /\ used # 0 /\ used' = 0 /\ today' = 0
  /\ wk' = [w \in Worker |-> [wk[w] EXCEPT !.paid = FALSE]]
  /\ UNCHANGED <<sub, optout, mail, public, lookup, deaths, choices, handed,
                 turns>>

\* More than 24 hours pass; no invocation lasts that long.
DayPasses ==
  /\ \A w \in Worker : wk[w] = Idle
  /\ \/ \E u \in User : sub[u].recent
     \/ \E t \in Tokens : turns[t] # 0
  /\ sub' = [u \in User |-> [sub[u] EXCEPT !.recent = FALSE]]
  /\ turns' = [t \in Tokens |-> 0]
  /\ UNCHANGED <<optout, mail, used, public, lookup, wk, deaths, choices,
                 handed, today>>

Step(w) ==
  \/ Leave(w) \/ Recheck(w) \/ Pay(w) \/ Turn(w) \/ Access(w)
  \/ Profile(w) \/ Forget(w) \/ Active(w) \/ Send(w) \/ Record(w)

EmailNext ==
  \/ \E u \in User : \/ Unsubscribe(u)
                     \/ \E a \in Address : Subscribe(u, a)
                     \/ \E a \in Address \cup {Null} : ChangeProfile(u, a)
  \/ \E s \in Subject : Lookup(s) \/ Enrol(s) \/ Enqueue(s) \/ Ages(s)
  \/ \E w \in Worker : \/ Begin(w) \/ Step(w) \/ Die(w)
                       \/ \E s \in Subject : Claim(w, s)
  \/ Midnight \/ DayPasses

EmailSpec == EmailInit /\ [][EmailNext]_emailVars

\* The cron fires every minute and works its list off; claims age; a new
\* day comes.
EmailFairness ==
  /\ \A w \in Worker : /\ WF_emailVars(Begin(w)) /\ WF_emailVars(Step(w))
                       /\ \A s \in Subject : SF_emailVars(Claim(w, s))
  /\ \A s \in Subject : WF_emailVars(Ages(s))
  /\ SF_emailVars(Midnight)
EmailFairSpec == EmailSpec /\ EmailFairness

-----------------------------------------------------------------------------
(* Properties.                                                             *)

SubType == [token : {0} \cup Tokens, source : {"none", "public", "verified"},
            email : Address \cup {Null}, recent : BOOLEAN]
MailType == [state : {"none", "pending", "sending"} \cup Final, old : BOOLEAN]
JobType == [at : {"idle", "enrol", "queue"}, email : Address \cup {Null}]
Places == {"idle", "pick", "eligible", "budget", "turn", "access", "profile",
           "forget", "active", "send", "sent", "uncertain"}
Invocation == [at : Places, mail : Subject \cup {Null}, sub : SubType,
               paid : BOOLEAN]

\* Every variable keeps to its type (the CHECKs of the migrations).
EmailTypeOK ==
  /\ sub \in [User -> SubType] /\ optout \subseteq User
  /\ mail \in [Subject -> MailType] /\ used \in Nat
  /\ public \in [User -> Address \cup {Null}]
  /\ lookup \in [Subject -> JobType] /\ wk \in [Worker -> Invocation]
  /\ deaths \in 0..MaxDeaths /\ choices \in 0..MaxChoices

\* A mail is given to the provider at most once, whatever invocations
\* overlap, are lost or are taken for lost (sendAuthorEmails).
MailedOnce == \A s \in Subject : handed[s] <= 1

\* An author who has opted out is not subscribed: no profile lookup that was
\* under way, and no later job, enrols the author again.
NoReenrolment == \A u \in optout : sub[u] = NoSub

\* A subscription gets at most one mail in 24 hours, across invocations and
\* repositories.
OneTurn == \A t \in Tokens : turns[t] <= 1

\* The budget counts what is sent: of the mails paid for on a UTC day no more
\* were handed over than it has counted, and it never exceeds the cap.
BudgetCounts == today <= used /\ used <= Cap

\* A mail is handed over for the subscription its turn was taken from: after
\* an opt-out, or an opt-out and a new subscription, it is not, unless the
\* invocation had asked for the last time.
SendsForSubscriber ==
  \A w \in Worker : wk[w].at # "send" /\ wk'[w].at = "send" =>
    sub[Author(Mail(w))].token = wk[w].sub.token

\* A mail that was sent or cancelled stays so; the unconditional updates of
\* a slow invocation hit no other invocation's row.
SettledIsFinal ==
  \A s \in Subject : mail[s].state \in {"sent", "cancelled"} =>
    mail'[s].state = mail[s].state

\* A mail that waits is sent, cancelled or given up, although the budget may
\* send it back and its invocation may be lost.
MailEnds ==
  \A s \in Subject : mail[s].state \in {"pending", "sending"} ~>
                       mail[s].state \in Final

\* A mail is handed over once, for the subscription its turn was taken from,
\* within the budget, and an author who opted out stays out.
EmailSafe ==
  /\ [](EmailTypeOK /\ MailedOnce /\ OneTurn /\ BudgetCounts /\ NoReenrolment)
  /\ [][SendsForSubscriber /\ SettledIsFinal]_emailVars
=============================================================================
