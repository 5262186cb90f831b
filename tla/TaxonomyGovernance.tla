------------------------- MODULE TaxonomyGovernance -------------------------
(***************************************************************************)
(* Operator governance of the Feed taxonomy (platform/feed/src/            *)
(* governance.ts): a proposed tag of one project becomes a canonical tag,  *)
(* an alias of one or is rejected, and tags are deprecated.  A command is  *)
(* retried under its identity by attempts that overlap; between the reads  *)
(* of an attempt and its batch other commands commit, the project is       *)
(* analysed again and the author of a proposal deletes the profile.        *)
(***************************************************************************)
EXTENDS Integers, FiniteSets

CONSTANTS
  Command, Attempt,
  Assessed,   \* proposals made by the analysis
  Suggested,  \* proposals made by a user
  Name,       \* namespace and slug; the tag it defines has the same name
  Digest,     \* what else a payload says: operator, reason, labels
  Capacity,   \* canonical tags of a project, 100 in the code
  MaxChanges,   \* bound on new analyses and withdrawals
  Nil

Proposal == Assessed \cup Suggested
Status == {"proposed", "mapped", "rejected"}
ProposalRow == [name : Name \cup {Nil}, analysis : Nat, status : Status]
Action == {"create", "map", "reject", "deprecate"}
Payload == [action : Action, proposal : Proposal \cup {Nil},
            tag : Name \cup {Nil}, expect : Nat, analysis : Nat \cup {Nil}]
ReceiptRow == [digest : Digest, action : Action,
               proposal : Proposal \cup {Nil}, version : Nat]

\* A slug has a bounded length; NULL is no value and no row.
ASSUME GovernanceAssumption ==
  /\ Assessed \cap Suggested = {} /\ IsFiniteSet(Name)
  /\ Nil \notin Command \cup Name \cup Proposal \cup {"canonical", "deprecated"}
  /\ Nil \notin ProposalRow /\ Nil \notin Payload /\ Nil \notin ReceiptRow
  /\ Capacity \in Nat \ {0} /\ MaxChanges \in Nat

VARIABLES
  version,    \* the active taxonomy version
  tags,       \* feed_tag_definitions: None, "canonical" or "deprecated"
  alias,      \* feed_tag_aliases
  proposals,  \* the rows of both proposal tables
  live,       \* suggestions whose author has not deleted the profile
  project,    \* the analysis, its tags, whether its evidence stands
  receipts,   \* feed_governance_commands
  payload,    \* what each command asks, fixed by its first attempt
  try,        \* attempts
  changes

governanceVars ==
  <<version, tags, alias, proposals, live, project, receipts, payload, try,
    changes>>
taxonomy == <<version, tags, alias, proposals, project, receipts>>

NewTry == [at |-> "new", cmd |-> Nil, digest |-> Nil, row |-> Nil,
           answer |-> "none", got |-> Nil]

GovernanceInit ==
  /\ version = 1
  /\ \E defined \in SUBSET Name :
       tags = [n \in Name |-> IF n \in defined THEN "canonical" ELSE Nil]
  /\ alias = [n \in Name |-> Nil]
  /\ proposals = [p \in Proposal |-> Nil]
  /\ live = {}
  /\ project = [analysis |-> 1, ok |-> TRUE, tags |-> {}]
  /\ receipts = [c \in Command |-> Nil]
  /\ payload = [c \in Command |-> Nil]
  /\ try = [a \in Attempt |-> NewTry]
  /\ changes = MaxChanges

Canonical(n) == tags[n] = "canonical"
Exists(p) == proposals[p] # Nil
Readable(p) == Exists(p) /\ (p \in Suggested => p \in live)
Proposed(n) ==
  [name |-> n, analysis |-> project.analysis, status |-> "proposed"]

-----------------------------------------------------------------------------
(* What happens around the commands.                                       *)

\* A new analysis replaces the tags: what a name resolves to, by itself or by
\* its alias, and a proposal for what it does not.
Resolved(n) == IF Canonical(n) THEN {n}
               ELSE {m \in {alias[n]} : m # Nil /\ Canonical(m)}

Analyse ==
  /\ changes > 0 /\ changes' = changes - 1
  /\ \E inputs \in SUBSET Name, p \in Assessed :
       /\ Cardinality(inputs) <= Capacity
       /\ project' = [analysis |-> project.analysis + 1, ok |-> TRUE,
                      tags |-> UNION {Resolved(n) : n \in inputs}]
       /\ \/ \E n \in inputs :
               /\ Resolved(n) = {} /\ ~Exists(p)
               /\ proposals' = [proposals EXCEPT ![p] =
                    [name |-> n, analysis |-> project'.analysis,
                     status |-> "proposed"]]
          \/ UNCHANGED proposals
  /\ UNCHANGED <<version, tags, alias, live, receipts, payload, try>>

\* Moderation or a revoked submission.
WithdrawProject ==
  /\ changes > 0 /\ changes' = changes - 1
  /\ project.ok
  /\ project' = [project EXCEPT !.ok = FALSE]
  /\ UNCHANGED <<version, tags, alias, proposals, live, receipts, payload, try>>

\* FeedCommands.propose; a suggestion is its command, sent again without effect.
Suggest(p) ==
  /\ ~Exists(p)
  /\ \E n \in Name : proposals' = [proposals EXCEPT ![p] = Proposed(n)]
  /\ live' = live \cup {p}
  /\ UNCHANGED <<version, tags, alias, project, receipts, payload, try,
                 changes>>

\* The author deletes the profile, and later the cleanup redacts the text.
Forget ==
  /\ live # {}
  /\ live' = {}
  /\ UNCHANGED <<taxonomy, payload, try, changes>>

RedactText(p) ==
  /\ Exists(p) /\ p \notin live /\ proposals[p].name # Nil
  /\ proposals' = [proposals EXCEPT ![p].name = Nil]
  /\ UNCHANGED <<version, tags, alias, live, project, receipts, payload, try,
                 changes>>

-----------------------------------------------------------------------------
(* An attempt: receipt, proposal, batch, and what follows an error.        *)

Asked(c) == payload[try[c].cmd]
Review(a) == Asked(a).action # "deprecate"
Receipt(a) == receipts[try[a].cmd]
Goes(a, at) == try' = [try EXCEPT ![a].at = at]
Answers(a, what) ==
  try' = [try EXCEPT ![a].at = "done", ![a].answer = what, ![a].row = Nil]
Gets(a, receipt) ==
  try' = [try EXCEPT ![a].at = "done", ![a].answer = "result",
                     ![a].got = receipt, ![a].row = Nil]

\* The answer of a receipt, or a conflict when it is of another payload.
AnswersReceipt(a) ==
  IF Receipt(a).digest = try[a].digest THEN Gets(a, Receipt(a))
  ELSE Answers(a, "conflict")

Payloads ==
  [action : {"create", "reject"}, proposal : Proposal, tag : {Nil},
   expect : {version}, analysis : {project.analysis}]
  \cup [action : {"map"}, proposal : Proposal, tag : Name,
        expect : {version}, analysis : {project.analysis}]
  \cup [action : {"deprecate"}, proposal : {Nil}, tag : Name,
        expect : {version}, analysis : {Nil}]

Send(a) ==
  /\ try[a].at = "new"
  /\ \E c \in Command, d \in Digest :
       /\ try' = [try EXCEPT ![a].at = "receipt", ![a].cmd = c,
                             ![a].digest = d]
       /\ IF payload[c] = Nil
          THEN payload' \in {[payload EXCEPT ![c] = w] : w \in Payloads}
          ELSE UNCHANGED payload
  /\ UNCHANGED <<taxonomy, live, changes>>

ReadReceipt(a) ==
  /\ try[a].at = "receipt"
  /\ IF Receipt(a) # Nil THEN AnswersReceipt(a)
     ELSE Goes(a, IF Review(a) THEN "read" ELSE "batch")
  /\ UNCHANGED <<taxonomy, payload, live, changes>>

ReadProposal(a) ==
  /\ try[a].at = "read"
  /\ IF Readable(Asked(a).proposal)
     THEN try' = [try EXCEPT ![a].at = "batch",
                             ![a].row = proposals[Asked(a).proposal]]
     ELSE Goes(a, "recheck")
  /\ UNCHANGED <<taxonomy, payload, live, changes>>

Recheck(a) ==
  /\ try[a].at = "recheck"
  /\ IF Receipt(a) # Nil THEN AnswersReceipt(a)
     ELSE Answers(a, IF Asked(a).proposal \in Suggested
                     THEN "deleted" ELSE "not found")
  /\ UNCHANGED <<taxonomy, payload, live, changes>>

\* The tag the command defines or assigns.
TagOf(a) == IF Asked(a).action = "create" THEN try[a].row.name ELSE Asked(a).tag

AuthorStands(a) ==
  Review(a) /\ Asked(a).proposal \in Suggested => Asked(a).proposal \in live

\* The row still has what was read, and belongs to the analysis that was named.
ProposalStands(a) ==
  Review(a) => LET row == proposals[Asked(a).proposal] IN
               /\ row.analysis = Asked(a).analysis
               /\ row.name = try[a].row.name

\* Mutant of Pending: the status that was read is trusted.
PendingAsRead(a) ==
  IF Review(a) THEN try[a].row.status = "proposed" ELSE Canonical(Asked(a).tag)

Pending(a) ==
  IF Review(a) THEN proposals[Asked(a).proposal].status = "proposed"
  ELSE Canonical(Asked(a).tag)

EvidenceStands(a) ==
  Asked(a).action \in {"create", "map"} =>
    project.ok /\ proposals[Asked(a).proposal].analysis = project.analysis

TagIdentity(a) ==
  LET n == try[a].row.name IN
  CASE Asked(a).action = "create" -> tags[n] = Nil /\ alias[n] = Nil
    [] Asked(a).action = "map" ->
         /\ Canonical(Asked(a).tag)
         /\ alias[n] \in {Nil, Asked(a).tag}
         /\ tags[n] = Nil \/ (n = Asked(a).tag /\ Canonical(n))
    [] OTHER -> TRUE

HasRoom(a) ==
  Asked(a).action \in {"create", "map"} =>
    \/ TagOf(a) \in project.tags /\ Canonical(TagOf(a))
    \/ Cardinality({t \in project.tags : Canonical(t)}) < Capacity

Guard(a) ==
  /\ Asked(a).expect = version
  /\ AuthorStands(a) /\ ProposalStands(a) /\ Pending(a) /\ EvidenceStands(a)
  /\ TagIdentity(a) /\ HasRoom(a)

Advanced(a) == Asked(a).expect + (IF Asked(a).action = "reject" THEN 0 ELSE 1)

\* A mapping adds an alias, unless the name is the tag it is mapped to.
Aliased(a) ==
  IF Asked(a).action = "map" /\ tags[try[a].row.name] = Nil
  THEN [alias EXCEPT ![try[a].row.name] = Asked(a).tag] ELSE alias

\* Every statement of the batch.
Apply(a) ==
  LET act == Asked(a).action
      p == Asked(a).proposal
      n == try[a].row.name
  IN
  /\ version' = Advanced(a)
  /\ tags' = CASE act = "create" -> [tags EXCEPT ![n] = "canonical"]
               [] act = "deprecate" ->
                    [tags EXCEPT ![Asked(a).tag] = "deprecated"]
               [] OTHER -> tags
  /\ alias' = Aliased(a)
  /\ project' = IF act \in {"create", "map"}
                THEN [project EXCEPT !.tags = @ \cup {TagOf(a)}] ELSE project
  /\ proposals' = IF Review(a)
       THEN [proposals EXCEPT ![p].status =
               IF act = "reject" THEN "rejected" ELSE "mapped"]
       ELSE proposals
  /\ receipts' = [receipts EXCEPT ![try[a].cmd] =
       [digest |-> try[a].digest, action |-> act, proposal |-> p,
        version |-> version']]

\* The batch repeats the receipt of the same payload without effect.  The
\* answer may be lost after the commit as well as before it.
CommandBatch(a) ==
  /\ try[a].at = "batch"
  /\ \/ /\ Receipt(a) # Nil
        /\ AnswersReceipt(a)
        /\ UNCHANGED taxonomy
     \/ /\ Receipt(a) = Nil /\ Guard(a)
        /\ Apply(a)
        /\ \/ Gets(a, receipts'[try[a].cmd])
           \/ Goes(a, "failed")
     \/ /\ Goes(a, "failed")
        /\ UNCHANGED taxonomy
  /\ UNCHANGED <<payload, live, changes>>

\* Only the attempts of a user proposal look again before they answer.
Failed(a) ==
  /\ try[a].at = "failed"
  /\ IF Review(a) /\ Asked(a).proposal \in Suggested
     THEN IF Receipt(a) # Nil THEN AnswersReceipt(a) ELSE Goes(a, "reread")
     ELSE Answers(a, "error")
  /\ UNCHANGED <<taxonomy, payload, live, changes>>

Reread(a) ==
  /\ try[a].at = "reread"
  /\ Answers(a, IF Readable(Asked(a).proposal) THEN "error" ELSE "deleted")
  /\ UNCHANGED <<taxonomy, payload, live, changes>>

AttemptStep(a) == Send(a) \/ ReadReceipt(a) \/ ReadProposal(a) \/ Recheck(a)
             \/ CommandBatch(a) \/ Failed(a) \/ Reread(a)

GovernanceNext ==
  \/ Analyse \/ WithdrawProject \/ Forget
  \/ \E p \in Suggested : Suggest(p) \/ RedactText(p)
  \/ \E a \in Attempt : AttemptStep(a)

GovernanceSpec == GovernanceInit /\ [][GovernanceNext]_governanceVars

-----------------------------------------------------------------------------
(* Properties.                                                             *)

Applied == {c \in Command : receipts[c] # Nil}

\* Types, and tags of a project that are defined.
Try ==
  [at : {"new", "receipt", "read", "recheck", "batch", "failed", "reread",
         "done"},
   cmd : Command \cup {Nil}, digest : Digest \cup {Nil},
   row : ProposalRow \cup {Nil},
   answer : {"none", "result", "conflict", "deleted", "not found", "error"},
   got : ReceiptRow \cup {Nil}]
GovernanceTypeOK ==
  /\ version \in Nat \ {0}
  /\ tags \in [Name -> {Nil, "canonical", "deprecated"}]
  /\ alias \in [Name -> Name \cup {Nil}]
  /\ proposals \in [Proposal -> ProposalRow \cup {Nil}]
  /\ live \subseteq {p \in Suggested : Exists(p)}
  /\ project \in [analysis : Nat, ok : BOOLEAN, tags : SUBSET Name]
  /\ \A t \in project.tags : tags[t] # Nil
  /\ receipts \in [Command -> ReceiptRow \cup {Nil}]
  /\ payload \in [Command -> Payload \cup {Nil}]
  /\ try \in [Attempt -> Try]
  /\ changes \in 0..MaxChanges

\* The taxonomy advances by one version for each command that changed it, and
\* no attempt of a command applies it again: every version has its command.
VersionsHaveCommands ==
  LET changed == {c \in Applied : receipts[c].action # "reject"} IN
  /\ version = 1 + Cardinality(changed)
  /\ \A c, d \in changed : receipts[c].version = receipts[d].version => c = d

\* A proposal is decided by one command, and not decided without one.
DecidedOnce ==
  \A p \in Proposal :
    LET by == {c \in Applied : receipts[c].proposal = p} IN
    /\ Cardinality(by) <= 1
    /\ Exists(p) => (proposals[p].status # "proposed") = (by # {})

\* A name is either a tag or an alias and an alias leads to a tag that was
\* defined, whatever was created, mapped and deprecated in between.
NamesResolveOnce ==
  \A n \in Name : alias[n] # Nil => tags[n] = Nil /\ tags[alias[n]] # Nil

\* Concurrent decisions about one project stay within its capacity.
TagsFit == Cardinality({t \in project.tags : Canonical(t)}) <= Capacity

\* An attempt answers what the command did: never the result of another
\* payload under the same identity.
AnswersAreReceipts ==
  \A a \in Attempt : try[a].answer = "result" =>
    try[a].got = Receipt(a) /\ try[a].got.digest = try[a].digest

\* No text of an author who is gone is promoted, between the deletion of the
\* profile and the redaction of the text included.
GoneIsNotPromoted ==
  \A p \in Suggested :
    Exists(p) /\ proposals'[p].status # proposals[p].status => p \in live

\* Every taxonomy version has one command, every proposal one decision and
\* every name one meaning, however often the commands are tried.
GovernanceSafe ==
  /\ [](/\ GovernanceTypeOK /\ VersionsHaveCommands /\ DecidedOnce
        /\ NamesResolveOnce /\ TagsFit /\ AnswersAreReceipts)
  /\ [][GoneIsNotPromoted]_governanceVars
=============================================================================
