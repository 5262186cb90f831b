----------------------------- MODULE MCFeedStore -----------------------------
(* The store of the Feed on small instances: the deletion of a profile      *)
(* (FeedCleanup), what is served from it (FeedServing) and the decisions    *)
(* about the taxonomy (TaxonomyGovernance).  They share no state, so each   *)
(* is explored alone: part, which never changes, says which moves.          *)
EXTENDS FeedCleanup, FeedServing, TaxonomyGovernance, TLC

\* a1 and a2, b1 and b2, n1 and n2 are interchangeable.
CONSTANTS a1, a2, b1, b2, n1, n2, c, d, e

VARIABLE part

\* Objects of the first generation that were never registered.
MCLegacy == {<<1, 1>>, <<1, 2>>}

all == <<part, vars, servingVars, governanceVars>>

Unused(w) == worker[w].id = 0
NoObject == \A k \in Key : bucket[k] = "none"
FirstRows == authors = {} /\ \A t \in Table : \A r \in rows[t] : r[2] = 1

\* A profile deleted twice while a late archive write is under way.
Erasure ==
  /\ \E w \in Worker : Unused(w)
  /\ \E x \in Caller : caller[x].at = "start"
  /\ FirstRows
  /\ \A k \in Key : bucket[k] # "none" \/ registry[k] # "absent" => k[2] = 1
\* Two executions of the job of one deletion, with two pages in each phase.
Leases ==
  /\ \E x \in Caller : caller[x].at = "start"
  /\ \A a \in Writer : writer[a].at = "start"
  /\ profile.version # 2
  /\ semantic
\* Two requests to delete the profile, which comes back in between, while no
\* job spends a failure.
Callers ==
  /\ \A g \in Version : job[g].failures = 0
  /\ \E w \in Worker : Unused(w)
  /\ NoObject
  /\ \A a \in Writer : writer[a].at = "start"
  /\ semantic
  /\ FirstRows

\* Two pages beside two commands about one project that does not change.
Visits == moves = MaxMoves
\* Two pages over two projects beside one command.
Pages == \E x \in Act : act[x].at = "new"

\* Two commands about two names and two proposals.
Names == \A a \in Attempt : try[a].digest \in {Nil, c}
\* Two attempts of one or two commands and two payloads about one proposal.
Retries ==
  /\ project.analysis = 1
  /\ \E n \in Name :
       /\ \A m \in Name : m = n \/ tags[m] = Nil
       /\ \A p \in Suggested : Exists(p) => proposals[p].name \in {n, Nil}
       /\ \A x \in Command : payload[x] # Nil =>
            /\ payload[x].tag \in {n, Nil}
            /\ payload[x].proposal \notin Assessed

MCInit ==
  /\ part \in {"erasure", "leases", "callers", "visits", "pages", "names",
               "retries"}
  /\ Init
  /\ ServingInit
  /\ GovernanceInit
  \* What does not move has one initial state.
  /\ CASE part = "erasure" -> bucket[<<1, 1>>] = "content" /\ Erasure
       [] part = "leases" -> \A k \in Legacy : bucket[k] = "content"
       [] OTHER -> NoObject
  /\ CASE part = "visits" ->
            \E r \in Repo : /\ {s \in Repo : catalog[s].ok} = {r}
                            /\ \A s \in Repo \ {r} : catalog[s].tag = Null
       [] part = "pages" -> \A r \in Repo : catalog[r].ok
       [] OTHER -> \A r \in Repo : catalog[r].ok /\ catalog[r].tag = Null
  /\ CASE part = "names" -> TRUE
       [] part = "retries" -> Retries
       [] OTHER -> \A n \in Name : tags[n] = Nil

MCNext ==
  /\ UNCHANGED part
  /\ \/ /\ part \in {"erasure", "leases", "callers"}
        /\ Next
        /\ part = "erasure" => Erasure'
        /\ part = "leases" => Leases'
        /\ part = "callers" => Callers'
        /\ UNCHANGED <<servingVars, governanceVars>>
     \/ /\ part \in {"visits", "pages"}
        /\ ServingNext
        /\ part = "visits" => Visits'
        /\ part = "pages" => Pages'
        /\ UNCHANGED <<vars, governanceVars>>
     \/ /\ part \in {"names", "retries"}
        /\ GovernanceNext
        /\ part = "names" => Names'
        /\ part = "retries" => Retries'
        /\ UNCHANGED <<vars, servingVars>>

MCSpec == MCInit /\ [][MCNext]_all

Symmetry == Permutations({a1, a2}) \cup Permutations({b1, b2})
              \cup Permutations({n1, n2})
=============================================================================
