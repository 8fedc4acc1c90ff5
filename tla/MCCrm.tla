------------------------------- MODULE MCCrm --------------------------------
(* Model values for the run of Crm. *)
EXTENDS Crm, TLC

Symmetric == Permutations(Companies) \cup Permutations(Locations) \cup Permutations(People)
                \cup Permutations(Names) \cup Permutations(Requests)

Records == {id \in Ids : record[id].status # "none"}

Held == {id \in Records : record[id].hold}

Redacted == {id \in Records : record[id].name = id}

\* One legal hold or redacted name at a time, and a redacted name, which no other
\* can be like, among two records; taxonomies are put while there are at most two
\* records and neither of these, since a put looks at none of it.
Focus ==
    /\ Cardinality(Held \cup Redacted) <= 1
    /\ Redacted # {} => Cardinality(Records) <= 2
    /\ (\E r \in Requests : req[r].pc = "put") => Held \cup Redacted = {} /\ Cardinality(Records) <= 2
=============================================================================
